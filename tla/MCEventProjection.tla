------------------------- MODULE MCEventProjection -------------------------
(* A small instance of EventProjection. *)
EXTENDS EventProjection, TLC

CONSTANTS p1, p2

Failed(p) == [type |-> "payment.failed", payment |-> p]
Captured(p) == [type |-> "payment.captured", payment |-> p]
Link(type) == [type |-> type, payment |-> None]

MCPayments == {p1}
MCBodies == {Failed(p1), Captured(p1), Link("payment_link.paid"),
             Link("payment_link.partially_paid"), Link("payment_link.cancelled")}
MCIds == {"f", "c", "l"}
MCJobs == MCIds \cup MCPayments
MCWire == {<<"f", Failed(p1)>>, <<"f", Captured(p1)>>, <<"c", Captured(p1)>>}
          \cup {<<"l", b>> : b \in MCBodies \ {Captured(p1)}}
MCForged == {<<"f", Captured(p1)>>}

\* Two payments of the order, one of them captured, one worker.
TwoPayments == {p1, p2}
TwoBodies == {Failed(p1), Failed(p2), Captured(p1)}
TwoIds == {"f", "g", "c"}
TwoJobs == TwoIds \cup TwoPayments
TwoWire == {<<"f", Failed(p1)>>, <<"g", Failed(p2)>>, <<"c", Captured(p1)>>}

MCSymmetry == Permutations(Workers)
=============================================================================
