--------------------------- MODULE LeasedDelivery ---------------------------
(***************************************************************************)
(* What the outbox promises its users: a job is worked on by at most one   *)
(* worker that the outbox will listen to.  A worker holds a job until it   *)
(* gives it back, finishes it, or its lease runs out; only the holder's    *)
(* word changes anything; a finished job stays finished.                   *)
(*                                                                         *)
(* Outbox implements this specification: rows, versions and timers are the *)
(* means, and a worker that acts after its lease ran out is invisible.     *)
(***************************************************************************)
CONSTANTS Jobs, Workers

VARIABLES
    phase,   \* "absent", "ready", "held", "done" or "dead"
    holder   \* the worker a held job is leased to

vars == <<phase, holder>>

NoWorker == "none"

Init ==
    /\ phase = [j \in Jobs |-> "absent"]
    /\ holder = [j \in Jobs |-> NoWorker]

\* A producer commits a new job.
Submit(j) ==
    /\ phase[j] = "absent"
    /\ phase' = [phase EXCEPT ![j] = "ready"]
    /\ UNCHANGED holder

\* One poll: w obtains the jobs of H and the outbox gives up on those of D.
Take(w, H, D) ==
    /\ H \cap D = {}
    /\ \A j \in H \cup D : phase[j] = "ready"
    /\ phase' = [j \in Jobs |-> IF j \in H THEN "held"
                                ELSE IF j \in D THEN "dead" ELSE phase[j]]
    /\ holder' = [j \in Jobs |-> IF j \in H THEN w ELSE holder[j]]

\* The holder returns the job to be delivered again, is done with it or
\* declares it dead.  Nobody else can say that a job is done.
Release(w, j, to) ==
    /\ phase[j] = "held"
    /\ holder[j] = w
    /\ to \in {"ready", "done", "dead"}
    /\ phase' = [phase EXCEPT ![j] = to]
    /\ holder' = [holder EXCEPT ![j] = NoWorker]

\* Leases run out, several at a time.
Expire(S) ==
    /\ \A j \in S : phase[j] = "held"
    /\ phase' = [j \in Jobs |-> IF j \in S THEN "ready" ELSE phase[j]]
    /\ holder' = [j \in Jobs |-> IF j \in S THEN NoWorker ELSE holder[j]]

Next ==
    \/ \E j \in Jobs : Submit(j)
    \/ \E w \in Workers, H \in SUBSET Jobs, D \in SUBSET Jobs : Take(w, H, D)
    \/ \E w \in Workers, j \in Jobs, to \in {"ready", "done", "dead"} : Release(w, j, to)
    \/ \E S \in SUBSET Jobs : Expire(S)

Spec == Init /\ [][Next]_vars
=============================================================================
