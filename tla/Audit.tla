-------------------------------- MODULE Audit --------------------------------
(***************************************************************************)
(* The audit chain of one recovery case (control_plane/postgres_audit.py   *)
(* and the triggers on audit_entries).                                     *)
(*                                                                         *)
(* An entry is appended inside its caller's transaction.  Some callers     *)
(* hold the case's row lock when they come to the chain's advisory lock;   *)
(* the others, and verify_chain, take the advisory lock first and then ask *)
(* for a share of the row lock.  An entry's timestamp is read before its   *)
(* transaction has any lock.  The chain holds what was appended: the code  *)
(* also changes cases without an entry (the terminal projector appends     *)
(* none, appenders are optional), and nothing here counts those changes.   *)
(***************************************************************************)
EXTENDS Naturals, Sequences, SequencesExt

CONSTANTS
    Writers, Verifiers, NoOne,
    MaxEntries,   \* max_entries of verify_chain
    PageSize,     \* page_size of verify_chain
    MaxTime,      \* bound on the clock
    MaxChain      \* no transaction begins once the case has so many entries

ASSUME AuditAssumption ==
    /\ MaxEntries \in Nat \ {0} /\ PageSize \in Nat \ {0}
    /\ MaxTime \in Nat /\ MaxChain \in Nat
    /\ Writers \cap Verifiers = {} /\ NoOne \notin Writers \cup Verifiers

VARIABLES
    now,        \* the clock the writers read
    rows,       \* audit_entries of the case, by sequence_number
    written,    \* the entries whose transactions committed
    damaged,    \* a stored row is not what was written
    chainLock,  \* holder of the advisory lock
    rowLock,    \* holder of the case's row FOR UPDATE
    tx          \* tx[t]: transaction t

vars == <<now, rows, written, damaged, chainLock, rowLock, tx>>

Clients == Writers \cup Verifiers

\* A writer's facts stand for everything it puts into its entry.
Document == [sequence: Nat \ {0}, facts: Writers, at: 0..MaxTime]

\* What a digest is worth: it names one document and one previous digest.
Digest == Seq(Document)
GENESIS_HASH == <<>>
Hash(doc, previous) == Append(previous, doc)

Entry == [sequence: Nat \ {0}, facts: Writers, at: 0..MaxTime, previous: Digest, hash: Digest]

Phases == {"idle", "case", "chain", "bind", "append", "commit", "read", "valid", "invalid"}

\* seen: the entry a writer has inserted, or the entries a verifier has read.
AuditTypeOK ==
    /\ now \in 0..MaxTime
    /\ rows \in Seq(Entry) /\ written \in Seq(Entry)
    /\ damaged \in BOOLEAN
    /\ chainLock \in Clients \cup {NoOne}
    /\ rowLock \in Writers \cup {NoOne}
    /\ tx \in [Clients -> [phase: Phases, at: 0..MaxTime, seen: Seq(Entry)]]

Idle == [phase |-> "idle", at |-> 0, seen |-> <<>>]

Init ==
    /\ now = 0 /\ rows = <<>> /\ written = <<>> /\ damaged = FALSE
    /\ chainLock = NoOne /\ rowLock = NoOne
    /\ tx = [t \in Clients |-> Idle]

-----------------------------------------------------------------------------

In(t, phase) == tx[t].phase = phase

Goto(t, phase) == tx' = [tx EXCEPT ![t].phase = phase]

\* Mutant: a session lock, which the end of the transaction leaves in place.
ReleaseRowOnly(t) ==
    /\ rowLock' = IF rowLock = t THEN NoOne ELSE rowLock
    /\ UNCHANGED chainLock

\* Both locks last until the end of the transaction.
ReleaseLocks(t) ==
    /\ rowLock' = IF rowLock = t THEN NoOne ELSE rowLock
    /\ chainLock' = IF chainLock = t THEN NoOne ELSE chainLock

End(t) == tx' = [tx EXCEPT ![t] = Idle] /\ ReleaseLocks(t)

Tick == now < MaxTime /\ now' = now + 1
        /\ UNCHANGED <<rows, written, damaged, chainLock, rowLock, tx>>

\* A row is altered, or one inside the chain lost, beneath the triggers that
\* forbid both.
Damage ==
    /\ ~damaged /\ damaged' = TRUE
    /\ \/ \E i \in 1..Len(rows), w \in Writers :
             /\ w # rows[i].facts
             /\ rows' = [rows EXCEPT ![i].facts = w]
       \/ \E i \in 1..(Len(rows) - 1) : rows' = RemoveAt(rows, i)
    /\ UNCHANGED <<now, written, chainLock, rowLock, tx>>

\* A transaction that will append; created_at is already read.
Begin(w, holdsRow) ==
    /\ In(w, "idle") /\ Len(written) < MaxChain
    /\ tx' = [tx EXCEPT ![w] = [phase |-> IF holdsRow THEN "case" ELSE "chain",
                                at |-> now, seen |-> <<>>]]
    /\ UNCHANGED <<now, rows, written, damaged, chainLock, rowLock>>

BeginVerify(v) ==
    /\ In(v, "idle")
    /\ Goto(v, "chain")
    /\ UNCHANGED <<now, rows, written, damaged, chainLock, rowLock>>

\* Who holds a share of the case's row: taken after the advisory lock.
Bound == {"append", "commit", "read", "valid", "invalid"}

\* SELECT ... FROM recovery_cases ... FOR UPDATE of the calling repository.
LockCase(w) ==
    /\ In(w, "case")
    /\ rowLock = NoOne /\ \A t \in Clients : tx[t].phase \notin Bound
    /\ rowLock' = w
    /\ Goto(w, "chain")
    /\ UNCHANGED <<now, rows, written, damaged, chainLock>>

\* _LOCK_CHAIN
LockChain(t) ==
    /\ In(t, "chain") /\ chainLock = NoOne
    /\ chainLock' = t
    /\ Goto(t, "bind")
    /\ UNCHANGED <<now, rows, written, damaged, rowLock>>

\* _LOCK_CASE_BINDING
LockBinding(t) ==
    /\ In(t, "bind") /\ rowLock \in {t, NoOne}
    /\ Goto(t, IF t \in Writers THEN "append" ELSE "read")
    /\ UNCHANGED <<now, rows, written, damaged, chainLock, rowLock>>

\* The database aborts one transaction of a cycle of waits.
DeadlockDetected(w, t) ==
    /\ In(w, "chain") /\ rowLock = w
    /\ In(t, "bind") /\ chainLock = t
    /\ \E victim \in {w, t} : End(victim)
    /\ UNCHANGED <<now, rows, written, damaged>>

\* The connection is lost, or the caller's transaction fails for its own reasons.
\* To the chain, a caller that locks the case and commits without an entry is
\* the same.
Abort(t) ==
    /\ ~In(t, "idle")
    /\ End(t)
    /\ UNCHANGED <<now, rows, written, damaged>>

-----------------------------------------------------------------------------
(* append                                                                  *)

HeadHash(chain) == IF chain = <<>> THEN GENESIS_HASH ELSE Last(chain).hash

\* Mutant: the first entry has number zero.
NextFromZero(chain) == IF chain = <<>> THEN 0 ELSE Last(chain).sequence + 1

NextSequence(chain) == IF chain = <<>> THEN 1 ELSE Last(chain).sequence + 1

\* Mutant: the head's timestamp is not looked at.
NeverRegresses(at, chain) == FALSE

Regresses(at, chain) == chain # <<>> /\ at < Last(chain).at

\* The entry append inserts after the chain's head.
NewEntry(w, at, chain) ==
    LET doc == [sequence |-> NextSequence(chain), facts |-> w, at |-> at]
    IN  [sequence |-> doc.sequence, facts |-> w, at |-> at,
         previous |-> HeadHash(chain), hash |-> Hash(doc, HeadHash(chain))]

\* AuditRepositoryError leaves the caller's transaction to roll back.
Refused(w) == End(w)

\* The trigger on audit_entries looks at the head again.
enforce_audit_chain(e, chain) ==
    e.sequence = NextSequence(chain) /\ e.previous = HeadHash(chain)

AppendEntry(w) ==
    /\ In(w, "append")
    /\ LET entry == NewEntry(w, tx[w].at, rows)
       IN  IF Regresses(tx[w].at, rows) \/ ~enforce_audit_chain(entry, rows)
           THEN Refused(w)
           ELSE /\ tx' = [tx EXCEPT ![w] = [phase |-> "commit", at |-> tx[w].at,
                                            seen |-> <<entry>>]]
                /\ UNCHANGED <<chainLock, rowLock>>
    /\ UNCHANGED <<now, rows, written, damaged>>

\* The caller's COMMIT makes its entry part of the history.
Commit(w) ==
    /\ In(w, "commit")
    /\ rows' = rows \o tx[w].seen
    /\ written' = written \o tx[w].seen
    /\ End(w)
    /\ UNCHANGED <<now, damaged>>

-----------------------------------------------------------------------------
(* verify_chain                                                            *)

\* _verify_row, given the rows verified before.
RowVerifies(e, seen) ==
    /\ e.sequence = Len(seen) + 1
    /\ e.previous = HeadHash(seen)
    /\ seen = <<>> \/ e.at >= Last(seen).at
    /\ e.hash = Hash([sequence |-> e.sequence, facts |-> e.facts, at |-> e.at], e.previous)

Verifies(chain) == \A i \in 1..Len(chain) : RowVerifies(chain[i], SubSeq(chain, 1, i - 1))

\* The stored rows are in the order of their numbers: Skipped of them are at or
\* below the last one read.
Skipped(after) ==
    CHOOSE n \in 0..Len(rows) :
        \A i \in 1..Len(rows) : i <= n <=> rows[i].sequence <= after

\* _SELECT_AUDIT_PAGE
Page(after, limit) ==
    LET n == Skipped(after)
    IN  SubSeq(rows, n + 1, IF n + limit < Len(rows) THEN n + limit ELSE Len(rows))

\* Mutant: the entries read so far are enough once the limit is reached.
AtLimitIsEnough(more) == "valid"

\* LIMIT_EXCEEDED when there is one entry more than max_entries.
AtLimit(more) == IF more = <<>> THEN "valid" ELSE "invalid"

ReadPage(v) ==
    /\ In(v, "read")
    /\ LET seen == tx[v].seen
           remaining == MaxEntries - Len(seen)
           requested == IF remaining < PageSize THEN remaining ELSE PageSize
           page == Page(Len(seen), IF remaining = 0 THEN 1 ELSE requested)
           phase == IF remaining = 0 THEN AtLimit(page)
                    ELSE IF ~Verifies(seen \o page) THEN "invalid"
                    ELSE IF Len(page) < requested THEN "valid" ELSE "read"
           kept == IF phase = "invalid" THEN <<>>
                   ELSE IF remaining = 0 THEN seen ELSE seen \o page
       IN  tx' = [tx EXCEPT ![v] = [phase |-> phase, at |-> tx[v].at, seen |-> kept]]
    /\ UNCHANGED <<now, rows, written, damaged, chainLock, rowLock>>

Report(v) ==
    /\ In(v, "valid") \/ In(v, "invalid")
    /\ End(v)
    /\ UNCHANGED <<now, rows, written, damaged>>

\* What a transaction does next, once the locks it waits for are free.
Proceed(t) ==
    \/ LockChain(t) \/ LockBinding(t)
    \/ t \in Writers /\ (LockCase(t) \/ AppendEntry(t) \/ Commit(t))
    \/ t \in Verifiers /\ (ReadPage(t) \/ Report(t))

Deadlock == \E w \in Writers, t \in Clients : DeadlockDetected(w, t)

Next ==
    \/ Tick \/ Damage \/ Deadlock
    \/ \E w \in Writers, holdsRow \in BOOLEAN : Begin(w, holdsRow)
    \/ \E v \in Verifiers : BeginVerify(v)
    \/ \E t \in Clients : Proceed(t) \/ Abort(t)

\* Callers go on with a transaction they began; the database serves those who
\* wait for a lock in turn, and looks for deadlocks.
Fairness ==
    /\ \A t \in Clients : SF_vars(Proceed(t))
    /\ WF_vars(Deadlock)

Spec == Init /\ [][Next]_vars

FairSpec == Spec /\ Fairness

-----------------------------------------------------------------------------
(***************************************************************************)
(* Whoever appends, in whatever order their clocks were read, the stored   *)
(* chain is one that verify_chain accepts, unless a row was damaged.       *)
(***************************************************************************)
ChainVerifies == ~damaged => rows = written /\ Verifies(rows)

(***************************************************************************)
(* What verify_chain reports as valid is the whole history as it was       *)
(* written, never a prefix of it and never a chain with a damaged row,     *)
(* although it reads page by page next to the writers.                     *)
(***************************************************************************)
VerifiedIsWritten ==
    \A v \in Verifiers : In(v, "valid") => tx[v].seen = written

(***************************************************************************)
(* A transaction that asked for the chain ends: no order of the two locks  *)
(* leaves everyone waiting, and no failure leaves a lock behind.           *)
(***************************************************************************)
TransactionsEnd ==
    \A t \in Clients : ~In(t, "idle") ~> In(t, "idle")
=============================================================================
