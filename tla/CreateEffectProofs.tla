------------------------- MODULE CreateEffectProofs -------------------------
(***************************************************************************)
(* Theorems about CreateEffect for any number of cases, workers and        *)
(* attempts, any batch size, lease duration and backoff schedule.          *)
(***************************************************************************)
EXTENDS CreateEffect, OutboxProofs

\* The claims of one batch are of different jobs.
OneClaimPerJob ==
    \A w \in Workers : \A c, d \in batch[w] : c.job = d.job => c = d

\* The row has not been written since the claim was made.
Live(c) == job[c.job].status = "IN_PROGRESS" /\ job[c.job].version = c.version

\* A live delivery runs in the row's mode.
ModeCopied == \A w \in Workers : \A c \in batch[w] : Live(c) => c.mode = job[c.job].mode

\* Between two deliveries nothing is left of a handler.
IdleBetween == \A w \in Workers : batch[w] = {} => h[w].at = "idle"

\* A handler comes to a link only when there is one.
ResultStands ==
    \A w \in Workers : \A c \in batch[w] : At(w, c, "persist") =>
        /\ h[w].result \in Dispositions
        /\ h[w].result \in {"CREATED", "ADOPTED"} => link[c.job]

\* What exists at the provider was sent, and what was not sent is not unknown.
RequestsAreSent ==
    \A j \in Jobs :
        /\ request[j] # "none" => sent[j] > 0
        /\ request[j] = "accepted" => link[j]
        /\ link[j] => sent[j] > 0
        /\ sent[j] = 0 => outcome[j] # "unknown"
        /\ sent[j] <= 1

\* Nothing is sent without evidence; whoever is authorized has not sent
\* anything yet, and nobody else is.
EvidenceFirst ==
    /\ \A j \in Jobs : db[j].evidence = 0 => sent[j] = 0
    /\ \A w \in Workers : \A c \in batch[w] :
            At(w, c, "authorized") => db[c.job].evidence = 1 /\ sent[c.job] = 0
    /\ \A v, w \in Workers : \A c \in batch[v] : \A d \in batch[w] :
            At(v, c, "authorized") /\ At(w, d, "authorized") /\ c.job = d.job => v = w

\* The handler is past the authorization of its current command.
Past(w, c) ==
    IsCurrent(w, c) /\ h[w].at \in {"authorized", "sent", "lookup", "persist", "settle"}

(***************************************************************************)
(* A case that is EXECUTING belongs to one delivery, which is past its     *)
(* authorization: every other delivery of it may only reconcile, and a     *)
(* delivery that asks for the same effect again has put the case back into *)
(* the queue.                                                              *)
(***************************************************************************)
ExecutingIsTaken ==
    /\ \A j \in Jobs :
        db[j].case = "EXECUTING" /\ job[j].mode # "RECONCILE_ONLY"
            => job[j].status \in Terminal \cup {"IN_PROGRESS"}
    /\ \A w \in Workers : \A c \in batch[w] : Live(c) /\ db[c.job].case = "EXECUTING" =>
        /\ job[c.job].mode # "RECONCILE_ONLY" => Past(w, c)
        /\ At(w, c, "settle") => h[w].result # "RETRY_SAME_EFFECT"

\* The inductive invariant.
EInv ==
    /\ IInv
    /\ CreateTypeOK
    /\ RowsAgree
    /\ OneClaimPerJob
    /\ ModeCopied
    /\ IdleBetween
    /\ ResultStands
    /\ RequestsAreSent
    /\ EvidenceFirst
    /\ ExecutingIsTaken
    /\ RecordedLinkIsReal

-----------------------------------------------------------------------------
\* The rows of one case.

\* The successors the lifecycle triggers allow, state by state.
LEMMA NextTables ==
    /\ CaseNext["ACTION_QUEUED"] = {"EXECUTING", "SUPPRESSED_PAID", "SUPPRESSED_POLICY"}
    /\ CaseNext["EXECUTING"] = {"ACTIVE", "ACTION_UNCERTAIN", "FAILED_SAFE", "SUPPRESSED_PAID"}
    /\ CaseNext["ACTION_UNCERTAIN"] = {"ACTIVE", "ACTION_QUEUED", "ESCALATED", "SUPPRESSED_PAID"}
    /\ CaseNext["ACTIVE"] = {"SUPPRESSED_PAID"}
    /\ \A s \in CaseStates \ Workflow : CaseNext[s] = {}
    /\ DOMAIN ActionNext = {"QUEUED", "EXECUTING", "FAILED_RETRYABLE", "UNCERTAIN", "RECONCILING",
                            "SUCCEEDED", "RECONCILED", "FAILED_SAFE", "CANCELLED", "DEAD_LETTER"}
    /\ \A a \in {"SUCCEEDED", "RECONCILED", "FAILED_SAFE", "CANCELLED", "DEAD_LETTER"} :
            ActionNext[a] = {}
    /\ ActionNext["QUEUED"] = {"EXECUTING", "CANCELLED", "DEAD_LETTER"}
    /\ ActionNext["UNCERTAIN"] = {"RECONCILING", "DEAD_LETTER"}
    /\ ActionNext["FAILED_RETRYABLE"] = {"QUEUED", "DEAD_LETTER", "CANCELLED"}
    /\ ActionNext["EXECUTING"] # {}
    /\ ActionNext["RECONCILING"] # {}
    /\ DOMAIN InstrumentNext = {"CREATING", "UNCERTAIN", "ACTIVE", "FAILED"}
<1>1. /\ CaseNext["ACTION_QUEUED"] = {"EXECUTING", "SUPPRESSED_PAID", "SUPPRESSED_POLICY"}
      /\ CaseNext["EXECUTING"] = {"ACTIVE", "ACTION_UNCERTAIN", "FAILED_SAFE", "SUPPRESSED_PAID"}
      /\ CaseNext["ACTION_UNCERTAIN"] = {"ACTIVE", "ACTION_QUEUED", "ESCALATED", "SUPPRESSED_PAID"}
      /\ CaseNext["ACTIVE"] = {"SUPPRESSED_PAID"}
  BY DEF CaseNext
<1>2. \A s \in CaseStates \ Workflow : CaseNext[s] = {}
  BY DEF CaseNext, CaseStates, Workflow
<1>3. DOMAIN ActionNext = {"QUEUED", "EXECUTING", "FAILED_RETRYABLE", "UNCERTAIN", "RECONCILING",
                           "SUCCEEDED", "RECONCILED", "FAILED_SAFE", "CANCELLED", "DEAD_LETTER"}
  BY DEF ActionNext
<1>4. \A a \in {"SUCCEEDED", "RECONCILED", "FAILED_SAFE", "CANCELLED", "DEAD_LETTER"} :
         ActionNext[a] = {}
  BY DEF ActionNext
<1>5. /\ ActionNext["QUEUED"] = {"EXECUTING", "CANCELLED", "DEAD_LETTER"}
      /\ ActionNext["UNCERTAIN"] = {"RECONCILING", "DEAD_LETTER"}
      /\ ActionNext["FAILED_RETRYABLE"] = {"QUEUED", "DEAD_LETTER", "CANCELLED"}
      /\ ActionNext["EXECUTING"] # {}
      /\ ActionNext["RECONCILING"] # {}
  BY DEF ActionNext
<1>6. DOMAIN InstrumentNext = {"CREATING", "UNCERTAIN", "ACTIVE", "FAILED"}
  BY DEF InstrumentNext
<1>7. QED
  BY <1>1, <1>2, <1>3, <1>4, <1>5, <1>6

\* Transactions of one, two and three images.
LEMMA ImageFacts ==
    ASSUME NEW a, NEW b, NEW c
    PROVE  /\ ~Commits(<<>>)
           /\ Committed(<<a>>) = a
           /\ Committed(<<a, b>>) = b
           /\ Commits(<<a, b>>) => TriggersPass(a, b)
           /\ Committed(<<a, b, c>>) = c
           /\ Commits(<<a, b, c>>) => TriggersPass(a, b) /\ TriggersPass(b, c)
<1>1. ~Commits(<<>>)
  BY DEF Commits
<1>2. Committed(<<a>>) = a
  BY DEF Committed
<1>3. Committed(<<a, b>>) = b /\ (Commits(<<a, b>>) => TriggersPass(a, b))
  <2>1. Len(<<a, b>>) = 2 /\ <<a, b>>[1] = a /\ <<a, b>>[2] = b
    OBVIOUS
  <2> DEFINE s == <<a, b>>
  <2>2. Len(s) = 2 /\ s[1] = a /\ s[2] = b
    BY <2>1
  <2>3. Committed(s) = b
    BY <2>2 DEF Committed
  <2> HIDE DEF s
  <2>4. Commits(s) => TriggersPass(s[1], s[1 + 1])
    BY <2>2 DEF Commits
  <2>5. Commits(s) => TriggersPass(a, b)
    BY <2>2, <2>4
  <2>6. QED
    BY <2>3, <2>5 DEF s
<1>4. Committed(<<a, b, c>>) = c /\ (Commits(<<a, b, c>>) => TriggersPass(a, b) /\ TriggersPass(b, c))
  <2> DEFINE s == <<a, b, c>>
  <2>2. Len(s) = 3 /\ s[1] = a /\ s[2] = b /\ s[3] = c
    OBVIOUS
  <2>3. Committed(s) = c
    BY <2>2 DEF Committed
  <2> HIDE DEF s
  <2>4. Commits(s) => TriggersPass(s[1], s[1 + 1]) /\ TriggersPass(s[2], s[2 + 1])
    BY <2>2 DEF Commits
  <2>5. Commits(s) => TriggersPass(a, b) /\ TriggersPass(b, c)
    BY <2>2, <2>4
  <2>6. QED
    BY <2>3, <2>5 DEF s
<1>5. QED
  BY <1>1, <1>2, <1>3, <1>4

\* The columns of a row that was moved, with or without a new decision.
LEMMA MovedFacts ==
    ASSUME NEW r \in CaseRow, NEW case \in CaseStates, NEW action \in DOMAIN ActionNext,
           NEW instrument \in DOMAIN InstrumentNext
    PROVE  LET n == Moved(r, case, action, instrument)
               e == Moved(Evidenced(r), case, action, instrument)
           IN  /\ n \in CaseRow
               /\ n.case = case /\ n.action = action /\ n.instrument = instrument
               /\ n.linked = r.linked /\ n.truth = r.truth /\ n.evidence = r.evidence
               /\ n.version # r.version
               /\ e.case = case /\ e.action = action /\ e.instrument = instrument
               /\ e.linked = r.linked /\ e.truth = r.truth /\ e.evidence = r.evidence + 1
               /\ TriggersPass(r, e) => e \in CaseRow /\ r.evidence = 0
<1>1. /\ r.version \in Nat /\ r.evidence \in 0..1 /\ r.linked \in BOOLEAN
      /\ r.truth \in {"UNPAID", "PAID"}
  BY DEF CaseRow
<1> DEFINE n == Moved(r, case, action, instrument)
           e == Moved(Evidenced(r), case, action, instrument)
<1>2. /\ n = [case |-> case, version |-> r.version + 1, action |-> action,
              evidence |-> r.evidence, instrument |-> instrument, linked |-> r.linked,
              truth |-> r.truth]
  BY DEF Moved
<1>3. /\ e = [case |-> case, version |-> r.version + 1, action |-> action,
              evidence |-> r.evidence + 1, instrument |-> instrument, linked |-> r.linked,
              truth |-> r.truth]
  <2>1. /\ Evidenced(r).version = r.version /\ Evidenced(r).evidence = r.evidence + 1
        /\ Evidenced(r).linked = r.linked /\ Evidenced(r).truth = r.truth
    BY DEF Evidenced, CaseRow
  <2>2. QED
    BY <2>1 DEF Moved
<1> HIDE DEF n, e
<1>4. n \in CaseRow /\ n.version # r.version
  BY <1>1, <1>2 DEF CaseRow
<1>5. TriggersPass(r, e) => r.evidence = 0
  <2>1. TriggersPass(r, e) => (r.evidence > 0 => e.evidence = r.evidence)
    BY DEF TriggersPass
  <2>2. QED
    BY <1>1, <1>3, <2>1
<1>6. r.evidence = 0 => e \in CaseRow
  BY <1>1, <1>3 DEF CaseRow
<1>7. QED
  BY <1>2, <1>3, <1>4, <1>5, <1>6 DEF n, e

\* What a committed update of a row guarantees: the tables agree, evidence is
\* not lost and a closed case stays closed.
Follows(r, n) ==
    /\ n \in CaseRow
    /\ Agree(n)
    /\ n.evidence \in {r.evidence, r.evidence + 1}
    /\ r.case \notin Workflow => n.case \notin Workflow
    /\ r.linked => n.linked

\* The case moves as its trigger says.
LEMMA CaseMoves ==
    ASSUME NEW r \in CaseRow, NEW n, TriggersPass(r, n)
    PROVE  /\ n.case = r.case \/ n.case \in CaseNext[r.case]
           /\ n.action = r.action \/ n.action \in ActionNext[r.action]
           /\ n.version # r.version /\ n.case \in Workflow => r.truth = "UNPAID"
           /\ r.case \notin Workflow => n.case \notin Workflow
<1>1. /\ n.case = r.case \/ n.case \in CaseNext[r.case]
      /\ n.action = r.action \/ n.action \in ActionNext[r.action]
      /\ n.version # r.version /\ n.case \in Workflow => r.truth = "UNPAID"
  BY DEF TriggersPass, May
<1>2. r.case \in CaseStates
  BY DEF CaseRow
<1>3. r.case \notin Workflow => n.case = r.case
  BY <1>1, <1>2, NextTables
<1>4. QED
  BY <1>1, <1>3

\* record_effect_authorization: the first authorization of an action writes its evidence.
LEMMA AuthorizedRow ==
    ASSUME NEW r \in CaseRow, Agree(r), NEW mode, Commits(AuthorizationImages(r, mode))
    PROVE  LET n == Committed(AuthorizationImages(r, mode))
           IN  /\ Follows(r, n)
               /\ n.linked = r.linked
               /\ mode = "RECONCILE_ONLY" => n.case # "EXECUTING" /\ n.evidence = r.evidence
               /\ mode # "RECONCILE_ONLY" =>
                    \/ r.case = "ACTION_QUEUED" /\ r.evidence = 0 /\ n.evidence = 1
                    \/ r.case = "EXECUTING" /\ n = r
<1> DEFINE n == Committed(AuthorizationImages(r, mode))
<1>1. /\ r.case \in CaseStates /\ r.action \in DOMAIN ActionNext /\ r.linked \in BOOLEAN
      /\ r.instrument \in DOMAIN InstrumentNext /\ r.evidence \in 0..1
  BY DEF CaseRow
<1>2. CASE mode = "RECONCILE_ONLY"
  <2> DEFINE m == [r EXCEPT !.action = "RECONCILING"]
  <2>1. r.case = "ACTION_UNCERTAIN" /\ r.action \in {"UNCERTAIN", "RECONCILING"} /\ n = m
    BY <1>2, ImageFacts DEF AuthorizationImages
  <2>2. "RECONCILING" \in DOMAIN ActionNext
    BY NextTables
  <2>3. /\ m \in CaseRow
        /\ m.case = r.case /\ m.action = "RECONCILING" /\ m.instrument = r.instrument
        /\ m.linked = r.linked /\ m.truth = r.truth /\ m.evidence = r.evidence
    BY <2>2 DEF CaseRow
  <2> HIDE DEF m, n
  <2>4. Agree(m)
    BY <1>1, <2>1, <2>3 DEF Agree
  <2>5. Follows(r, m)
    BY <1>1, <2>1, <2>3, <2>4 DEF Follows, Workflow
  <2>6. QED
    BY <1>2, <2>1, <2>3, <2>5 DEF n
<1>3. CASE mode # "RECONCILE_ONLY" /\ r.case = "ACTION_QUEUED"
  <2> DEFINE m == Moved(Evidenced(r), "EXECUTING", "EXECUTING", r.instrument)
  <2>1. n = m /\ TriggersPass(r, m) /\ r.action = "QUEUED"
    BY <1>3, ImageFacts DEF AuthorizationImages
  <2>2. "EXECUTING" \in CaseStates /\ "EXECUTING" \in DOMAIN ActionNext
    BY NextTables DEF CaseStates
  <2>3. /\ m \in CaseRow
        /\ m.case = "EXECUTING" /\ m.action = "EXECUTING" /\ m.instrument = r.instrument
        /\ m.linked = r.linked /\ m.truth = r.truth /\ m.evidence = r.evidence + 1
        /\ r.evidence = 0
    BY <1>1, <2>1, <2>2, MovedFacts
  <2> HIDE DEF m, n
  <2>4. Agree(m)
    BY <1>1, <1>3, <2>1, <2>3 DEF Agree
  <2>5. Follows(r, m)
    BY <1>1, <1>3, <2>3, <2>4 DEF Follows, Workflow
  <2>6. QED
    BY <1>3, <2>1, <2>3, <2>5 DEF n
<1>4. CASE mode # "RECONCILE_ONLY" /\ r.case # "ACTION_QUEUED"
  <2>1. r.case = "EXECUTING" /\ n = r
    BY <1>4, ImageFacts DEF AuthorizationImages
  <2>2. Follows(r, r)
    BY <1>1 DEF Follows
  <2> HIDE DEF n
  <2>3. QED
    BY <1>4, <2>1, <2>2 DEF n
<1>5. QED
  BY <1>2, <1>3, <1>4

\* CREATED and ADOPTED.
LEMMA LinkedRow ==
    ASSUME NEW r \in CaseRow, Agree(r), Commits(LinkedImages(r))
    PROVE  LET n == Committed(LinkedImages(r)) IN Follows(r, n) /\ n.case # "EXECUTING"
<1> DEFINE n == Committed(LinkedImages(r))
           q == IF r.instrument \in Collectable THEN [r EXCEPT !.linked = TRUE] ELSE r
           a == IF r.action = "EXECUTING" THEN "SUCCEEDED" ELSE "RECONCILED"
           i == IF r.instrument \in Collectable THEN "ACTIVE" ELSE r.instrument
           m == Moved(q, "ACTIVE", a, i)
<1>1. /\ r.case \in CaseStates /\ r.action \in DOMAIN ActionNext /\ r.linked \in BOOLEAN
      /\ r.instrument \in DOMAIN InstrumentNext /\ r.evidence \in 0..1 /\ r.version \in Nat
  BY DEF CaseRow
<1>2. n = m /\ TriggersPass(r, m) /\ ActionNext[r.action] # {}
  BY ImageFacts DEF LinkedImages
<1>3. /\ q \in CaseRow /\ q.truth = r.truth /\ q.evidence = r.evidence /\ q.version = r.version
      /\ q.linked = (r.instrument \in Collectable \/ r.linked)
  BY <1>1 DEF CaseRow
<1>4. /\ "ACTIVE" \in CaseStates /\ a \in DOMAIN ActionNext /\ i \in DOMAIN InstrumentNext
      /\ a \in {"SUCCEEDED", "RECONCILED"}
  BY <1>1, NextTables DEF CaseStates
<1> HIDE DEF q
<1>5. /\ m \in CaseRow
      /\ m.case = "ACTIVE" /\ m.action = a /\ m.instrument = i
      /\ m.linked = q.linked /\ m.truth = r.truth /\ m.evidence = r.evidence
      /\ m.version # r.version
  BY <1>3, <1>4, MovedFacts
<1> HIDE DEF m, n
<1>6. r.truth = "UNPAID" /\ (r.case = "ACTIVE" \/ "ACTIVE" \in CaseNext[r.case])
  BY <1>2, <1>5, CaseMoves DEF Workflow
<1>7. r.case \in {"EXECUTING", "ACTION_UNCERTAIN", "ACTIVE"}
  BY <1>1, <1>6, NextTables DEF CaseStates, Workflow
<1>8. r.case # "ACTIVE"
  BY <1>2, NextTables DEF Agree
<1>9. r.instrument \in Collectable /\ ~r.linked
  BY <1>1, <1>7, <1>8 DEF Agree, Collectable
<1>10. m.linked = TRUE /\ m.instrument = "ACTIVE"
  BY <1>3, <1>5, <1>9
<1>11. Agree(m)
  BY <1>4, <1>5, <1>6, <1>10 DEF Agree
<1>12. Follows(r, m)
  BY <1>1, <1>5, <1>7, <1>10, <1>11 DEF Follows, Workflow
<1>13. QED
  BY <1>2, <1>5, <1>12 DEF n

\* REQUERY_REQUIRED.
LEMMA UncertainRow ==
    ASSUME NEW r \in CaseRow, Agree(r), Commits(UncertainImages(r))
    PROVE  LET n == Committed(UncertainImages(r))
           IN  Follows(r, n) /\ n.case # "EXECUTING" /\ n.linked = r.linked
<1> DEFINE n == Committed(UncertainImages(r))
           m == Moved(r, "ACTION_UNCERTAIN", "UNCERTAIN", "UNCERTAIN")
<1>1. r.case \in CaseStates /\ r.linked \in BOOLEAN /\ r.evidence \in 0..1
  BY DEF CaseRow
<1>2. n = m /\ r.action = "EXECUTING" /\ r.case = "EXECUTING"
  BY ImageFacts DEF UncertainImages
<1>3. /\ "ACTION_UNCERTAIN" \in CaseStates /\ "UNCERTAIN" \in DOMAIN ActionNext
      /\ "UNCERTAIN" \in DOMAIN InstrumentNext
  BY NextTables DEF CaseStates
<1>4. /\ m \in CaseRow
      /\ m.case = "ACTION_UNCERTAIN" /\ m.action = "UNCERTAIN" /\ m.instrument = "UNCERTAIN"
      /\ m.linked = r.linked /\ m.truth = r.truth /\ m.evidence = r.evidence
  BY <1>3, MovedFacts
<1> HIDE DEF m, n
<1>5. Agree(m)
  BY <1>1, <1>2, <1>4 DEF Agree
<1>6. Follows(r, m)
  BY <1>1, <1>2, <1>4, <1>5 DEF Follows, Workflow
<1>7. QED
  BY <1>2, <1>4, <1>6 DEF n

\* REQUEUED.
LEMMA RequeuedRow ==
    ASSUME NEW r \in CaseRow, Agree(r), Commits(RequeuedImages(r))
    PROVE  LET n == Committed(RequeuedImages(r))
           IN  Follows(r, n) /\ n.case # "EXECUTING" /\ n.linked = r.linked
<1> DEFINE n == Committed(RequeuedImages(r))
<1>1. /\ r.case \in CaseStates /\ r.linked \in BOOLEAN /\ r.evidence \in 0..1
      /\ r.instrument \in DOMAIN InstrumentNext
  BY DEF CaseRow
<1>2. /\ {"ACTION_UNCERTAIN", "ACTION_QUEUED"} \subseteq CaseStates
      /\ {"FAILED_RETRYABLE", "QUEUED"} \subseteq DOMAIN ActionNext
      /\ "CREATING" \in DOMAIN InstrumentNext
  BY NextTables DEF CaseStates
<1>3. PICK m \in CaseRow :
        /\ n = m /\ m.case = "ACTION_QUEUED" /\ m.action = "QUEUED" /\ m.instrument = "CREATING"
        /\ m.linked = r.linked /\ m.truth = r.truth /\ m.evidence = r.evidence
  <2>1. CASE r.action = "EXECUTING" /\ r.case = "EXECUTING"
    <3>1. r.instrument = "CREATING"
      BY <2>1 DEF Agree
    <3>2. PICK mid \in CaseRow :
            /\ mid = Moved(r, "ACTION_UNCERTAIN", "FAILED_RETRYABLE", "CREATING")
            /\ mid.linked = r.linked /\ mid.truth = r.truth /\ mid.evidence = r.evidence
      BY <1>1, <1>2, MovedFacts
    <3> DEFINE last == Moved(mid, "ACTION_QUEUED", "QUEUED", "CREATING")
    <3>3. /\ last \in CaseRow
          /\ last.case = "ACTION_QUEUED" /\ last.action = "QUEUED"
          /\ last.instrument = "CREATING"
          /\ last.linked = mid.linked /\ last.truth = mid.truth
          /\ last.evidence = mid.evidence
      BY <1>2, MovedFacts
    <3>4. RequeuedImages(r) = <<r, mid, last>>
      BY <2>1, <3>1, <3>2 DEF RequeuedImages
    <3> HIDE DEF last
    <3>5. Committed(<<r, mid, last>>) = last
      BY DEF Committed
    <3>6. n = last
      BY <3>4, <3>5
    <3> HIDE DEF n
    <3>7. QED
      BY <3>2, <3>3, <3>6
  <2>2. CASE ~(r.action = "EXECUTING" /\ r.case = "EXECUTING")
    <3> DEFINE last == Moved(r, "ACTION_QUEUED", "QUEUED", "CREATING")
    <3>1. n = last
      BY <2>2, ImageFacts DEF RequeuedImages
    <3>2. /\ last \in CaseRow
          /\ last.case = "ACTION_QUEUED" /\ last.action = "QUEUED"
          /\ last.instrument = "CREATING"
          /\ last.linked = r.linked /\ last.truth = r.truth /\ last.evidence = r.evidence
      BY <1>1, <1>2, MovedFacts
    <3> HIDE DEF last, n
    <3>3. QED
      BY <3>1, <3>2
  <2>3. QED
    BY <2>1, <2>2
<1>4. r.case \in {"EXECUTING", "ACTION_UNCERTAIN"}
  BY ImageFacts DEF RequeuedImages
<1> HIDE DEF n
<1>5. Agree(m)
  BY <1>1, <1>3, <1>4 DEF Agree
<1>6. Follows(r, m)
  BY <1>1, <1>3, <1>4, <1>5 DEF Follows, Workflow
<1>7. QED
  BY <1>3, <1>6 DEF n

\* An instrument that is not active is failed.
LEMMA FailedInstrumentFacts ==
    ASSUME NEW r \in CaseRow, Agree(r), ~r.linked
    PROVE  FailedInstrument(r) = "FAILED" /\ "FAILED" \in DOMAIN InstrumentNext
<1>1. r.instrument \in {"CREATING", "UNCERTAIN", "ACTIVE", "FAILED"}
  BY NextTables DEF CaseRow
<1>2. r.instrument # "ACTIVE"
  BY DEF Agree
<1>3. QED
  BY <1>1, <1>2, NextTables DEF FailedInstrument, Collectable

\* ESCALATED and DEAD_LETTER.
LEMMA FailedRow ==
    ASSUME NEW r \in CaseRow, Agree(r), Commits(FailedImages(r))
    PROVE  LET n == Committed(FailedImages(r))
           IN  Follows(r, n) /\ n.case # "EXECUTING" /\ n.linked = r.linked
<1> DEFINE n == Committed(FailedImages(r))
           a == IF r.action = "QUEUED" THEN "DEAD_LETTER" ELSE "FAILED_SAFE"
           m == Moved(r, "FAILED_SAFE", a, FailedInstrument(r))
<1>1. r.case \in CaseStates /\ r.linked \in BOOLEAN /\ r.evidence \in 0..1
  BY DEF CaseRow
<1>2. n = m /\ r.action \in {"QUEUED", "EXECUTING", "RECONCILING"}
  BY ImageFacts DEF FailedImages
<1>3. ~r.linked
  BY <1>1, <1>2 DEF Agree
<1>4. /\ "FAILED_SAFE" \in CaseStates /\ a \in DOMAIN ActionNext
      /\ a \in {"DEAD_LETTER", "FAILED_SAFE"} /\ ActionNext[a] = {}
  BY NextTables DEF CaseStates
<1> HIDE DEF a
<1>5. /\ m \in CaseRow
      /\ m.case = "FAILED_SAFE" /\ m.action = a /\ m.instrument = "FAILED"
      /\ m.linked = r.linked /\ m.truth = r.truth /\ m.evidence = r.evidence
  BY <1>3, <1>4, MovedFacts, FailedInstrumentFacts
<1> HIDE DEF m, n
<1>6. Agree(m)
  BY <1>1, <1>3, <1>4, <1>5 DEF Agree
<1>7. Follows(r, m)
  BY <1>1, <1>3, <1>5, <1>6 DEF Follows, Workflow
<1>8. QED
  BY <1>2, <1>5, <1>7 DEF n

\* SUPPRESSED.
LEMMA SuppressedRow ==
    ASSUME NEW r \in CaseRow, Agree(r), NEW state \in {"SUPPRESSED_PAID", "SUPPRESSED_POLICY"},
           Commits(SuppressedImages(r, state))
    PROVE  LET n == Committed(SuppressedImages(r, state))
           IN  Follows(r, n) /\ n.case # "EXECUTING" /\ n.linked = r.linked
<1> DEFINE n == Committed(SuppressedImages(r, state))
           s == IF state = "SUPPRESSED_PAID" THEN state ELSE "ESCALATED"
<1>1. r.case \in CaseStates /\ r.linked \in BOOLEAN /\ r.evidence \in 0..1
  BY DEF CaseRow
<1>2. r.action \in {"QUEUED", "UNCERTAIN", "RECONCILING"}
  BY ImageFacts DEF SuppressedImages
<1>3. ~r.linked
  BY <1>1, <1>2 DEF Agree
<1>4. /\ state \in CaseStates /\ s \in CaseStates
      /\ {state, s} \subseteq {"SUPPRESSED_PAID", "SUPPRESSED_POLICY", "ESCALATED"}
      /\ {"CANCELLED", "DEAD_LETTER"} \subseteq DOMAIN ActionNext
      /\ ActionNext["CANCELLED"] = {} /\ ActionNext["DEAD_LETTER"] = {}
  BY NextTables DEF CaseStates
<1> HIDE DEF s
<1>5. PICK m \in CaseRow :
        /\ n = m /\ m.case \in {"SUPPRESSED_PAID", "SUPPRESSED_POLICY", "ESCALATED"}
        /\ m.action \in {"CANCELLED", "DEAD_LETTER"} /\ m.instrument = "FAILED"
        /\ m.linked = r.linked /\ m.truth = r.truth
        /\ m.evidence \in {r.evidence, r.evidence + 1}
  <2>1. CASE r.action = "QUEUED"
    <3> DEFINE e == Moved(Evidenced(r), state, "CANCELLED", FailedInstrument(r))
    <3>1. n = e /\ TriggersPass(r, e)
      BY <2>1, ImageFacts DEF SuppressedImages
    <3>2. /\ e \in CaseRow /\ e.case = state /\ e.action = "CANCELLED" /\ e.instrument = "FAILED"
          /\ e.linked = r.linked /\ e.truth = r.truth /\ e.evidence = r.evidence + 1
      BY <1>3, <1>4, <3>1, MovedFacts, FailedInstrumentFacts
    <3> HIDE DEF e, n
    <3>3. QED
      BY <1>4, <3>1, <3>2
  <2>2. CASE r.action # "QUEUED"
    <3> DEFINE e == Moved(r, s, "DEAD_LETTER", FailedInstrument(r))
    <3>1. n = e
      BY <2>2, ImageFacts DEF SuppressedImages, s
    <3>2. /\ e \in CaseRow /\ e.case = s /\ e.action = "DEAD_LETTER" /\ e.instrument = "FAILED"
          /\ e.linked = r.linked /\ e.truth = r.truth /\ e.evidence = r.evidence
      BY <1>3, <1>4, MovedFacts, FailedInstrumentFacts
    <3> HIDE DEF e, n
    <3>3. QED
      BY <1>4, <3>1, <3>2
  <2>3. QED
    BY <2>1, <2>2
<1> HIDE DEF n
<1>6. Agree(m)
  BY <1>1, <1>3, <1>4, <1>5 DEF Agree
<1>7. Follows(r, m)
  BY <1>1, <1>3, <1>5, <1>6 DEF Follows, Workflow
<1>8. QED
  BY <1>5, <1>7 DEF n

\* persist_result: whatever the executor came to, the tables agree after it, a
\* link id is only written for CREATED and ADOPTED, and nothing stays EXECUTING.
LEMMA ResultRow ==
    ASSUME NEW r \in CaseRow, Agree(r), NEW result \in Dispositions,
           Commits(ResultImages(r, result))
    PROVE  LET n == Committed(ResultImages(r, result))
           IN  /\ Follows(r, n)
               /\ n.case # "EXECUTING"
               /\ n.linked => r.linked \/ result \in {"CREATED", "ADOPTED"}
<1>1. CASE result \in {"CREATED", "ADOPTED"}
  <2>1. ResultImages(r, result) = LinkedImages(r)
    BY <1>1 DEF ResultImages
  <2>2. QED
    BY <1>1, <2>1, LinkedRow
<1>2. CASE result = "REQUERY_REQUIRED"
  <2>1. ResultImages(r, result) = UncertainImages(r)
    BY <1>2 DEF ResultImages
  <2>2. QED
    BY <2>1, UncertainRow
<1>3. CASE result = "REQUEUED"
  <2>1. ResultImages(r, result) = RequeuedImages(r)
    BY <1>3 DEF ResultImages
  <2>2. QED
    BY <2>1, RequeuedRow
<1>4. CASE result \in {"ESCALATED", "DEAD_LETTER"}
  <2>1. ResultImages(r, result) = FailedImages(r)
    BY <1>4 DEF ResultImages
  <2>2. QED
    BY <2>1, FailedRow
<1>5. CASE result \in {"SUPPRESSED_PAID", "SUPPRESSED_POLICY"}
  <2>1. ResultImages(r, result) = SuppressedImages(r, result)
    BY <1>5 DEF ResultImages
  <2>2. QED
    BY <1>5, <2>1, SuppressedRow
<1>6. QED
  BY <1>1, <1>2, <1>3, <1>4, <1>5 DEF Dispositions

\* The projector's update of an order that turned out to be paid.
LEMMA CapturedRow ==
    ASSUME NEW r \in CaseRow, Agree(r)
    PROVE  LET p == [r EXCEPT !.truth = "PAID"]
               n == IF p.case \in Workflow
                    THEN Moved(p, "SUPPRESSED_PAID", p.action, p.instrument) ELSE p
           IN  /\ Follows(r, n)
               /\ n.case # "EXECUTING"
               /\ n.action = r.action /\ n.instrument = r.instrument /\ n.linked = r.linked
<1> DEFINE p == [r EXCEPT !.truth = "PAID"]
           m == Moved(p, "SUPPRESSED_PAID", p.action, p.instrument)
<1>1. /\ r.case \in CaseStates /\ r.action \in DOMAIN ActionNext /\ r.linked \in BOOLEAN
      /\ r.instrument \in DOMAIN InstrumentNext /\ r.evidence \in 0..1
  BY DEF CaseRow
<1>2. /\ p \in CaseRow /\ p.case = r.case /\ p.action = r.action /\ p.instrument = r.instrument
      /\ p.linked = r.linked /\ p.evidence = r.evidence
  BY DEF CaseRow
<1>3. "SUPPRESSED_PAID" \in CaseStates
  BY DEF CaseStates
<1> HIDE DEF p
<1>4. /\ m \in CaseRow /\ m.case = "SUPPRESSED_PAID" /\ m.action = r.action
      /\ m.instrument = r.instrument /\ m.linked = r.linked /\ m.evidence = r.evidence
  BY <1>1, <1>2, <1>3, MovedFacts
<1> HIDE DEF m
<1>5. Agree(m)
  BY <1>1, <1>4 DEF Agree
<1>6. Follows(r, m)
  BY <1>1, <1>4, <1>5 DEF Follows, Workflow
<1>7. p.case \notin Workflow => Agree(p) /\ Follows(r, p) /\ p.case # "EXECUTING"
  BY <1>1, <1>2 DEF Agree, Follows, Workflow
<1>8. QED
  BY <1>2, <1>4, <1>6, <1>7 DEF p, m

-----------------------------------------------------------------------------
\* The outbox below the handler.

\* Every step of the handler is a step of the outbox or leaves it alone.
LEMMA CreateStepIsOutboxStep == [CreateNext]_allVars => [Next]_vars
<1>1. SUFFICES ASSUME [CreateNext]_allVars PROVE [Next]_vars
  OBVIOUS
<1>2. ASSUME NEW j \in Jobs, Enqueue(j) PROVE Next
  BY <1>2 DEF Next
<1>3. ASSUME NEW w \in Workers, Poll(w) PROVE Next
  BY <1>3 DEF Next
<1>4. ASSUME NEW w \in Workers, HandlerStep(w) PROVE [Next]_vars
  <2>1. PICK c \in batch[w] : UNCHANGED vars \/ SettleResult(w, c)
    BY <1>4 DEF HandlerStep, ReadContext, EvaluateGate, Authorize, NotSent, SendCreate, Answered,
        Ambiguous, LookupCompletes, LookupIncomplete, Persist, HandlerRaises
  <2>2. CASE SettleResult(w, c)
    BY <2>2 DEF SettleResult, Delivered, Settle, Next
  <2>3. QED
    BY <2>1, <2>2
<1>5. ASSUME NEW w \in Workers, Crash(w) PROVE Next
  BY <1>5 DEF Crash, Next
<1>6. ASSUME NEW j \in Jobs, ProviderAnswers(j) \/ CaptureOriginal(j) \/ ProjectCapture(j)
      PROVE  UNCHANGED vars
  BY <1>6 DEF ProviderAnswers, CaptureOriginal, ProjectCapture
<1>7. SwitchEffects \/ UNCHANGED allVars => UNCHANGED vars
  BY DEF SwitchEffects, allVars
<1>8. Tick => Next
  BY DEF Next
<1>9. QED
  BY <1>1, <1>2, <1>3, <1>4, <1>5, <1>6, <1>7, <1>8 DEF CreateNext

\* Claims are of jobs, and a worker has one current command.
LEMMA CurrentIsOne ==
    ASSUME EInv, NEW w \in Workers, NEW c \in batch[w]
    PROVE  /\ c.job \in Jobs
           /\ \A d \in batch[w] : IsCurrent(w, c) /\ IsCurrent(w, d) => c = d
<1>1. \A d \in batch[w] : d \in Claim
  BY DEF EInv, IInv, TypeOK
<1>2. \A d \in batch[w] : d.job \in Jobs /\ d.job \in Nat
  BY <1>1, JobsAssumption DEF Claim
<1>3. SUFFICES ASSUME NEW d \in batch[w], IsCurrent(w, c), IsCurrent(w, d) PROVE c = d
  BY <1>2
<1>4. c.job <= d.job /\ d.job <= c.job
  BY <1>3 DEF IsCurrent
<1>5. c.job = d.job
  BY <1>2, <1>4
<1>6. QED
  BY <1>5 DEF EInv, OneClaimPerJob

\* Two deliveries with the version of the row are one.
LEMMA LiveIsOne ==
    ASSUME EInv, NEW v \in Workers, NEW w \in Workers, NEW c \in batch[v], NEW d \in batch[w],
           c.job = d.job, Live(c), Live(d)
    PROVE  v = w /\ c = d
BY DEF EInv, IInv, VersionIdentifiesDelivery, Live

\* The parts of the invariant a step of one handler cannot disturb.
LEMMA HandlerMoves ==
    ASSUME EInv, NEW w \in Workers, NEW c \in batch[w], IsCurrent(w, c),
           NEW rec \in Handler, h' = [h EXCEPT ![w] = rec], UNCHANGED vars
    PROVE  /\ h' \in [Workers -> Handler]
           /\ \A u \in Workers : h'[u] = IF u = w THEN rec ELSE h[u]
           /\ \A u \in Workers : batch'[u] = batch[u]
           /\ \A u \in Workers : \A d \in batch[u] :
                /\ IsCurrent(u, d)' <=> IsCurrent(u, d)
                /\ Live(d)' <=> Live(d)
           /\ \A d \in batch[w] : IsCurrent(w, d) => d = c
           /\ OneClaimPerJob' /\ ModeCopied' /\ IdleBetween'
<1>1. job' = job /\ batch' = batch /\ lease' = lease
  BY DEF vars
<1>2. h' \in [Workers -> Handler] /\ \A u \in Workers : h'[u] = IF u = w THEN rec ELSE h[u]
  BY DEF EInv, CreateTypeOK
<1>3. \A u \in Workers : \A d \in batch[u] :
        (IsCurrent(u, d)' <=> IsCurrent(u, d)) /\ (Live(d)' <=> Live(d))
  BY <1>1 DEF IsCurrent, Live
<1>4. \A d \in batch[w] : IsCurrent(w, d) => d = c
  BY CurrentIsOne
<1>5. OneClaimPerJob' /\ ModeCopied'
  BY <1>1 DEF EInv, OneClaimPerJob, ModeCopied, Live
<1>6. IdleBetween'
  BY <1>1, <1>2 DEF EInv, IdleBetween
<1>7. QED
  BY <1>1, <1>2, <1>3, <1>4, <1>5, <1>6

\* A step of a handler that leaves rows and requests alone and does not come
\* to the authorization.
LEMMA HandlerOnly ==
    ASSUME EInv, IInv', NEW w \in Workers, NEW c \in batch[w], IsCurrent(w, c),
           NEW rec \in Handler, h' = [h EXCEPT ![w] = rec],
           UNCHANGED <<vars, db, enabled, paid, link, request, sent>>,
           rec.at # "authorized",
           rec.at = "persist" => /\ rec.result \in Dispositions
                                 /\ rec.result \in {"CREATED", "ADOPTED"} => link[c.job],
           rec.at = "settle" => rec.result = "RECONCILE_ONLY",
           \/ h[w].at \in {"idle", "read", "gated"}
           \/ rec.at \in {"sent", "lookup", "persist", "settle"},
           outcome' = outcome \/ outcome' = [outcome EXCEPT ![c.job] = "known"]
    PROVE  EInv'
<1>1. /\ h' \in [Workers -> Handler]
      /\ \A u \in Workers : h'[u] = IF u = w THEN rec ELSE h[u]
      /\ \A u \in Workers : batch'[u] = batch[u]
      /\ \A u \in Workers : \A d \in batch[u] :
            /\ IsCurrent(u, d)' <=> IsCurrent(u, d)
            /\ Live(d)' <=> Live(d)
      /\ \A d \in batch[w] : IsCurrent(w, d) => d = c
      /\ OneClaimPerJob' /\ ModeCopied' /\ IdleBetween'
  BY HandlerMoves
<1>2. /\ job' = job /\ db' = db /\ enabled' = enabled /\ paid' = paid /\ link' = link
      /\ request' = request /\ sent' = sent
  BY DEF vars
<1>3. /\ outcome' \in [Jobs -> {"unsent", "unknown", "known"}]
      /\ \A j \in Jobs : outcome'[j] \in {outcome[j], "known"}
  BY CurrentIsOne DEF EInv, CreateTypeOK
<1>4. CreateTypeOK'
  BY <1>1, <1>2, <1>3 DEF EInv, CreateTypeOK
<1>5. RowsAgree' /\ RecordedLinkIsReal'
  BY <1>2 DEF EInv, RowsAgree, RecordedLinkIsReal
<1>6. ResultStands'
  BY <1>1, <1>2 DEF EInv, ResultStands, At
<1>7. RequestsAreSent'
  BY <1>2, <1>3 DEF EInv, RequestsAreSent
<1>8. EvidenceFirst'
  BY <1>1, <1>2 DEF EInv, EvidenceFirst, At
<1>9. ExecutingIsTaken'
  BY <1>1, <1>2 DEF EInv, ExecutingIsTaken, Past, At
<1>10. QED
  BY <1>1, <1>4, <1>5, <1>6, <1>7, <1>8, <1>9 DEF EInv

-----------------------------------------------------------------------------
\* The steps of the handler.

HandlerResults == Dispositions \cup {"none", "ALLOWED", "DENIED", "SUCCEED",
                                     "RECONCILE_ONLY", "RETRY_SAME_EFFECT"}

\* Goto leads to a handler.
LEMMA GotoFacts ==
    ASSUME EInv, NEW w \in Workers, NEW stage \in Stages, NEW result \in HandlerResults,
           Goto(w, stage, result)
    PROVE  \E rec \in Handler :
              h' = [h EXCEPT ![w] = rec] /\ rec.at = stage /\ rec.result = result
<1>1. h[w].seen \in Nat
  BY DEF EInv, CreateTypeOK, Handler
<1> DEFINE rec == [at |-> stage, result |-> result,
                   seen |-> IF stage = "gated" THEN h[w].seen ELSE 0]
<1>2. rec \in Handler /\ rec.at = stage /\ rec.result = result
  BY <1>1 DEF Handler, HandlerResults
<1>3. h' = [h EXCEPT ![w] = rec]
  BY DEF Goto
<1> HIDE DEF rec
<1>4. QED
  BY <1>2, <1>3

\* A handler comes to a result, or waits for what the provider says.
LEMMA ToResult ==
    ASSUME EInv, IInv', NEW w \in Workers, NEW c \in batch[w], IsCurrent(w, c),
           NEW stage \in {"gated", "lookup", "persist", "settle"},
           NEW result \in HandlerResults, Goto(w, stage, result),
           stage = "gated" => h[w].at = "read",
           stage = "persist" => /\ result \in Dispositions
                                /\ result \in {"CREATED", "ADOPTED"} => link[c.job],
           stage = "settle" => result = "RECONCILE_ONLY",
           UNCHANGED <<vars, db, enabled, paid, link, request, sent>>,
           outcome' = outcome \/ outcome' = [outcome EXCEPT ![c.job] = "known"]
    PROVE  EInv'
<1>1. stage \in Stages
  BY DEF Stages
<1>2. PICK rec \in Handler :
          h' = [h EXCEPT ![w] = rec] /\ rec.at = stage /\ rec.result = result
  BY <1>1, GotoFacts
<1>3. /\ rec.at # "authorized"
      /\ rec.at = "persist" => /\ rec.result \in Dispositions
                               /\ rec.result \in {"CREATED", "ADOPTED"} => link[c.job]
      /\ rec.at = "settle" => rec.result = "RECONCILE_ONLY"
      /\ \/ h[w].at \in {"idle", "read", "gated"}
         \/ rec.at \in {"sent", "lookup", "persist", "settle"}
  BY <1>2
<1>4. QED
  BY <1>2, <1>3, HandlerOnly

\* Steps of a handler between its commits write no row and ask the provider for nothing.
LEMMA ReadSteps ==
    ASSUME EInv, IInv', NEW w \in Workers, NEW c \in batch[w],
           \/ ReadContext(w, c) \/ EvaluateGate(w, c) \/ NotSent(w, c) \/ Answered(w, c)
           \/ Ambiguous(w, c) \/ LookupCompletes(w, c) \/ LookupIncomplete(w, c)
           \/ HandlerRaises(w, c)
    PROVE  EInv'
<1>1. IsCurrent(w, c) /\ UNCHANGED <<vars, db, enabled, paid, link, request, sent>>
  BY DEF ReadContext, EvaluateGate, NotSent, Answered, Ambiguous, LookupCompletes,
         LookupIncomplete, HandlerRaises, At
<1>2. outcome' = outcome \/ outcome' = [outcome EXCEPT ![c.job] = "known"]
  BY DEF ReadContext, EvaluateGate, NotSent, Answered, Ambiguous, LookupCompletes,
         LookupIncomplete, HandlerRaises
<1>3. /\ Dispositions \subseteq HandlerResults
      /\ "ALLOWED" \in HandlerResults /\ "RECONCILE_ONLY" \in HandlerResults
  BY DEF HandlerResults
<1>4. c.job \in Jobs
  BY CurrentIsOne
<1>5. \A d \in {"REQUEUED", "REQUERY_REQUIRED"} :
         Requeue(c, d) \in {"REQUEUED", "REQUERY_REQUIRED", "DEAD_LETTER"}
  BY DEF Requeue
<1>6. CASE ReadContext(w, c)
  <2>1. h[w].at = "idle"
    BY <1>6 DEF ReadContext, At
  <2> DEFINE rec == [at |-> "read", seen |-> db[c.job].version,
                     result |-> IF enabled /\ db[c.job].case \in EffectStates
                                THEN "ALLOWED" ELSE "DENIED"]
  <2>2. db[c.job].version \in Nat
    BY <1>4 DEF EInv, CreateTypeOK, CaseRow
  <2>3. rec \in Handler /\ rec.at = "read"
    BY <2>2 DEF Handler, Stages
  <2>4. h' = [h EXCEPT ![w] = rec]
    BY <1>6 DEF ReadContext
  <2> HIDE DEF rec
  <2>5. QED
    BY <1>1, <1>2, <2>1, <2>3, <2>4, HandlerOnly
<1>7. CASE EvaluateGate(w, c)
  <2>1. /\ h[w].at = "read"
        /\ \/ \E d \in {"ESCALATED", "SUPPRESSED_PAID", "SUPPRESSED_POLICY"} :
                 Goto(w, "persist", d)
           \/ Goto(w, "gated", "ALLOWED")
    BY <1>7 DEF EvaluateGate, At
  <2>2. {"ESCALATED", "SUPPRESSED_PAID", "SUPPRESSED_POLICY"} \subseteq Dispositions
    BY DEF Dispositions
  <2>3. QED
    BY <1>1, <1>2, <1>3, <2>1, <2>2, ToResult
<1>8. CASE NotSent(w, c) \/ LookupIncomplete(w, c)
  <2>1. \E d \in {"ESCALATED", "REQUEUED", "REQUERY_REQUIRED", "DEAD_LETTER"} :
           Goto(w, "persist", d)
    BY <1>5, <1>8 DEF NotSent, LookupIncomplete
  <2>2. {"ESCALATED", "REQUEUED", "REQUERY_REQUIRED", "DEAD_LETTER"} \subseteq Dispositions
    BY DEF Dispositions
  <2>3. QED
    BY <1>1, <1>2, <1>3, <2>1, <2>2, ToResult
<1>9. CASE Answered(w, c) \/ LookupCompletes(w, c)
  <2>1. \/ \E d \in {"ESCALATED", "REQUEUED", "REQUERY_REQUIRED", "DEAD_LETTER"} :
              Goto(w, "persist", d)
        \/ request[c.job] = "accepted" /\ Goto(w, "persist", "CREATED")
        \/ link[c.job] /\ Goto(w, "persist", "ADOPTED")
    BY <1>5, <1>9 DEF Answered, LookupCompletes
  <2>2. {"ESCALATED", "REQUEUED", "REQUERY_REQUIRED", "DEAD_LETTER", "CREATED", "ADOPTED"}
            \subseteq Dispositions
    BY DEF Dispositions
  <2>3. request[c.job] = "accepted" => link[c.job]
    BY <1>4 DEF EInv, RequestsAreSent
  <2>4. QED
    BY <1>1, <1>2, <1>3, <2>1, <2>2, <2>3, ToResult
<1>10. CASE Ambiguous(w, c)
  <2>1. Goto(w, "lookup", "ALLOWED")
    BY <1>10 DEF Ambiguous
  <2>2. QED
    BY <1>1, <1>2, <1>3, <2>1, ToResult
<1>11. CASE HandlerRaises(w, c)
  <2>1. Goto(w, "settle", "RECONCILE_ONLY")
    BY <1>11 DEF HandlerRaises
  <2>2. QED
    BY <1>1, <1>2, <1>3, <2>1, ToResult
<1>12. QED
  BY <1>6, <1>7, <1>8, <1>9, <1>10, <1>11

\* The POST: the one who sends it is the only one authorized.
LEMMA SendStep ==
    ASSUME EInv, IInv', NEW w \in Workers, NEW c \in batch[w], SendCreate(w, c)
    PROVE  EInv' /\ sent[c.job] = 0
<1>1. /\ At(w, c, "authorized") /\ IsCurrent(w, c) /\ h[w].at = "authorized"
      /\ request' = [request EXCEPT ![c.job] = "open"]
      /\ sent' = [sent EXCEPT ![c.job] = sent[c.job] + 1]
      /\ outcome' = [outcome EXCEPT ![c.job] = "unknown"]
      /\ Goto(w, "sent", "ALLOWED")
      /\ UNCHANGED vars /\ job' = job /\ db' = db /\ enabled' = enabled /\ paid' = paid
      /\ link' = link
  BY DEF SendCreate, At, vars
<1>2. c.job \in Jobs
  BY CurrentIsOne
<1>3. "sent" \in Stages /\ "ALLOWED" \in HandlerResults
  BY DEF Stages, HandlerResults
<1>4. PICK rec \in Handler :
          h' = [h EXCEPT ![w] = rec] /\ rec.at = "sent" /\ rec.result = "ALLOWED"
  BY <1>1, <1>3, GotoFacts
<1>5. /\ h' \in [Workers -> Handler]
      /\ \A u \in Workers : h'[u] = IF u = w THEN rec ELSE h[u]
      /\ \A u \in Workers : batch'[u] = batch[u]
      /\ \A u \in Workers : \A d \in batch[u] :
            /\ IsCurrent(u, d)' <=> IsCurrent(u, d)
            /\ Live(d)' <=> Live(d)
      /\ \A d \in batch[w] : IsCurrent(w, d) => d = c
      /\ OneClaimPerJob' /\ ModeCopied' /\ IdleBetween'
  BY <1>1, <1>4, HandlerMoves
<1>6. db[c.job].evidence = 1 /\ sent[c.job] = 0
  BY <1>1 DEF EInv, EvidenceFirst
<1>7. /\ request' \in [Jobs -> {"none", "open", "accepted", "rejected", "duplicate"}]
      /\ outcome' \in [Jobs -> {"unsent", "unknown", "known"}]
      /\ \A j \in Jobs : j # c.job => request'[j] = request[j] /\ outcome'[j] = outcome[j]
      /\ request'[c.job] = "open" /\ outcome'[c.job] = "unknown"
  BY <1>1, <1>2 DEF EInv, CreateTypeOK
<1>8. /\ sent' \in [Jobs -> Nat] /\ sent'[c.job] = 1
      /\ \A j \in Jobs : j # c.job => sent'[j] = sent[j]
      /\ \A j \in Jobs : sent[j] \in Nat
  BY <1>1, <1>2, <1>6 DEF EInv, CreateTypeOK
<1>9. CreateTypeOK'
  BY <1>1, <1>5, <1>7, <1>8 DEF EInv, CreateTypeOK
<1>10. RowsAgree'
  BY <1>1 DEF EInv, RowsAgree
<1>11. RecordedLinkIsReal'
  BY <1>1, <1>8 DEF EInv, RecordedLinkIsReal
<1>12. ResultStands'
  BY <1>1, <1>4, <1>5 DEF EInv, ResultStands, At
<1>13. RequestsAreSent'
  BY <1>1, <1>2, <1>7, <1>8 DEF EInv, RequestsAreSent
<1>14. EvidenceFirst'
  <2>1. \A j \in Jobs : db[j].evidence = 0 => sent'[j] = 0
    BY <1>6, <1>8 DEF EInv, EvidenceFirst
  <2>2. ASSUME NEW u \in Workers, NEW d \in batch[u], IsCurrent(u, d), h'[u].at = "authorized"
        PROVE  db[d.job].evidence = 1 /\ sent'[d.job] = 0
    <3>1. u # w /\ At(u, d, "authorized")
      BY <1>4, <1>5, <2>2 DEF At
    <3>2. d.job # c.job
      BY <1>1, <3>1 DEF EInv, EvidenceFirst
    <3>3. d.job \in Jobs
      BY CurrentIsOne
    <3>4. QED
      BY <1>8, <3>1, <3>2, <3>3 DEF EInv, EvidenceFirst
  <2>3. \A u \in Workers : h'[u].at = "authorized" => u # w /\ h'[u] = h[u]
    BY <1>4, <1>5
  <2>4. QED
    BY <1>1, <1>5, <2>1, <2>2, <2>3 DEF EInv, EvidenceFirst, At
<1>15. ExecutingIsTaken'
  BY <1>1, <1>4, <1>5 DEF EInv, ExecutingIsTaken, Past, At
<1>16. QED
  BY <1>5, <1>6, <1>9, <1>10, <1>11, <1>12, <1>13, <1>14, <1>15 DEF EInv

\* A transaction that writes the rows of one case.
LEMMA RowWritten ==
    ASSUME EInv, NEW j \in Jobs, NEW n, Follows(db[j], n), db' = [db EXCEPT ![j] = n]
    PROVE  /\ db' \in [Jobs -> CaseRow]
           /\ db'[j] = n
           /\ \A k \in Jobs : k # j => db'[k] = db[k]
           /\ \A k \in Jobs : db[k].evidence \in 0..1 /\ db[k].evidence <= db'[k].evidence
           /\ RowsAgree'
<1>1. db \in [Jobs -> CaseRow] /\ n \in CaseRow
  BY DEF EInv, CreateTypeOK, Follows
<1>2. db' \in [Jobs -> CaseRow] /\ db'[j] = n /\ \A k \in Jobs : k # j => db'[k] = db[k]
  BY <1>1
<1>3. \A k \in Jobs : db[k].evidence \in 0..1 /\ db[k].evidence <= db'[k].evidence
  BY <1>1, <1>2 DEF CaseRow, Follows
<1>4. RowsAgree'
  <2>1. \A k \in Jobs : Agree(db[k])
    BY DEF EInv, RowsAgree
  <2>2. Agree(n)
    BY DEF Follows
  <2>3. SUFFICES ASSUME NEW k \in Jobs PROVE Agree(db'[k])
    BY DEF RowsAgree, Agree
  <2>4. QED
    BY <1>2, <2>1, <2>2, <2>3
<1>5. QED
  BY <1>2, <1>3, <1>4

\* An authorization to create is given once: the delivery whose fence holds
\* does not find its case EXECUTING, and in the queue there is no evidence yet.
LEMMA FirstAuthorization ==
    ASSUME EInv, NEW w \in Workers, NEW c \in batch[w], Authorize(w, c),
           c.mode # "RECONCILE_ONLY"
    PROVE  LET n == Committed(AuthorizationImages(db[c.job], c.mode))
           IN  db[c.job].evidence = 0 /\ n.evidence = 1
<1>1. /\ h[w].at = "gated" /\ Fence(w, c) /\ Commits(AuthorizationImages(db[c.job], c.mode))
  BY DEF Authorize, At
<1>2. c.job \in Jobs
  BY CurrentIsOne
<1>3. db[c.job] \in CaseRow /\ Agree(db[c.job])
  BY <1>2 DEF EInv, CreateTypeOK, RowsAgree
<1>4. Live(c)
  BY <1>1 DEF Fence, Live
<1>5. job[c.job].mode # "RECONCILE_ONLY"
  BY <1>4 DEF EInv, ModeCopied
<1>6. db[c.job].case # "EXECUTING"
  BY <1>1, <1>4, <1>5 DEF EInv, ExecutingIsTaken, Past
<1>7. QED
  BY <1>1, <1>3, <1>6, AuthorizedRow

\* authorize_execution: the rows move together, under the claim's fence.
LEMMA AuthorizeStep ==
    ASSUME EInv, IInv', NEW w \in Workers, NEW c \in batch[w], Authorize(w, c)
    PROVE  EInv'
<1> DEFINE r == db[c.job]
           n == Committed(AuthorizationImages(r, c.mode))
           stage == IF c.mode = "RECONCILE_ONLY" THEN "lookup" ELSE "authorized"
<1>1. /\ IsCurrent(w, c) /\ Fence(w, c) /\ Commits(AuthorizationImages(r, c.mode))
      /\ db' = [db EXCEPT ![c.job] = n]
      /\ Goto(w, stage, "ALLOWED")
      /\ UNCHANGED vars /\ job' = job /\ enabled' = enabled /\ paid' = paid
      /\ link' = link /\ request' = request /\ sent' = sent /\ outcome' = outcome
  BY DEF Authorize, At, vars
<1>2. c.job \in Jobs /\ Live(c)
  BY <1>1, CurrentIsOne DEF Fence, Live
<1>3. r \in CaseRow /\ Agree(r)
  BY <1>2 DEF EInv, CreateTypeOK, RowsAgree
<1>4. /\ Follows(r, n) /\ n.linked = r.linked
      /\ c.mode = "RECONCILE_ONLY" => n.case # "EXECUTING" /\ n.evidence = r.evidence
  BY <1>1, <1>3, AuthorizedRow
<1>5. c.mode # "RECONCILE_ONLY" => r.evidence = 0 /\ n.evidence = 1
  BY FirstAuthorization
<1>6. stage \in Stages /\ "ALLOWED" \in HandlerResults
  BY DEF Stages, HandlerResults
<1>7. PICK rec \in Handler :
          h' = [h EXCEPT ![w] = rec] /\ rec.at = stage /\ rec.result = "ALLOWED"
  BY <1>1, <1>6, GotoFacts
<1> HIDE DEF n
<1>8. /\ h' \in [Workers -> Handler]
      /\ \A u \in Workers : h'[u] = IF u = w THEN rec ELSE h[u]
      /\ \A u \in Workers : batch'[u] = batch[u]
      /\ \A u \in Workers : \A d \in batch[u] :
            /\ IsCurrent(u, d)' <=> IsCurrent(u, d)
            /\ Live(d)' <=> Live(d)
      /\ \A d \in batch[w] : IsCurrent(w, d) => d = c
      /\ OneClaimPerJob' /\ ModeCopied' /\ IdleBetween'
  BY <1>1, <1>7, HandlerMoves
<1>9. /\ db' \in [Jobs -> CaseRow] /\ db'[c.job] = n
      /\ \A k \in Jobs : k # c.job => db'[k] = db[k]
      /\ \A k \in Jobs : db[k].evidence \in 0..1 /\ db[k].evidence <= db'[k].evidence
      /\ RowsAgree'
  BY <1>1, <1>2, <1>4, RowWritten
<1>10. CreateTypeOK'
  BY <1>1, <1>8, <1>9 DEF EInv, CreateTypeOK
<1>11. ResultStands' /\ RequestsAreSent'
  BY <1>1, <1>7, <1>8 DEF EInv, ResultStands, RequestsAreSent, At
<1>12. RecordedLinkIsReal'
  <2>1. SUFFICES ASSUME NEW k \in Jobs, db'[k].linked
                 PROVE  link[k] /\ sent[k] > 0 /\ db'[k].evidence > 0
    BY <1>1 DEF RecordedLinkIsReal
  <2>2. db[k].linked
    BY <1>4, <1>9, <2>1
  <2>3. link[k] /\ sent[k] > 0 /\ db[k].evidence > 0
    BY <2>2 DEF EInv, RecordedLinkIsReal
  <2>4. db'[k].evidence \in 0..1
    BY <1>9 DEF CaseRow
  <2>5. QED
    BY <1>9, <2>3, <2>4
<1>13. EvidenceFirst'
  <2>1. \A k \in Jobs : db'[k].evidence \in 0..1
    BY <1>9 DEF CaseRow
  <2>2. \A k \in Jobs : db'[k].evidence = 0 => sent[k] = 0
    BY <1>9, <2>1 DEF EInv, EvidenceFirst
  <2>3. ASSUME NEW u \in Workers, NEW d \in batch[u], u # w, At(u, d, "authorized")
        PROVE  db'[d.job].evidence = 1 /\ sent[d.job] = 0
               /\ (d.job = c.job => c.mode = "RECONCILE_ONLY")
    <3>1. db[d.job].evidence = 1 /\ sent[d.job] = 0 /\ d.job \in Jobs
      BY <2>3, CurrentIsOne DEF EInv, EvidenceFirst
    <3>2. QED
      BY <1>5, <1>9, <2>1, <3>1
  <2>4. c.mode # "RECONCILE_ONLY" => db'[c.job].evidence = 1 /\ sent[c.job] = 0
    BY <1>2, <1>5, <1>9 DEF EInv, EvidenceFirst
  <2>5. \A u \in Workers : \A d \in batch[u] :
           At(u, d, "authorized")' =>
              \/ u = w /\ d = c /\ c.mode # "RECONCILE_ONLY"
              \/ u # w /\ At(u, d, "authorized")
    BY <1>7, <1>8 DEF At
  <2>6. QED
    BY <1>1, <1>8, <2>2, <2>3, <2>4, <2>5 DEF EInv, EvidenceFirst
<1>14. ExecutingIsTaken'
  <2>1. ASSUME NEW k \in Jobs, db'[k].case = "EXECUTING", job[k].mode # "RECONCILE_ONLY"
        PROVE  job[k].status \in Terminal \cup {"IN_PROGRESS"}
    BY <1>2, <1>9, <2>1 DEF EInv, ExecutingIsTaken, Live
  <2>2. ASSUME NEW u \in Workers, NEW d \in batch[u], Live(d), db'[d.job].case = "EXECUTING"
        PROVE  /\ job[d.job].mode # "RECONCILE_ONLY" => Past(u, d)'
               /\ At(u, d, "settle")' => h'[u].result # "RETRY_SAME_EFFECT"
    <3>1. d.job \in Jobs
      BY CurrentIsOne
    <3>2. CASE d.job = c.job
      <4>1. u = w /\ d = c
        BY <1>2, <2>2, <3>2, LiveIsOne
      <4>2. c.mode # "RECONCILE_ONLY"
        BY <1>4, <1>9, <2>2, <3>2
      <4>3. QED
        BY <1>1, <1>7, <1>8, <4>1, <4>2 DEF Past, At
    <3>3. CASE d.job # c.job
      <4>1. /\ job[d.job].mode # "RECONCILE_ONLY" => Past(u, d)
            /\ At(u, d, "settle") => h[u].result # "RETRY_SAME_EFFECT"
        BY <1>9, <2>2, <3>1, <3>3 DEF EInv, ExecutingIsTaken
      <4>2. u = w => ~IsCurrent(u, d)
        BY <1>8, <3>3
      <4>3. QED
        BY <1>8, <4>1, <4>2 DEF Past, At
    <3>4. QED
      BY <3>2, <3>3
  <2>3. QED
    BY <1>1, <1>8, <2>1, <2>2 DEF ExecutingIsTaken
<1>15. QED
  BY <1>8, <1>9, <1>10, <1>11, <1>12, <1>13, <1>14 DEF EInv

\* The result is committed under the fence of the claim that produced it.
LEMMA PersistStep ==
    ASSUME EInv, IInv', NEW w \in Workers, NEW c \in batch[w], Persist(w, c)
    PROVE  EInv'
<1> DEFINE r == db[c.job]
           n == Committed(ResultImages(r, h[w].result))
<1>1. /\ At(w, c, "persist") /\ IsCurrent(w, c) /\ Fence(w, c)
      /\ Commits(ResultImages(r, h[w].result))
      /\ db' = [db EXCEPT ![c.job] = n]
      /\ \/ Goto(w, "settle", HandlerResult(h[w].result))
         \/ Goto(w, "settle", "RECONCILE_ONLY")
      /\ UNCHANGED vars /\ job' = job /\ enabled' = enabled /\ paid' = paid
      /\ link' = link /\ request' = request /\ sent' = sent /\ outcome' = outcome
  BY DEF Persist, At, vars
<1>2. c.job \in Jobs /\ Live(c)
  BY <1>1, CurrentIsOne DEF Fence, Live
<1>3. /\ r \in CaseRow /\ Agree(r) /\ h[w].result \in Dispositions
      /\ h[w].result \in {"CREATED", "ADOPTED"} => link[c.job]
  BY <1>1, <1>2 DEF EInv, CreateTypeOK, RowsAgree, ResultStands
<1>4. /\ Follows(r, n) /\ n.case # "EXECUTING"
      /\ n.linked => r.linked \/ h[w].result \in {"CREATED", "ADOPTED"}
  BY <1>1, <1>3, ResultRow
<1>5. HandlerResult(h[w].result) \in HandlerResults /\ "RECONCILE_ONLY" \in HandlerResults
      /\ "settle" \in Stages
  BY DEF HandlerResult, HandlerResults, Dispositions, Stages
<1>6. PICK rec \in Handler : h' = [h EXCEPT ![w] = rec] /\ rec.at = "settle"
  BY <1>1, <1>5, GotoFacts
<1> HIDE DEF n
<1>7. /\ h' \in [Workers -> Handler]
      /\ \A u \in Workers : h'[u] = IF u = w THEN rec ELSE h[u]
      /\ \A u \in Workers : batch'[u] = batch[u]
      /\ \A u \in Workers : \A d \in batch[u] :
            /\ IsCurrent(u, d)' <=> IsCurrent(u, d)
            /\ Live(d)' <=> Live(d)
      /\ \A d \in batch[w] : IsCurrent(w, d) => d = c
      /\ OneClaimPerJob' /\ ModeCopied' /\ IdleBetween'
  BY <1>1, <1>6, HandlerMoves
<1>8. /\ db' \in [Jobs -> CaseRow] /\ db'[c.job] = n
      /\ \A k \in Jobs : k # c.job => db'[k] = db[k]
      /\ \A k \in Jobs : db[k].evidence \in 0..1 /\ db[k].evidence <= db'[k].evidence
      /\ RowsAgree'
  BY <1>1, <1>2, <1>4, RowWritten
<1>9. \A k \in Jobs : db'[k].evidence \in 0..1
  BY <1>8 DEF CaseRow
<1>10. CreateTypeOK'
  BY <1>1, <1>7, <1>8 DEF EInv, CreateTypeOK
<1>11. ResultStands' /\ RequestsAreSent'
  BY <1>1, <1>6, <1>7 DEF EInv, ResultStands, RequestsAreSent, At
<1>12. RecordedLinkIsReal'
  <2>1. SUFFICES ASSUME NEW k \in Jobs, db'[k].linked
                 PROVE  link[k] /\ sent[k] > 0 /\ db'[k].evidence > 0
    BY <1>1 DEF RecordedLinkIsReal
  <2>2. link[k]
    BY <1>3, <1>4, <1>8, <2>1 DEF EInv, RecordedLinkIsReal
  <2>3. sent[k] > 0
    BY <2>2 DEF EInv, RequestsAreSent
  <2>4. sent[k] # 0 /\ db[k].evidence # 0
    BY <2>3 DEF EInv, EvidenceFirst
  <2>5. QED
    BY <1>8, <1>9, <2>2, <2>3, <2>4
<1>13. EvidenceFirst'
  <2>1. \A k \in Jobs : db'[k].evidence = 0 => sent[k] = 0
    BY <1>8, <1>9 DEF EInv, EvidenceFirst
  <2>2. ASSUME NEW u \in Workers, NEW d \in batch[u], At(u, d, "authorized")
        PROVE  db'[d.job].evidence = 1 /\ sent[d.job] = 0
    <3>1. db[d.job].evidence = 1 /\ sent[d.job] = 0 /\ d.job \in Jobs
      BY <2>2, CurrentIsOne DEF EInv, EvidenceFirst
    <3>2. QED
      BY <1>8, <1>9, <3>1
  <2>3. \A u \in Workers : \A d \in batch[u] :
           At(u, d, "authorized")' => At(u, d, "authorized")
    BY <1>6, <1>7 DEF At
  <2>4. QED
    BY <1>1, <1>7, <2>1, <2>2, <2>3 DEF EInv, EvidenceFirst
<1>14. ExecutingIsTaken'
  <2>1. ASSUME NEW k \in Jobs, db'[k].case = "EXECUTING" PROVE k # c.job /\ db'[k] = db[k]
    BY <1>4, <1>8, <2>1
  <2>2. ASSUME NEW u \in Workers, NEW d \in batch[u], Live(d), db'[d.job].case = "EXECUTING"
        PROVE  /\ job[d.job].mode # "RECONCILE_ONLY" => Past(u, d)'
               /\ At(u, d, "settle")' => h'[u].result # "RETRY_SAME_EFFECT"
    <3>1. d.job # c.job /\ db[d.job].case = "EXECUTING"
      BY <2>1, <2>2, CurrentIsOne
    <3>2. /\ job[d.job].mode # "RECONCILE_ONLY" => Past(u, d)
          /\ At(u, d, "settle") => h[u].result # "RETRY_SAME_EFFECT"
      BY <2>2, <3>1 DEF EInv, ExecutingIsTaken
    <3>3. u = w => ~IsCurrent(u, d)
      BY <1>7, <3>1
    <3>4. QED
      BY <1>7, <3>2, <3>3 DEF Past, At
  <2>3. QED
    BY <1>1, <1>7, <2>1, <2>2 DEF EInv, ExecutingIsTaken
<1>15. QED
  BY <1>7, <1>8, <1>10, <1>11, <1>12, <1>13, <1>14 DEF EInv

-----------------------------------------------------------------------------
\* The steps of the outbox.

\* Steps of the outbox leave the rows of the cases and the provider alone.
LEMMA EffectFrame ==
    ASSUME EInv, UNCHANGED <<db, enabled, paid, link, request, sent, outcome>>,
           h' \in [Workers -> Handler]
    PROVE  CreateTypeOK' /\ RowsAgree' /\ RecordedLinkIsReal' /\ RequestsAreSent'
<1>1. CreateTypeOK'
  BY DEF EInv, CreateTypeOK
<1>2. RowsAgree' /\ RecordedLinkIsReal' /\ RequestsAreSent'
  BY DEF EInv, RowsAgree, RecordedLinkIsReal, RequestsAreSent
<1>3. QED
  BY <1>1, <1>2

\* What settling does to the row: nothing when the fence is lost, otherwise
\* the delivery was live, and the row is settled or waits in the mode the
\* handler asked for.
LEMMA DeliveredFacts ==
    ASSUME EInv, NEW w \in Workers, NEW c \in batch[w], Delivered(w, c)
    PROVE  /\ batch' = [batch EXCEPT ![w] = batch[w] \ {c}]
           /\ \A k \in Jobs : k # c.job => job'[k] = job[k]
           /\ \/ job' = job
              \/ /\ Live(c)
                 /\ \/ job'[c.job].status \in Terminal
                    \/ job'[c.job].status = "RETRY_SCHEDULED" /\ job'[c.job].mode = h[w].result
<1>1. c.job \in Jobs /\ job \in [Jobs -> Row]
  BY CurrentIsOne DEF EInv, IInv, TypeOK
<1>2. batch' = [batch EXCEPT ![w] = batch[w] \ {c}]
  BY DEF Delivered, Complete, Retry, DeadLetter, FenceLost, Finished
<1>3. ASSUME NEW status, NEW mode, Settled(c, status, mode)
      PROVE  /\ \A k \in Jobs : k # c.job => job'[k] = job[k]
             /\ job'[c.job].status = status /\ job'[c.job].mode = mode
  BY <1>1, <1>3 DEF Settled
<1>4. CASE h[w].result = "SUCCEED" /\ Complete(w, c)
  <2>1. Live(c) /\ Settled(c, "SUCCEEDED", job[c.job].mode)
    BY <1>4 DEF Complete, Fence, Live
  <2>2. QED
    BY <1>2, <1>3, <2>1 DEF Terminal
<1>5. CASE h[w].result \in RetryModes /\ Retry(w, c, h[w].result)
  <2>1. Live(c) /\ Settled(c, "RETRY_SCHEDULED", h[w].result)
    BY <1>5 DEF Retry, Fence, Live
  <2>2. QED
    BY <1>2, <1>3, <2>1
<1>6. CASE DeadLetter(w, c)
  <2>1. Live(c) /\ Settled(c, "DEAD_LETTER", "RECONCILE_ONLY")
    BY <1>6 DEF DeadLetter, Fence, Live
  <2>2. QED
    BY <1>2, <1>3, <2>1 DEF Terminal
<1>7. CASE FenceLost(w, c)
  BY <1>2, <1>7 DEF FenceLost
<1>8. QED
  BY <1>4, <1>5, <1>6, <1>7 DEF Delivered

\* A handler is put away with its command, or with its whole batch.
LEMMA PutAway ==
    ASSUME EInv, IInv', NEW w \in Workers, h' = [h EXCEPT ![w] = Idle],
           UNCHANGED <<db, enabled, paid, link, request, sent, outcome>>,
           batch'[w] \subseteq batch[w],
           \A u \in Workers : u # w => batch'[u] = batch[u],
           \A d \in batch'[w] : ~IsCurrent(w, d),
           \A k \in Jobs : job'[k] # job[k] =>
                /\ job'[k].status # "IN_PROGRESS"
                /\ \/ job'[k].status \in Terminal
                   \/ db[k].case = "EXECUTING" => job'[k].mode = "RECONCILE_ONLY"
    PROVE  EInv'
<1>1. Idle \in Handler /\ Idle.at = "idle"
  BY DEF Idle, Handler, Stages
<1>2. /\ h' \in [Workers -> Handler]
      /\ \A u \in Workers : h'[u] = IF u = w THEN Idle ELSE h[u]
  BY <1>1 DEF EInv, CreateTypeOK
<1>3. CreateTypeOK' /\ RowsAgree' /\ RecordedLinkIsReal' /\ RequestsAreSent'
  BY <1>2, EffectFrame
<1>4. \A u \in Workers : \A d \in batch'[u] : d \in batch[u] /\ d.job \in Jobs
  BY CurrentIsOne
<1>5. \A u \in Workers : \A d \in batch'[u] :
         Live(d)' => Live(d) /\ job'[d.job] = job[d.job]
  BY <1>4 DEF Live
<1>6. \A u \in Workers : \A d : u # w => (IsCurrent(u, d)' <=> IsCurrent(u, d))
  BY DEF IsCurrent
<1>7. OneClaimPerJob' /\ ModeCopied'
  BY <1>4, <1>5 DEF EInv, OneClaimPerJob, ModeCopied
<1>8. IdleBetween'
  BY <1>1, <1>2 DEF EInv, IdleBetween
<1>9. \A u \in Workers : \A d \in batch'[u] : \A s \in Stages \ {"idle"} :
         At(u, d, s)' => u # w /\ At(u, d, s)
  BY <1>1, <1>2, <1>6 DEF At
<1>10. ResultStands'
  <2>1. "persist" \in Stages \ {"idle"}
    BY DEF Stages
  <2>2. QED
    BY <1>2, <1>4, <1>9, <2>1 DEF EInv, ResultStands
<1>11. EvidenceFirst'
  <2>1. "authorized" \in Stages \ {"idle"}
    BY DEF Stages
  <2>2. QED
    BY <1>4, <1>9, <2>1 DEF EInv, EvidenceFirst
<1>12. ExecutingIsTaken'
  <2>1. ASSUME NEW k \in Jobs, db[k].case = "EXECUTING", job'[k].mode # "RECONCILE_ONLY"
        PROVE  job'[k].status \in Terminal \cup {"IN_PROGRESS"}
    BY <2>1 DEF EInv, ExecutingIsTaken
  <2>2. ASSUME NEW u \in Workers, NEW d \in batch'[u], Live(d)', db[d.job].case = "EXECUTING"
        PROVE  /\ job'[d.job].mode # "RECONCILE_ONLY" => Past(u, d)'
               /\ At(u, d, "settle")' => h'[u].result # "RETRY_SAME_EFFECT"
    <3>1. d \in batch[u] /\ Live(d) /\ job'[d.job] = job[d.job]
      BY <1>4, <1>5, <2>2
    <3>2. /\ job[d.job].mode # "RECONCILE_ONLY" => Past(u, d)
          /\ At(u, d, "settle") => h[u].result # "RETRY_SAME_EFFECT"
      BY <2>2, <3>1 DEF EInv, ExecutingIsTaken
    <3>3. CASE u = w
      BY <1>1, <1>2, <2>2, <3>1, <3>2, <3>3 DEF Past, At
    <3>4. CASE u # w
      BY <1>2, <1>6, <3>1, <3>2, <3>4 DEF Past, At
    <3>5. QED
      BY <3>3, <3>4
  <2>3. QED
    BY <2>1, <2>2 DEF ExecutingIsTaken
<1>13. QED
  BY <1>3, <1>7, <1>8, <1>10, <1>11, <1>12 DEF EInv

\* complete, retry or dead_letter after the result was committed.
LEMMA SettleStep ==
    ASSUME EInv, IInv', NEW w \in Workers, NEW c \in batch[w], SettleResult(w, c)
    PROVE  EInv'
<1>1. /\ At(w, c, "settle") /\ Delivered(w, c) /\ h' = [h EXCEPT ![w] = Idle]
      /\ UNCHANGED <<db, enabled, paid, link, request, sent, outcome>>
  BY DEF SettleResult
<1>2. /\ batch' = [batch EXCEPT ![w] = batch[w] \ {c}]
      /\ \A k \in Jobs : k # c.job => job'[k] = job[k]
      /\ \/ job' = job
         \/ /\ Live(c)
            /\ \/ job'[c.job].status \in Terminal
               \/ job'[c.job].status = "RETRY_SCHEDULED" /\ job'[c.job].mode = h[w].result
  BY <1>1, DeliveredFacts
<1>3. batch'[w] = batch[w] \ {c} /\ \A u \in Workers : u # w => batch'[u] = batch[u]
  BY <1>2 DEF EInv, IInv, TypeOK
<1>4. \A d \in batch'[w] : ~IsCurrent(w, d)
  <2>1. IsCurrent(w, c)
    BY <1>1 DEF At
  <2>2. QED
    BY <1>3, <2>1, CurrentIsOne
<1>5. Live(c) /\ db[c.job].case = "EXECUTING" /\ job'[c.job].status = "RETRY_SCHEDULED"
         /\ job'[c.job].mode = h[w].result
      => job'[c.job].mode = "RECONCILE_ONLY"
  <2>1. SUFFICES ASSUME Live(c), db[c.job].case = "EXECUTING",
                        job'[c.job].status = "RETRY_SCHEDULED", job'[c.job].mode = h[w].result
                 PROVE  h[w].result = "RECONCILE_ONLY"
    OBVIOUS
  <2>2. h[w].result # "RETRY_SAME_EFFECT"
    BY <1>1, <2>1 DEF EInv, ExecutingIsTaken
  <2>3. job'[c.job].mode \in Modes
    BY CurrentIsOne DEF IInv, TypeOK, Row
  <2>4. h[w].result # "NORMAL"
    BY DEF EInv, CreateTypeOK, Handler, Dispositions
  <2>5. QED
    BY <2>1, <2>2, <2>3, <2>4 DEF Modes
<1>6. \A k \in Jobs : job'[k] # job[k] =>
        /\ job'[k].status # "IN_PROGRESS"
        /\ \/ job'[k].status \in Terminal
           \/ db[k].case = "EXECUTING" => job'[k].mode = "RECONCILE_ONLY"
  BY <1>2, <1>5 DEF Terminal
<1>7. QED
  BY <1>1, <1>3, <1>4, <1>6, PutAway

\* A dead worker forgets its batch; what it had committed stands.
LEMMA CrashStep ==
    ASSUME EInv, IInv', NEW w \in Workers, Crash(w)
    PROVE  EInv'
<1>1. /\ h' = [h EXCEPT ![w] = Idle] /\ batch' = [batch EXCEPT ![w] = {}] /\ job' = job
      /\ UNCHANGED <<db, enabled, paid, link, request, sent, outcome>>
  BY DEF Crash, AbandonBatch
<1>2. batch'[w] = {} /\ \A u \in Workers : u # w => batch'[u] = batch[u]
  BY <1>1 DEF EInv, IInv, TypeOK
<1>3. QED
  BY <1>1, <1>2, PutAway

\* A new job starts with rows nobody has touched.
LEMMA EnqueueStep ==
    ASSUME EInv, IInv', NEW j \in Jobs, Enqueue(j), UNCHANGED effectVars
    PROVE  EInv'
<1>1. /\ job[j].status = "ABSENT" /\ job' = [job EXCEPT ![j] = NewRow("PENDING")]
      /\ batch' = batch /\ db' = db /\ h' = h
      /\ UNCHANGED <<db, enabled, paid, link, request, sent, outcome>>
  BY DEF Enqueue, effectVars
<1>2. /\ job'[j].status = "PENDING" /\ \A k \in Jobs : k # j => job'[k] = job[k]
      /\ job[j].mode = "NORMAL"
  BY <1>1 DEF EInv, IInv, TypeOK, AbsentIsNew, NewRow
<1>3. h' \in [Workers -> Handler]
  BY <1>1 DEF EInv, CreateTypeOK
<1>4. CreateTypeOK' /\ RowsAgree' /\ RecordedLinkIsReal' /\ RequestsAreSent'
  BY <1>1, <1>3, EffectFrame
<1>5. db[j].case # "EXECUTING"
  BY <1>1, <1>2 DEF EInv, ExecutingIsTaken, Terminal
<1>6. \A u \in Workers : \A d \in batch[u] : d.job \in Jobs
  BY CurrentIsOne
<1>7. \A u \in Workers : \A d \in batch[u] : Live(d)' => d.job # j /\ Live(d)
  BY <1>2, <1>6 DEF Live
<1>8. \A u \in Workers : \A d : \A s : (At(u, d, s)' <=> At(u, d, s)) /\ (Past(u, d)' <=> Past(u, d))
  BY <1>1 DEF At, Past, IsCurrent
<1>9. OneClaimPerJob' /\ ModeCopied' /\ IdleBetween'
  BY <1>1, <1>2, <1>6, <1>7 DEF EInv, OneClaimPerJob, ModeCopied, IdleBetween
<1>10. ResultStands' /\ EvidenceFirst'
  BY <1>1, <1>8 DEF EInv, ResultStands, EvidenceFirst
<1>11. ExecutingIsTaken'
  BY <1>1, <1>2, <1>5, <1>6, <1>7, <1>8 DEF EInv, ExecutingIsTaken
<1>12. QED
  BY <1>4, <1>9, <1>10, <1>11 DEF EInv

\* A claim of a case that is EXECUTING may only reconcile.
LEMMA ClaimedMode ==
    ASSUME EInv, NEW j \in Jobs, NEW w \in Workers, Claimable(j), db[j].case = "EXECUTING"
    PROVE  ClaimedRow(j, w).mode = "RECONCILE_ONLY"
<1>1. CASE Exhausted(j)
  BY <1>1 DEF ClaimedRow
<1>2. CASE ~Exhausted(j) /\ job[j].status = "IN_PROGRESS"
  BY <1>2 DEF ClaimedRow
<1>3. CASE ~Exhausted(j) /\ job[j].status # "IN_PROGRESS"
  <2>1. job[j].status \notin Terminal \cup {"IN_PROGRESS"}
    BY <1>3 DEF Claimable, Terminal
  <2>2. job[j].mode = "RECONCILE_ONLY"
    BY <2>1 DEF EInv, ExecutingIsTaken
  <2>3. QED
    BY <1>3, <2>2 DEF ClaimedRow
<1>4. QED
  BY <1>1, <1>2, <1>3

\* A poll hands out claims and leaves the effect's rows alone.
LEMMA ClaimStep ==
    ASSUME EInv, IInv', NEW w \in Workers, NEW S \in SUBSET Jobs, ClaimBatch(w, S),
           UNCHANGED effectVars
    PROVE  EInv'
<1>1. /\ batch[w] = {} /\ \A j \in S : Claimable(j)
      /\ job' = [j \in Jobs |-> IF j \in S THEN ClaimedRow(j, w) ELSE job[j]]
      /\ batch' = [batch EXCEPT ![w] = {ClaimOf(j, w) : j \in {i \in S : ~Exhausted(i)}}]
      /\ db' = db /\ h' = h
      /\ UNCHANGED <<db, enabled, paid, link, request, sent, outcome>>
  BY DEF ClaimBatch, effectVars
<1>2. h[w].at = "idle" /\ h' \in [Workers -> Handler]
  BY <1>1 DEF EInv, IdleBetween, CreateTypeOK
<1>3. CreateTypeOK' /\ RowsAgree' /\ RecordedLinkIsReal' /\ RequestsAreSent'
  BY <1>1, <1>2, EffectFrame
<1>4. /\ \A u \in Workers : u # w => batch'[u] = batch[u]
      /\ batch'[w] = {ClaimOf(j, w) : j \in {i \in S : ~Exhausted(i)}}
      /\ \A j \in S : job'[j] = ClaimedRow(j, w)
      /\ \A j \in Jobs \ S : job'[j] = job[j]
  BY <1>1 DEF EInv, IInv, TypeOK
<1>5. \A d \in batch'[w] : \E j \in S :
         d.job = j /\ d.version = ClaimedRow(j, w).version /\ d.mode = ClaimedRow(j, w).mode
         /\ d = ClaimOf(j, w)
  BY <1>4 DEF ClaimOf
<1>6. \A j \in S : job'[j].version = job[j].version + 1 /\ job[j].version \in Nat
  <2>1. TypeOK
    BY DEF EInv, IInv
  <2>2. \A j \in Jobs : job[j].version \in Nat
    BY <2>1 DEF TypeOK, Row
  <2>3. QED
    BY <1>1, <1>4, <2>1, <2>2, ClaimedRowFacts
<1>7. \A u \in Workers : \A d \in batch[u] :
         d.job \in Jobs /\ d.version \in Nat /\ d.version <= job[d.job].version
  BY DEF EInv, IInv, TypeOK, Claim, ClaimsBehind
<1>8. \A u \in Workers \ {w} : \A d \in batch[u] :
         Live(d)' => d.job \notin S /\ job'[d.job] = job[d.job] /\ Live(d)
  <2>1. SUFFICES ASSUME NEW u \in Workers \ {w}, NEW d \in batch[u], Live(d)'
                 PROVE  d.job \notin S
    BY <1>4, <1>7 DEF Live
  <2>2. d.version = job'[d.job].version
    BY <2>1 DEF Live
  <2>3. QED
    BY <1>6, <1>7, <2>2
<1>9. \A u \in Workers \ {w} : \A d : \A s :
         (At(u, d, s)' <=> At(u, d, s)) /\ (Past(u, d)' <=> Past(u, d))
  BY <1>1, <1>4 DEF At, Past, IsCurrent
<1>10. OneClaimPerJob'
  BY <1>4, <1>5 DEF EInv, OneClaimPerJob
<1>11. ModeCopied'
  <2>1. SUFFICES ASSUME NEW u \in Workers, NEW d \in batch'[u], Live(d)'
                 PROVE  d.mode = job'[d.job].mode
    BY DEF ModeCopied
  <2>2. CASE u = w
    BY <1>4, <1>5, <2>2
  <2>3. CASE u # w
    <3>1. d \in batch[u] /\ Live(d) /\ job'[d.job] = job[d.job]
      BY <1>4, <1>8, <2>1, <2>3
    <3>2. QED
      BY <3>1 DEF EInv, ModeCopied
  <2>4. QED
    BY <2>2, <2>3
<1>12. IdleBetween'
  BY <1>1, <1>2, <1>4 DEF EInv, IdleBetween
<1>13. ResultStands'
  <2>1. SUFFICES ASSUME NEW u \in Workers, NEW d \in batch'[u], At(u, d, "persist")'
                 PROVE  /\ h[u].result \in Dispositions
                        /\ h[u].result \in {"CREATED", "ADOPTED"} => link[d.job]
    BY <1>1 DEF ResultStands
  <2>2. u # w
    BY <1>1, <1>2, <2>1 DEF At
  <2>3. QED
    BY <1>4, <1>9, <2>1, <2>2 DEF EInv, ResultStands
<1>14. EvidenceFirst'
  <2>1. \A u \in Workers : \A d \in batch'[u] : At(u, d, "authorized")' =>
           d \in batch[u] /\ At(u, d, "authorized")
    <3>1. SUFFICES ASSUME NEW u \in Workers, NEW d \in batch'[u], At(u, d, "authorized")'
                   PROVE  d \in batch[u] /\ At(u, d, "authorized")
      OBVIOUS
    <3>2. u # w
      BY <1>1, <1>2, <3>1 DEF At
    <3>3. QED
      BY <1>4, <1>9, <3>1, <3>2
  <2>2. QED
    BY <1>1, <2>1 DEF EInv, EvidenceFirst
<1>15. ExecutingIsTaken'
  <2>1. ASSUME NEW k \in Jobs, db[k].case = "EXECUTING", job'[k].mode # "RECONCILE_ONLY"
        PROVE  k \notin S /\ job'[k].status \in Terminal \cup {"IN_PROGRESS"}
    <3>1. k \notin S
      BY <1>1, <1>4, <2>1, ClaimedMode
    <3>2. QED
      BY <1>4, <2>1, <3>1 DEF EInv, ExecutingIsTaken
  <2>2. ASSUME NEW u \in Workers, NEW d \in batch'[u], Live(d)', db[d.job].case = "EXECUTING"
        PROVE  /\ job'[d.job].mode # "RECONCILE_ONLY" => Past(u, d)'
               /\ At(u, d, "settle")' => h'[u].result # "RETRY_SAME_EFFECT"
    <3>1. CASE u = w
      <4>1. d.job \in S
        BY <1>5, <3>1
      <4>2. job'[d.job].mode = "RECONCILE_ONLY"
        BY <2>1, <2>2, <4>1
      <4>3. ~At(u, d, "settle")'
        BY <1>1, <1>2, <3>1 DEF At
      <4>4. QED
        BY <4>2, <4>3
    <3>2. CASE u # w
      <4>1. d \in batch[u] /\ Live(d) /\ job'[d.job] = job[d.job]
        BY <1>4, <1>8, <2>2, <3>2
      <4>2. QED
        BY <1>1, <1>9, <2>2, <3>2, <4>1 DEF EInv, ExecutingIsTaken
    <3>3. QED
      BY <3>1, <3>2
  <2>3. QED
    BY <1>1, <2>1, <2>2 DEF ExecutingIsTaken
<1>16. QED
  BY <1>3, <1>10, <1>11, <1>12, <1>13, <1>14, <1>15 DEF EInv

-----------------------------------------------------------------------------
\* The provider, the customer, the projector, the operator and the clock.

\* Steps that leave workers and outbox rows alone.
LEMMA WorldFrame ==
    ASSUME EInv, job' = job, batch' = batch, h' = h
    PROVE  /\ OneClaimPerJob' /\ ModeCopied' /\ IdleBetween'
           /\ \A u \in Workers : \A d : \A s :
                /\ At(u, d, s)' <=> At(u, d, s)
                /\ Past(u, d)' <=> Past(u, d)
                /\ Live(d)' <=> Live(d)
<1>1. OneClaimPerJob' /\ ModeCopied' /\ IdleBetween'
  BY DEF EInv, OneClaimPerJob, ModeCopied, IdleBetween, Live
<1>2. QED
  BY <1>1 DEF At, Past, IsCurrent, Live

\* The provider answers an open request, whether or not anybody still waits.
LEMMA ProviderStep ==
    ASSUME EInv, IInv', NEW j \in Jobs, ProviderAnswers(j)
    PROVE  EInv'
<1>1. /\ request[j] = "open"
      /\ \/ /\ request' = [request EXCEPT ![j] = IF link[j] THEN "duplicate" ELSE "accepted"]
            /\ link' = [link EXCEPT ![j] = TRUE]
         \/ request' = [request EXCEPT ![j] = "rejected"] /\ link' = link
      /\ job' = job /\ batch' = batch /\ h' = h /\ db' = db /\ enabled' = enabled
      /\ paid' = paid /\ sent' = sent /\ outcome' = outcome
  BY DEF ProviderAnswers, vars
<1>2. sent[j] > 0
  BY <1>1 DEF EInv, RequestsAreSent
<1>3. /\ link' \in [Jobs -> BOOLEAN]
      /\ \A k \in Jobs : link[k] => link'[k]
      /\ \A k \in Jobs : k # j => link'[k] = link[k]
  BY <1>1 DEF EInv, CreateTypeOK
<1>4. /\ request' \in [Jobs -> {"none", "open", "accepted", "rejected", "duplicate"}]
      /\ \A k \in Jobs : k # j => request'[k] = request[k]
      /\ request'[j] = "accepted" => link'[j]
  BY <1>1 DEF EInv, CreateTypeOK
<1>5. CreateTypeOK'
  BY <1>1, <1>3, <1>4 DEF EInv, CreateTypeOK
<1>6. RowsAgree' /\ RecordedLinkIsReal'
  BY <1>1, <1>3 DEF EInv, RowsAgree, RecordedLinkIsReal
<1>7. RequestsAreSent'
  BY <1>1, <1>2, <1>3, <1>4 DEF EInv, RequestsAreSent
<1>8. \A u \in Workers : \A d \in batch[u] : d.job \in Jobs
  BY CurrentIsOne
<1>9. ResultStands' /\ EvidenceFirst' /\ ExecutingIsTaken'
  BY <1>1, <1>3, <1>8, WorldFrame DEF EInv, ResultStands, EvidenceFirst, ExecutingIsTaken
<1>10. QED
  BY <1>1, <1>5, <1>6, <1>7, <1>9, WorldFrame DEF EInv

\* A capture moves truth and case, never the action or its instrument.
LEMMA ProjectStep ==
    ASSUME EInv, IInv', NEW j \in Jobs, ProjectCapture(j)
    PROVE  EInv' /\ Follows(db[j], db'[j])
           /\ db'[j].action = db[j].action /\ db'[j].instrument = db[j].instrument
           /\ db'[j].linked = db[j].linked
<1> DEFINE p == [db[j] EXCEPT !.truth = "PAID"]
           n == IF p.case \in Workflow
                THEN Moved(p, "SUPPRESSED_PAID", p.action, p.instrument) ELSE p
<1>1. /\ db' = [db EXCEPT ![j] = n]
      /\ job' = job /\ batch' = batch /\ h' = h /\ enabled' = enabled
      /\ paid' = paid /\ sent' = sent /\ outcome' = outcome /\ link' = link /\ request' = request
  BY DEF ProjectCapture, vars
<1>2. db[j] \in CaseRow /\ Agree(db[j])
  BY DEF EInv, CreateTypeOK, RowsAgree
<1>3. /\ Follows(db[j], n) /\ n.case # "EXECUTING"
      /\ n.action = db[j].action /\ n.instrument = db[j].instrument /\ n.linked = db[j].linked
  BY <1>2, CapturedRow
<1> HIDE DEF n
<1>4. /\ db' \in [Jobs -> CaseRow] /\ db'[j] = n
      /\ \A k \in Jobs : k # j => db'[k] = db[k]
      /\ \A k \in Jobs : db[k].evidence \in 0..1 /\ db[k].evidence <= db'[k].evidence
      /\ RowsAgree'
  BY <1>1, <1>3, RowWritten
<1>5. \A k \in Jobs : db'[k].evidence \in 0..1
  BY <1>4 DEF CaseRow
<1>6. CreateTypeOK' /\ RequestsAreSent'
  BY <1>1, <1>4 DEF EInv, CreateTypeOK, RequestsAreSent
<1>7. RecordedLinkIsReal'
  <2>1. SUFFICES ASSUME NEW k \in Jobs, db'[k].linked
                 PROVE  link[k] /\ sent[k] > 0 /\ db'[k].evidence > 0
    BY <1>1 DEF RecordedLinkIsReal
  <2>2. db[k].linked
    BY <1>3, <1>4, <2>1
  <2>3. link[k] /\ sent[k] > 0 /\ db[k].evidence > 0
    BY <2>2 DEF EInv, RecordedLinkIsReal
  <2>4. QED
    BY <1>4, <1>5, <2>3
<1>8. \A u \in Workers : \A d \in batch[u] : d.job \in Jobs
  BY CurrentIsOne
<1>9. \A u \in Workers : \A d : \A s :
        /\ At(u, d, s)' <=> At(u, d, s)
        /\ Past(u, d)' <=> Past(u, d)
        /\ Live(d)' <=> Live(d)
  BY <1>1, WorldFrame
<1>10. ResultStands'
  BY <1>1, <1>9 DEF EInv, ResultStands
<1>11. EvidenceFirst'
  <2>1. \A k \in Jobs : db'[k].evidence = 0 => sent[k] = 0
    BY <1>4, <1>5 DEF EInv, EvidenceFirst
  <2>2. \A k \in Jobs : db[k].evidence = 1 => db'[k].evidence = 1
    BY <1>4, <1>5
  <2>3. QED
    BY <1>1, <1>8, <1>9, <2>1, <2>2 DEF EInv, EvidenceFirst
<1>12. ExecutingIsTaken'
  <2>1. \A k \in Jobs : db'[k].case = "EXECUTING" => db[k].case = "EXECUTING"
    BY <1>3, <1>4
  <2>2. QED
    BY <1>1, <1>8, <1>9, <2>1 DEF EInv, ExecutingIsTaken
<1>13. EInv'
  BY <1>1, <1>4, <1>6, <1>7, <1>10, <1>11, <1>12, WorldFrame DEF EInv
<1>14. QED
  BY <1>3, <1>4, <1>13

\* The remaining steps touch nothing the invariant relates.
LEMMA OtherStep ==
    ASSUME EInv, IInv',
           \/ \E j \in Jobs : CaptureOriginal(j)
           \/ SwitchEffects
           \/ Tick /\ UNCHANGED effectVars
           \/ UNCHANGED allVars
    PROVE  EInv'
<1>1. /\ job' = job /\ batch' = batch /\ h' = h /\ db' = db /\ sent' = sent
      /\ outcome' = outcome /\ link' = link /\ request' = request
  BY DEF CaptureOriginal, SwitchEffects, Tick, allVars, effectVars, vars
<1>2. paid' \in [Jobs -> BOOLEAN]
  BY DEF CaptureOriginal, SwitchEffects, Tick, allVars, effectVars, EInv, CreateTypeOK
<1>3. enabled' \in BOOLEAN
  BY DEF CaptureOriginal, SwitchEffects, Tick, allVars, effectVars, EInv, CreateTypeOK
<1>4. CreateTypeOK'
  BY <1>1, <1>2, <1>3 DEF EInv, CreateTypeOK
<1>5. RowsAgree' /\ RecordedLinkIsReal' /\ RequestsAreSent'
  BY <1>1 DEF EInv, RowsAgree, RecordedLinkIsReal, RequestsAreSent
<1>6. ResultStands' /\ EvidenceFirst' /\ ExecutingIsTaken'
  BY <1>1, WorldFrame DEF EInv, ResultStands, EvidenceFirst, ExecutingIsTaken
<1>7. QED
  BY <1>1, <1>4, <1>5, <1>6, WorldFrame DEF EInv

\* Nothing was asked of the provider before the first job.
LEMMA InitEInv == CreateInit => EInv
<1>1. SUFFICES ASSUME CreateInit PROVE EInv
  OBVIOUS
<1>2. IInv
  BY <1>1, InitIInv DEF CreateInit
<1>3. Idle \in Handler /\ Idle.at = "idle"
  BY DEF Idle, Handler, Stages
<1>4. /\ QueuedCase \in CaseRow /\ QueuedCase.case = "ACTION_QUEUED" /\ QueuedCase.evidence = 0
      /\ QueuedCase.linked = FALSE /\ QueuedCase.action = "QUEUED"
      /\ QueuedCase.instrument = "CREATING"
  BY NextTables DEF QueuedCase, CaseRow, CaseStates
<1>5. Agree(QueuedCase)
  BY <1>4 DEF Agree
<1>6. /\ db \in [Jobs -> CaseRow] /\ h \in [Workers -> Handler]
      /\ \A j \in Jobs : db[j] = QueuedCase
      /\ \A w \in Workers : h[w].at = "idle" /\ batch[w] = {}
  BY <1>1, <1>3, <1>4 DEF CreateInit, Init
<1>7. /\ paid \in [Jobs -> BOOLEAN] /\ link \in [Jobs -> BOOLEAN] /\ enabled \in BOOLEAN
      /\ request \in [Jobs -> {"none", "open", "accepted", "rejected", "duplicate"}]
      /\ sent \in [Jobs -> Nat]
      /\ outcome \in [Jobs -> {"unsent", "unknown", "known"}]
  BY <1>1 DEF CreateInit
<1>8. CreateTypeOK
  BY <1>6, <1>7 DEF CreateTypeOK
<1>9. RowsAgree
  BY <1>5, <1>6 DEF RowsAgree
<1>10. OneClaimPerJob /\ ModeCopied /\ IdleBetween /\ ResultStands
  BY <1>6 DEF OneClaimPerJob, ModeCopied, IdleBetween, ResultStands
<1>11. RequestsAreSent
  BY <1>1 DEF CreateInit, RequestsAreSent
<1>12. EvidenceFirst /\ ExecutingIsTaken /\ RecordedLinkIsReal
  BY <1>1, <1>4, <1>6 DEF CreateInit, EvidenceFirst, ExecutingIsTaken, RecordedLinkIsReal
<1>13. QED
  BY <1>2, <1>8, <1>9, <1>10, <1>11, <1>12 DEF EInv

\* Every step keeps the invariant; the outbox below keeps its own.
LEMMA NextEInv == EInv /\ [CreateNext]_allVars => EInv'
<1>1. SUFFICES ASSUME EInv, [CreateNext]_allVars PROVE EInv'
  OBVIOUS
<1>2. IInv'
  <2>1. IInv
    BY <1>1 DEF EInv
  <2>2. QED
    BY <1>1, <2>1, CreateStepIsOutboxStep, NextKeepsIInv
<1>3. ASSUME NEW j \in Jobs, Enqueue(j) /\ UNCHANGED effectVars PROVE EInv'
  BY <1>1, <1>2, <1>3, EnqueueStep
<1>4. ASSUME NEW w \in Workers, Poll(w) /\ UNCHANGED effectVars PROVE EInv'
  <2>1. PICK S \in SUBSET Jobs : ClaimBatch(w, S)
    BY <1>4 DEF Poll
  <2>2. QED
    BY <1>1, <1>2, <1>4, <2>1, ClaimStep
<1>5. ASSUME NEW w \in Workers, HandlerStep(w) PROVE EInv'
  <2>1. PICK c \in batch[w] :
            \/ ReadContext(w, c) \/ EvaluateGate(w, c) \/ Authorize(w, c)
            \/ NotSent(w, c) \/ SendCreate(w, c) \/ Answered(w, c) \/ Ambiguous(w, c)
            \/ LookupCompletes(w, c) \/ LookupIncomplete(w, c)
            \/ Persist(w, c) \/ HandlerRaises(w, c) \/ SettleResult(w, c)
    BY <1>5 DEF HandlerStep
  <2>2. QED
    BY <1>1, <1>2, <2>1, ReadSteps, AuthorizeStep, SendStep, PersistStep, SettleStep
<1>6. ASSUME NEW w \in Workers, Crash(w) PROVE EInv'
  BY <1>1, <1>2, <1>6, CrashStep
<1>7. ASSUME NEW j \in Jobs, ProviderAnswers(j) \/ CaptureOriginal(j) \/ ProjectCapture(j)
      PROVE  EInv'
  BY <1>1, <1>2, <1>7, ProviderStep, ProjectStep, OtherStep
<1>8. CASE SwitchEffects \/ (Tick /\ UNCHANGED effectVars) \/ UNCHANGED allVars
  BY <1>1, <1>2, <1>8, OtherStep
<1>9. QED
  BY <1>1, <1>3, <1>4, <1>5, <1>6, <1>7, <1>8 DEF CreateNext

\* The inductive invariant holds in every execution.
LEMMA AlwaysEInv == CreateSpec => []EInv
<1>1. QED
  BY InitEInv, NextEInv, PTL DEF CreateSpec

-----------------------------------------------------------------------------
\* Type correctness of rows, provider and handlers; in particular the evidence
\* of the effect gate is written to an action at most once.
THEOREM CreateTypeCorrect == CreateSpec => []CreateTypeOK
<1>1. EInv => CreateTypeOK
  BY DEF EInv
<1>2. QED
  BY <1>1, AlwaysEInv, PTL

\* The handler is a client of the outbox: everything proved of Outbox holds
\* of every execution of the create effect (poll_once and the handler it calls).
THEOREM CreateUsesOutbox == CreateSpec => ImplementsOutbox
<1>1. CreateInit => Init
  BY DEF CreateInit
<1>2. QED
  BY <1>1, CreateStepIsOutboxStep, PTL DEF CreateSpec, ImplementsOutbox, Spec

\* Case, action and instrument agree after every transaction of the handler and
\* of the projector, in whatever order they commit (record_effect_authorization,
\* persist_result and the lifecycle triggers).
THEOREM TablesTellOneStory == CreateSpec => []RowsAgree
<1>1. EInv => RowsAgree
  BY DEF EInv
<1>2. QED
  BY <1>1, AlwaysEInv, PTL

\* A link the database says is collecting exists at the provider, and was asked
\* for on the strength of committed evidence (persist_result).
THEOREM RecordedLinksExist == CreateSpec => []RecordedLinkIsReal
<1>1. EInv => RecordedLinkIsReal
  BY DEF EInv
<1>2. QED
  BY <1>1, AlwaysEInv, PTL

\* At most one create request per case is ever sent, by whichever delivery.
OneCreateRequest == \A j \in Jobs : sent[j] <= 1

\* create_standard_payment_link is called at most once for a case, whatever
\* crashes, lease losses, retries and concurrent deliveries happen: the trigger
\* that keeps evidence from being replaced makes the authorization unique.
THEOREM AtMostOneCreate == CreateSpec => []OneCreateRequest
<1>1. EInv => OneCreateRequest
  BY DEF EInv, RequestsAreSent, OneCreateRequest
<1>2. QED
  BY <1>1, AlwaysEInv, PTL

\* The steps that send, and the steps that write the rows of a case.
LEMMA WritingSteps ==
    ASSUME EInv, [CreateNext]_allVars
    PROVE  /\ \/ sent' = sent
              \/ \E w \in Workers : \E c \in batch[w] : SendCreate(w, c)
           /\ \/ db' = db
              \/ \E j \in Jobs : ProjectCapture(j)
              \/ \E w \in Workers : \E c \in batch[w] : Authorize(w, c) \/ Persist(w, c)
<1>1. ASSUME NEW w \in Workers, NEW c \in batch[w],
             \/ ReadContext(w, c) \/ EvaluateGate(w, c) \/ NotSent(w, c) \/ Answered(w, c)
             \/ Ambiguous(w, c) \/ LookupCompletes(w, c) \/ LookupIncomplete(w, c)
             \/ HandlerRaises(w, c) \/ SettleResult(w, c)
      PROVE  sent' = sent /\ db' = db
  BY <1>1 DEF ReadContext, EvaluateGate, NotSent, Answered, Ambiguous, LookupCompletes,
      LookupIncomplete, HandlerRaises, SettleResult
<1>2. ASSUME NEW w \in Workers, NEW c \in batch[w], Authorize(w, c) \/ Persist(w, c)
      PROVE  sent' = sent
  BY <1>2 DEF Authorize, Persist
<1>3. ASSUME NEW w \in Workers, NEW c \in batch[w], SendCreate(w, c)
      PROVE  db' = db
  BY <1>3 DEF SendCreate
<1>4. ASSUME NEW j \in Jobs, ProjectCapture(j) PROVE sent' = sent
  BY <1>4 DEF ProjectCapture
<1>5. ASSUME NEW j \in Jobs, ProviderAnswers(j) \/ CaptureOriginal(j)
      PROVE  sent' = sent /\ db' = db
  BY <1>5 DEF ProviderAnswers, CaptureOriginal
<1>6. ASSUME \/ \E w \in Workers : Crash(w)
             \/ SwitchEffects \/ UNCHANGED effectVars \/ UNCHANGED allVars
      PROVE  sent' = sent /\ db' = db
  BY <1>6 DEF Crash, SwitchEffects, effectVars, allVars
<1>7. QED
  BY <1>1, <1>2, <1>3, <1>4, <1>5, <1>6 DEF CreateNext, HandlerStep

\* No create request is sent while the outcome of an earlier one is unknown
\* (PaymentLinkExecutor.execute behind record_effect_authorization).
THEOREM NeverBlindlyRepeated == CreateSpec => NoBlindRepeat
<1>1. ASSUME EInv, [CreateNext]_allVars
      PROVE  [\A j \in Jobs : sent'[j] # sent[j] => outcome[j] # "unknown"]_allVars
  <2>1. SUFFICES ASSUME NEW j \in Jobs, sent'[j] # sent[j] PROVE outcome[j] # "unknown"
    OBVIOUS
  <2>2. PICK w \in Workers : \E c \in batch[w] : SendCreate(w, c)
    BY <1>1, <2>1, WritingSteps
  <2>3. PICK c \in batch[w] : SendCreate(w, c)
    BY <2>2
  <2>4. c.job \in Jobs
    BY <1>1, CurrentIsOne
  <2>5. j = c.job
    BY <2>1, <2>3, <2>4 DEF SendCreate, EInv, CreateTypeOK
  <2>6. At(w, c, "authorized")
    BY <2>3 DEF SendCreate
  <2>7. sent[c.job] = 0
    BY <1>1, <2>6 DEF EInv, EvidenceFirst
  <2>8. QED
    BY <1>1, <2>4, <2>5, <2>7 DEF EInv, RequestsAreSent
<1>2. QED
  BY <1>1, AlwaysEInv, PTL DEF CreateSpec, NoBlindRepeat

\* A transaction of the handler belongs to a delivery in progress and takes the
\* rows of its case from one agreed state to another.
LEMMA HandlerWrites ==
    ASSUME EInv, NEW w \in Workers, NEW c \in batch[w], Authorize(w, c) \/ Persist(w, c)
    PROVE  /\ c.job \in Jobs
           /\ job[c.job].status = "IN_PROGRESS"
           /\ \A k \in Jobs : k # c.job => db'[k] = db[k]
           /\ Follows(db[c.job], db'[c.job])
<1>1. c.job \in Jobs
  BY CurrentIsOne
<1>2. db[c.job] \in CaseRow /\ Agree(db[c.job]) /\ db \in [Jobs -> CaseRow]
  BY <1>1 DEF EInv, CreateTypeOK, RowsAgree
<1>3. job[c.job].status = "IN_PROGRESS"
  BY DEF Authorize, Persist, Fence
<1>4. PICK n : db' = [db EXCEPT ![c.job] = n] /\ Follows(db[c.job], n)
  <2>1. CASE Authorize(w, c)
    BY <1>2, <2>1, AuthorizedRow DEF Authorize
  <2>2. CASE Persist(w, c)
    <3>1. h[w].result \in Dispositions
      BY <2>2 DEF Persist, EInv, ResultStands
    <3>2. QED
      BY <1>2, <2>2, <3>1, ResultRow DEF Persist
  <2>3. QED
    BY <2>1, <2>2
<1>5. QED
  BY <1>1, <1>2, <1>3, <1>4

\* A settled job's action and instrument are final: both transactions of the
\* handler are fenced, and the projector only writes the case and the order.
THEOREM SettledEffectIsFinal == CreateSpec => SettledWorkIsFinal
<1>1. ASSUME EInv, [CreateNext]_allVars
      PROVE  [\A j \in Jobs : job[j].status \in Terminal =>
                /\ db'[j].action = db[j].action
                /\ db'[j].instrument = db[j].instrument
                /\ db'[j].linked = db[j].linked]_allVars
  <2>1. SUFFICES ASSUME NEW j \in Jobs, job[j].status \in Terminal
                 PROVE  /\ db'[j].action = db[j].action
                        /\ db'[j].instrument = db[j].instrument
                        /\ db'[j].linked = db[j].linked
    OBVIOUS
  <2>2. ASSUME NEW w \in Workers, NEW c \in batch[w], Authorize(w, c) \/ Persist(w, c)
        PROVE  db'[j] = db[j]
    BY <1>1, <2>1, <2>2, HandlerWrites DEF Terminal
  <2>3. ASSUME NEW k \in Jobs, ProjectCapture(k)
        PROVE  /\ db'[j].action = db[j].action
               /\ db'[j].instrument = db[j].instrument
               /\ db'[j].linked = db[j].linked
    <3>1. IInv'
      BY <1>1, NextEInv DEF EInv
    <3>2. CASE k = j
      BY <1>1, <2>3, <3>1, <3>2, ProjectStep
    <3>3. CASE k # j
      BY <1>1, <2>3, <3>3 DEF ProjectCapture, EInv, CreateTypeOK
    <3>4. QED
      BY <3>2, <3>3
  <2>4. QED
    BY <1>1, <2>2, <2>3, WritingSteps
<1>2. QED
  BY <1>1, AlwaysEInv, PTL DEF CreateSpec, SettledWorkIsFinal

\* A suppressed, failed or escalated case never returns to collecting, however
\* results and captures race (enforce_recovery_case_lifecycle).
THEOREM CollectionEndsForGood == CreateSpec => CollectionTerminalMonotonic
<1>1. ASSUME EInv, [CreateNext]_allVars
      PROVE  [\A j \in Jobs : db[j].case \notin Workflow => db'[j].case \notin Workflow]_allVars
  <2>1. SUFFICES ASSUME NEW j \in Jobs, db[j].case \notin Workflow
                 PROVE  db'[j].case \notin Workflow
    OBVIOUS
  <2>2. ASSUME NEW w \in Workers, NEW c \in batch[w], Authorize(w, c) \/ Persist(w, c)
        PROVE  db'[j].case \notin Workflow
    BY <1>1, <2>1, <2>2, HandlerWrites DEF Follows
  <2>3. ASSUME NEW k \in Jobs, ProjectCapture(k)
        PROVE  db'[j].case \notin Workflow
    <3>1. IInv'
      BY <1>1, NextEInv DEF EInv
    <3>2. CASE k = j
      BY <1>1, <2>1, <2>3, <3>1, <3>2, ProjectStep DEF Follows
    <3>3. CASE k # j
      BY <1>1, <2>1, <2>3, <3>3 DEF ProjectCapture, EInv, CreateTypeOK
    <3>4. QED
      BY <3>2, <3>3
  <2>4. QED
    BY <1>1, <2>1, <2>2, <2>3, WritingSteps
<1>2. QED
  BY <1>1, AlwaysEInv, PTL DEF CreateSpec, CollectionTerminalMonotonic
=============================================================================
