----------------------------- MODULE AuditProofs -----------------------------
(***************************************************************************)
(* Theorems about Audit for every set of writers and verifiers, every page *)
(* size and entry limit.                                                   *)
(***************************************************************************)
EXTENDS Audit, SequenceTheorems, WellFoundedInduction, TLAPS

\* The phases in which a transaction has the advisory lock.
Holding == {"bind"} \cup Bound

HoldersHaveLock == \A t \in Clients : tx[t].phase \in Holding => chainLock = t

\* Whatever happened to a stored row, it still names the entry it was written
\* as, in its place in the history, and the newest entry is still there.
StoredRow(e) ==
    /\ e.sequence \in 1..Len(written)
    /\ e.previous = written[e.sequence].previous
    /\ e.hash = written[e.sequence].hash
    /\ e.at = written[e.sequence].at

RowsOrdered ==
    \A i, j \in 1..Len(rows) : i < j => rows[i].sequence < rows[j].sequence

HeadIsStored ==
    written # <<>> => rows # <<>> /\ rows[Len(rows)].sequence = Len(written)

RowsAreStored ==
    /\ \A i \in 1..Len(rows) : StoredRow(rows[i])
    /\ RowsOrdered
    /\ HeadIsStored
    /\ ~damaged => rows = written

\* The entry a writer is about to commit continues the history.
PendingContinues ==
    \A w \in Writers : In(w, "commit") =>
        /\ tx[w].seen = <<NewEntry(w, tx[w].at, written)>>
        /\ ~Regresses(tx[w].at, written)

\* What a verifier has read is the beginning of the history.
ReadIsPrefix ==
    \A v \in Verifiers :
        /\ tx[v].phase \in {"idle", "chain", "bind"} => tx[v].seen = <<>>
        /\ In(v, "read") =>
              /\ Len(tx[v].seen) <= MaxEntries
              /\ Len(tx[v].seen) <= Len(written)
              /\ tx[v].seen = SubSeq(written, 1, Len(tx[v].seen))

\* The inductive invariant.
IInv ==
    /\ AuditTypeOK
    /\ HoldersHaveLock
    /\ Verifies(written)
    /\ RowsAreStored
    /\ PendingContinues
    /\ ReadIsPrefix
    /\ VerifiedIsWritten

-----------------------------------------------------------------------------
(* Operators on chains.                                                    *)

\* A prefix of a sequence.
LEMMA PrefixFacts ==
    ASSUME NEW S, NEW s \in Seq(S), NEW n \in 0..Len(s)
    PROVE  /\ SubSeq(s, 1, n) \in Seq(S)
           /\ Len(SubSeq(s, 1, n)) = n
           /\ \A i \in 1..n : SubSeq(s, 1, n)[i] = s[i]
BY SubSeqProperties, LenProperties

\* The rows before the i-th are the same in a chain and in its continuation.
LEMMA PrefixOfConcat ==
    ASSUME NEW S, NEW s \in Seq(S), NEW t \in Seq(S), NEW n \in 0..Len(s)
    PROVE  SubSeq(s \o t, 1, n) = SubSeq(s, 1, n)
<1>1. s \o t \in Seq(S) /\ n \in 0..Len(s \o t)
      /\ \A i \in 1..Len(s) : (s \o t)[i] = s[i]
  BY ConcatProperties, LenProperties
<1>2. /\ SubSeq(s \o t, 1, n) \in Seq(S) /\ SubSeq(s, 1, n) \in Seq(S)
      /\ Len(SubSeq(s \o t, 1, n)) = n /\ Len(SubSeq(s, 1, n)) = n
      /\ \A i \in 1..n : SubSeq(s \o t, 1, n)[i] = s[i]
      /\ \A i \in 1..n : SubSeq(s, 1, n)[i] = s[i]
  BY <1>1, PrefixFacts
<1> QED
  BY <1>2, SeqEqual

\* A chain verifies when its beginning does and its new last row does.
LEMMA VerifiesAppend ==
    ASSUME NEW chain \in Seq(Entry), NEW e \in Entry,
           Verifies(chain), RowVerifies(e, chain)
    PROVE  Verifies(chain \o <<e>>)
<1> DEFINE longer == chain \o <<e>>
<1>1. /\ <<e>> \in Seq(Entry) /\ Len(<<e>>) = 1 /\ <<e>>[1] = e
  OBVIOUS
<1>2. /\ longer \in Seq(Entry) /\ Len(longer) = Len(chain) + 1
      /\ \A i \in 1..Len(chain) : longer[i] = chain[i]
      /\ longer[Len(chain) + 1] = e
  BY <1>1, ConcatProperties, LenProperties
<1>3. \A i \in 1..(Len(chain) + 1) : SubSeq(longer, 1, i - 1) = SubSeq(chain, 1, i - 1)
  BY <1>1, PrefixOfConcat, LenProperties
<1>4. SubSeq(chain, 1, Len(chain)) = chain
  BY SubSeqFull
<1>5. ASSUME NEW i \in 1..Len(longer)
      PROVE  RowVerifies(longer[i], SubSeq(longer, 1, i - 1))
  <2>1. CASE i = Len(chain) + 1
    <3>1. SubSeq(longer, 1, i - 1) = chain
      BY <2>1, <1>3, <1>4, LenProperties
    <3> QED
      BY <3>1, <2>1, <1>2
  <2>2. CASE i \in 1..Len(chain)
    BY <2>2, <1>2, <1>3 DEF Verifies
  <2> QED
    BY <1>2, <2>1, <2>2, LenProperties
<1> QED
  BY <1>5 DEF Verifies

\* The number and the digest of a row of a chain that verifies.
LEMMA VerifiedRow ==
    ASSUME NEW chain \in Seq(Entry), Verifies(chain), NEW i \in 1..Len(chain)
    PROVE  /\ chain[i] \in Entry
           /\ chain[i].sequence = i
           /\ chain[i].hash = Append(chain[i].previous,
                                [sequence |-> i, facts |-> chain[i].facts, at |-> chain[i].at])
<1>1. RowVerifies(chain[i], SubSeq(chain, 1, i - 1))
  BY DEF Verifies
<1>2. Len(SubSeq(chain, 1, i - 1)) = i - 1
  BY PrefixFacts, LenProperties
<1>3. chain[i] \in Entry
  BY ElementOfSeq
<1> QED
  BY <1>1, <1>2, <1>3 DEF RowVerifies, Hash

\* The entry append makes is one the chain's verification accepts.
LEMMA NewEntryVerifies ==
    ASSUME NEW chain \in Seq(Entry), Verifies(chain), NEW w \in Writers,
           NEW at \in 0..MaxTime, ~Regresses(at, chain)
    PROVE  /\ NewEntry(w, at, chain) \in Entry
           /\ NewEntry(w, at, chain).sequence = Len(chain) + 1
           /\ RowVerifies(NewEntry(w, at, chain), chain)
<1> DEFINE doc == [sequence |-> NextSequence(chain), facts |-> w, at |-> at]
<1>1. NextSequence(chain) = Len(chain) + 1
  <2>1. CASE chain = <<>>
    BY <2>1 DEF NextSequence
  <2>2. CASE chain # <<>>
    <3>1. Len(chain) \in 1..Len(chain)
      BY <2>2, LenProperties, EmptySeq
    <3>2. Last(chain).sequence = Len(chain)
      BY <3>1, VerifiedRow DEF Last
    <3> QED
      BY <2>2, <3>2 DEF NextSequence
  <2> QED
    BY <2>1, <2>2
<1>2. HeadHash(chain) \in Digest
  <2>1. CASE chain = <<>>
    BY <2>1 DEF HeadHash, GENESIS_HASH, Digest
  <2>2. CASE chain # <<>>
    <3>1. Len(chain) \in 1..Len(chain)
      BY <2>2, LenProperties, EmptySeq
    <3>2. chain[Len(chain)] \in Entry
      BY <3>1, VerifiedRow
    <3> QED
      BY <2>2, <3>2 DEF HeadHash, Last, Entry
  <2> QED
    BY <2>1, <2>2
<1>3. doc \in Document
  BY <1>1, LenProperties DEF Document
<1>4. Hash(doc, HeadHash(chain)) \in Digest
  BY <1>2, <1>3, AppendProperties DEF Hash, Digest
<1>5. /\ NewEntry(w, at, chain).sequence = Len(chain) + 1
      /\ NewEntry(w, at, chain).facts = w
      /\ NewEntry(w, at, chain).at = at
      /\ NewEntry(w, at, chain).previous = HeadHash(chain)
      /\ NewEntry(w, at, chain).hash = Hash(doc, HeadHash(chain))
  BY <1>1 DEF NewEntry
<1>6. NewEntry(w, at, chain) \in Entry
  BY <1>1, <1>2, <1>4, LenProperties DEF NewEntry, Entry
<1>7. chain = <<>> \/ at >= Last(chain).at
  <2>1. CASE chain # <<>>
    <3>1. chain[Len(chain)] \in Entry
      BY <2>1, LenProperties, EmptySeq, ElementOfSeq
    <3> QED
      BY <2>1, <3>1, AuditAssumption DEF Regresses, Last, Entry
  <2> QED
    BY <2>1
<1> QED
  BY <1>1, <1>5, <1>6, <1>7 DEF RowVerifies

-----------------------------------------------------------------------------
(* The stored rows and the history.                                        *)

\* append sees the same head in the table as in the history.
LEMMA SameHead ==
    ASSUME AuditTypeOK, Verifies(written), RowsAreStored
    PROVE  /\ rows = <<>> <=> written = <<>>
           /\ NextSequence(rows) = NextSequence(written)
           /\ HeadHash(rows) = HeadHash(written)
           /\ \A at \in 0..MaxTime : Regresses(at, rows) = Regresses(at, written)
           /\ \A at \in 0..MaxTime, w \in Writers :
                 NewEntry(w, at, rows) = NewEntry(w, at, written)
<1>t. rows \in Seq(Entry) /\ written \in Seq(Entry)
  BY DEF AuditTypeOK
<1>1. rows = <<>> <=> written = <<>>
  <2>1. ASSUME rows # <<>>, written = <<>> PROVE FALSE
    <3>1. 1 \in 1..Len(rows)
      BY <1>t, <2>1, EmptySeq, LenProperties
    <3>2. rows[1].sequence \in 1..Len(written) /\ Len(written) = 0
      BY <3>1, <2>1 DEF RowsAreStored, StoredRow
    <3> QED
      BY <3>2
  <2> QED
    BY <2>1 DEF RowsAreStored, HeadIsStored
<1>2. rows # <<>> => /\ Last(rows).sequence = Last(written).sequence
                     /\ Last(rows).hash = Last(written).hash
                     /\ Last(rows).at = Last(written).at
  <2> SUFFICES ASSUME rows # <<>> PROVE /\ Last(rows).sequence = Last(written).sequence
                                        /\ Last(rows).hash = Last(written).hash
                                        /\ Last(rows).at = Last(written).at
    OBVIOUS
  <2>1. Len(rows) \in 1..Len(rows) /\ Len(written) \in 1..Len(written)
    BY <1>t, <1>1, EmptySeq, LenProperties
  <2>2. rows[Len(rows)].sequence = Len(written) /\ StoredRow(rows[Len(rows)])
    BY <2>1, <1>1 DEF RowsAreStored, HeadIsStored
  <2>3. written[Len(written)].sequence = Len(written)
    BY <1>t, <2>1, VerifiedRow
  <2> QED
    BY <2>2, <2>3 DEF Last, StoredRow
<1>3. /\ NextSequence(rows) = NextSequence(written)
      /\ HeadHash(rows) = HeadHash(written)
      /\ \A at \in 0..MaxTime : Regresses(at, rows) = Regresses(at, written)
  BY <1>1, <1>2 DEF NextSequence, HeadHash, Regresses
<1>4. \A at \in 0..MaxTime, w \in Writers :
         NewEntry(w, at, rows) = NewEntry(w, at, written)
  BY <1>3 DEF NewEntry
<1> QED
  BY <1>1, <1>3, <1>4

\* The rows at or below a number are the first Skipped(k) rows.
LEMMA SkippedFacts ==
    ASSUME AuditTypeOK, RowsOrdered, NEW k \in Nat
    PROVE  /\ Skipped(k) \in 0..Len(rows)
           /\ \A i \in 1..Len(rows) : i <= Skipped(k) <=> rows[i].sequence <= k
<1>t. /\ rows \in Seq(Entry) /\ Len(rows) \in Nat
      /\ \A i \in 1..Len(rows) : rows[i].sequence \in Nat
  <2>1. rows \in Seq(Entry)
    BY DEF AuditTypeOK
  <2>2. \A i \in 1..Len(rows) : rows[i] \in Entry
    BY <2>1, ElementOfSeq
  <2>3. Len(rows) \in Nat
    BY <2>1, LenProperties
  <2> QED
    BY <2>1, <2>2, <2>3 DEF Entry
<1> DEFINE Above == {i \in 1..Len(rows) : rows[i].sequence > k}
<1>1. \E n \in 0..Len(rows) : \A i \in 1..Len(rows) : i <= n <=> rows[i].sequence <= k
  <2>1. CASE Above = {}
    <3>1. \A i \in 1..Len(rows) : i <= Len(rows) <=> rows[i].sequence <= k
      BY <1>t, <2>1
    <3>2. Len(rows) \in 0..Len(rows)
      BY <1>t
    <3> HIDE DEF Above
    <3> WITNESS Len(rows) \in 0..Len(rows)
    <3> QED
      BY <3>1
  <2>2. CASE Above # {}
    <3>1. Above \subseteq Nat
      OBVIOUS
    <3>2. PICK x \in Above : \A y \in Above : ~ (<<y, x>> \in OpToRel(<, Nat))
      <4> HIDE DEF Above
      <4> QED BY <2>2, <3>1, NatLessThanWellFounded, WFMin
    <3>3. \A y \in Above : x <= y
      <4>1. ASSUME NEW a \in Nat, NEW b \in Nat, a < b PROVE <<a, b>> \in OpToRel(<, Nat)
        BY <4>1 DEF OpToRel
      <4>2. \A y \in Above : ~ (y < x)
        BY <3>1, <3>2, <4>1, Zenon
      <4> QED
        BY <3>1, <4>2
    <3>4. x \in 1..Len(rows) /\ rows[x].sequence > k /\ x - 1 \in 0..Len(rows)
      BY <1>t
    <3>5. ASSUME NEW i \in 1..Len(rows) PROVE i <= x - 1 <=> rows[i].sequence <= k
      <4>1. CASE i < x
        <5>1. i \notin Above
          BY <3>3, <3>4, <4>1
        <5> QED
          BY <5>1, <4>1, <3>4, <1>t
      <4>2. CASE i = x
        BY <4>2, <3>4, <1>t
      <4>3. CASE i > x
        BY <4>3, <3>4, <1>t DEF RowsOrdered
      <4> QED
        BY <4>1, <4>2, <4>3, <3>4
    <3> QED
      BY <3>4, <3>5
  <2> QED
    BY <2>1, <2>2
<1> QED
  BY <1>1 DEF Skipped

\* A page is the next stretch of the table; a short one reaches its end.
LEMMA PageFacts ==
    ASSUME AuditTypeOK, RowsOrdered, NEW k \in Nat, NEW limit \in Nat
    PROVE  /\ Page(k, limit) \in Seq(Entry)
           /\ Len(Page(k, limit)) <= limit
           /\ Skipped(k) + Len(Page(k, limit)) <= Len(rows)
           /\ \A i \in 1..Len(Page(k, limit)) : Page(k, limit)[i] = rows[Skipped(k) + i]
           /\ Len(Page(k, limit)) < limit => Skipped(k) + Len(Page(k, limit)) = Len(rows)
<1> DEFINE n == Skipped(k)
           m == IF n + limit < Len(rows) THEN n + limit ELSE Len(rows)
<1>1. rows \in Seq(Entry) /\ Len(rows) \in Nat /\ n \in 0..Len(rows)
      /\ \A i \in 1..Len(rows) : rows[i] \in Entry
  BY SkippedFacts, LenProperties, ElementOfSeq DEF AuditTypeOK
<1>2. Page(k, limit) = SubSeq(rows, n + 1, m)
  BY DEF Page
<1>3. m \in n..Len(rows) /\ m <= n + limit /\ (m < n + limit => m = Len(rows))
  BY <1>1
<1> HIDE DEF n, m
<1>4. \A i \in (n + 1)..m : rows[i] \in Entry
  BY <1>1, <1>3
<1>5. /\ SubSeq(rows, n + 1, m) \in Seq(Entry)
      /\ Len(SubSeq(rows, n + 1, m)) = m - n
      /\ \A i \in 1..(m - n) : SubSeq(rows, n + 1, m)[i] = rows[n + i]
  BY <1>1, <1>3, <1>4, SubSeqProperties
<1>6. /\ Page(k, limit) \in Seq(Entry)
      /\ Len(Page(k, limit)) = m - n
      /\ \A i \in 1..(m - n) : Page(k, limit)[i] = rows[n + i]
  BY <1>2, <1>5
<1>7. /\ Page(k, limit) \in Seq(Entry)
      /\ Len(Page(k, limit)) <= limit
      /\ n + Len(Page(k, limit)) <= Len(rows)
      /\ \A i \in 1..Len(Page(k, limit)) : Page(k, limit)[i] = rows[n + i]
      /\ Len(Page(k, limit)) < limit => n + Len(Page(k, limit)) = Len(rows)
  BY <1>1, <1>3, <1>6
<1> QED
  BY <1>7 DEF n

\* A row that verifies in its place is the entry that was written there: the
\* digest it still carries names the facts.
LEMMA VerifiedRowIsWritten ==
    ASSUME AuditTypeOK, Verifies(written), NEW e \in Entry, StoredRow(e),
           e.hash = Hash([sequence |-> e.sequence, facts |-> e.facts, at |-> e.at], e.previous)
    PROVE  e = written[e.sequence]
<1> DEFINE x == written[e.sequence]
<1>1. /\ written \in Seq(Entry) /\ e.sequence \in 1..Len(written)
      /\ e.previous = x.previous /\ e.hash = x.hash /\ e.at = x.at
  BY DEF AuditTypeOK, StoredRow
<1>2. /\ x \in Entry /\ x.sequence = e.sequence
      /\ x.hash = Append(x.previous, [sequence |-> e.sequence, facts |-> x.facts, at |-> x.at])
  BY <1>1, VerifiedRow
<1> HIDE DEF x
<1> DEFINE de == [sequence |-> e.sequence, facts |-> e.facts, at |-> e.at]
           dx == [sequence |-> e.sequence, facts |-> x.facts, at |-> x.at]
<1>3. de \in Document /\ dx \in Document /\ e.previous \in Seq(Document)
  BY <1>1, <1>2 DEF Entry, Document, Digest
<1>4. Append(e.previous, de) = Append(e.previous, dx)
  BY <1>1, <1>2 DEF Hash
<1>5. de = dx
  <2> HIDE DEF de, dx
  <2> QED BY <1>3, <1>4, AppendInjective
<1>6. de.facts = dx.facts
  BY <1>5
<1>7. e.facts = x.facts
  BY <1>6
<1>8. e = x
  <2>1. e = [sequence |-> e.sequence, facts |-> e.facts, at |-> e.at,
             previous |-> e.previous, hash |-> e.hash]
    BY DEF Entry
  <2>2. x = [sequence |-> x.sequence, facts |-> x.facts, at |-> x.at,
             previous |-> x.previous, hash |-> x.hash]
    BY <1>2 DEF Entry
  <2> HIDE DEF de, dx
  <2> QED
    BY <1>1, <1>2, <1>7, <2>1, <2>2
<1> QED
  BY <1>8 DEF x

\* What verify_chain holds after a page that verified is a longer beginning of
\* the history, and a short page ends it.
LEMMA PageContinues ==
    ASSUME AuditTypeOK, Verifies(written), RowsAreStored,
           NEW seen \in Seq(Entry), NEW limit \in Nat,
           Len(seen) <= Len(written), seen = SubSeq(written, 1, Len(seen)),
           Verifies(seen \o Page(Len(seen), limit))
    PROVE  LET all == seen \o Page(Len(seen), limit)
           IN  /\ all \in Seq(Entry)
               /\ Len(all) = Len(seen) + Len(Page(Len(seen), limit))
               /\ Len(all) <= Len(written)
               /\ all = SubSeq(written, 1, Len(all))
               /\ Len(Page(Len(seen), limit)) < limit => all = written
<1> DEFINE k == Len(seen)
           page == Page(k, limit)
           all == seen \o page
           n == Skipped(k)
<1>t. /\ written \in Seq(Entry) /\ Len(written) \in Nat
      /\ rows \in Seq(Entry) /\ Len(rows) \in Nat
      /\ k \in Nat /\ k <= Len(written)
  BY LenProperties DEF AuditTypeOK
<1>o. RowsOrdered /\ \A i \in 1..Len(rows) : StoredRow(rows[i])
  BY DEF RowsAreStored
<1>1. /\ page \in Seq(Entry) /\ Len(page) \in Nat /\ Len(page) <= limit
      /\ n + Len(page) <= Len(rows)
      /\ \A i \in 1..Len(page) : page[i] = rows[n + i]
      /\ Len(page) < limit => n + Len(page) = Len(rows)
  <2> HIDE DEF k
  <2>1. page \in Seq(Entry) /\ Len(page) <= limit
        /\ n + Len(page) <= Len(rows)
        /\ (\A i \in 1..Len(page) : page[i] = rows[n + i])
        /\ (Len(page) < limit => n + Len(page) = Len(rows))
    BY <1>t, <1>o, PageFacts
  <2> HIDE DEF page, n
  <2> QED
    BY <2>1, LenProperties
<1>2. n \in 0..Len(rows) /\ \A i \in 1..Len(rows) : i <= n <=> rows[i].sequence <= k
  BY <1>t, <1>o, SkippedFacts
<1>v. Verifies(all)
  OBVIOUS
<1>s. seen = SubSeq(written, 1, k)
  OBVIOUS
<1> HIDE DEF page, n
<1>3. /\ all \in Seq(Entry) /\ Len(all) = k + Len(page)
      /\ \A i \in 1..k : all[i] = seen[i]
      /\ \A i \in 1..Len(page) : all[k + i] = page[i]
  BY <1>t, <1>1, ConcatProperties
<1> HIDE DEF all, k
<1>4. ASSUME NEW i \in 1..Len(page)
      PROVE  k + i \in 1..Len(written) /\ all[k + i] = written[k + i]
  <2>1. k + i \in 1..Len(all) /\ n + i \in 1..Len(rows)
    BY <1>t, <1>1, <1>2, <1>3
  <2>2. /\ all[k + i] \in Entry /\ all[k + i].sequence = k + i
        /\ all[k + i].hash = Append(all[k + i].previous,
               [sequence |-> k + i, facts |-> all[k + i].facts, at |-> all[k + i].at])
    BY <1>3, <1>v, <2>1, VerifiedRow
  <2>3. StoredRow(all[k + i])
    BY <1>o, <1>1, <1>3, <2>1
  <2>4. all[k + i] = written[all[k + i].sequence]
    BY <2>2, <2>3, VerifiedRowIsWritten DEF Hash
  <2> QED
    BY <2>2, <2>3, <2>4 DEF StoredRow
<1>5. Len(all) <= Len(written)
  <2>1. CASE Len(page) = 0
    BY <2>1, <1>3, <1>t
  <2>2. CASE Len(page) # 0
    <3>1. Len(page) \in 1..Len(page)
      BY <2>2, <1>1
    <3> QED
      BY <3>1, <1>4, <1>3, <1>t, <1>1
  <2> QED
    BY <2>1, <2>2
<1>6. \A i \in 1..k : seen[i] = written[i]
  BY <1>s, <1>t, PrefixFacts
<1>7. \A i \in 1..Len(all) : all[i] = written[i]
  <2> TAKE i \in 1..Len(all)
  <2>1. CASE i <= k
    BY <2>1, <1>3, <1>6, <1>t
  <2>2. CASE i > k
    <3>1. i - k \in 1..Len(page) /\ k + (i - k) = i
      BY <2>2, <1>3, <1>t, <1>1
    <3> QED
      BY <3>1, <1>4
  <2> QED
    BY <2>1, <2>2, <1>t
<1>8. all = SubSeq(written, 1, Len(all))
  <2>1. Len(all) \in 0..Len(written)
    BY <1>5, <1>3, <1>t, <1>1
  <2>2. /\ SubSeq(written, 1, Len(all)) \in Seq(Entry)
        /\ Len(SubSeq(written, 1, Len(all))) = Len(all)
        /\ \A i \in 1..Len(all) : SubSeq(written, 1, Len(all))[i] = written[i]
    BY <2>1, <1>t, PrefixFacts
  <2> QED
    BY <2>2, <1>3, <1>7, SeqEqual
<1>9. ASSUME Len(page) < limit PROVE all = written
  <2>1. n + Len(page) = Len(rows)
    BY <1>1, <1>9
  <2>2. CASE written = <<>>
    <3>1. Len(all) = 0 /\ Len(written) = 0
      BY <2>2, <1>5, <1>3, <1>t, <1>1
    <3> QED
      BY <3>1, <1>3, <1>t, <2>2, SeqEqual
  <2>3. CASE written # <<>>
    <3>1. Len(rows) \in 1..Len(rows) /\ rows[Len(rows)].sequence = Len(written)
      BY <2>3, <1>t, EmptySeq DEF RowsAreStored, HeadIsStored
    <3>2. CASE Len(page) = 0
      <4>1. Len(written) <= k
        BY <3>1, <3>2, <2>1, <1>2, <1>t
      <4>2. Len(all) = Len(written)
        BY <4>1, <3>2, <1>3, <1>t
      <4> QED
        BY <4>2, <1>8, <1>t, SubSeqFull
    <3>3. CASE Len(page) # 0
      <4>1. Len(page) \in 1..Len(page) /\ page[Len(page)] = rows[Len(rows)]
        BY <3>3, <1>1, <2>1
      <4>2. k + Len(page) \in 1..Len(all) /\ all[k + Len(page)] = page[Len(page)]
        BY <4>1, <1>3, <1>t
      <4>3. all[k + Len(page)].sequence = k + Len(page)
        BY <4>2, <1>3, <1>v, VerifiedRow
      <4>4. Len(all) = Len(written)
        BY <4>1, <4>2, <4>3, <3>1, <1>3
      <4> QED
        BY <4>4, <1>8, <1>t, SubSeqFull
    <3> QED
      BY <3>2, <3>3
  <2> QED
    BY <2>2, <2>3
<1> QED
  BY <1>3, <1>5, <1>8, <1>9 DEF all, page, k

\* The probe behind the limit finds a row unless the history has ended.
LEMMA EmptyProbe ==
    ASSUME AuditTypeOK, Verifies(written), RowsAreStored,
           NEW seen \in Seq(Entry),
           Len(seen) <= Len(written), seen = SubSeq(written, 1, Len(seen)),
           Page(Len(seen), 1) = <<>>
    PROVE  seen = written
<1> DEFINE k == Len(seen)
           n == Skipped(k)
<1>t. /\ written \in Seq(Entry) /\ Len(written) \in Nat
      /\ rows \in Seq(Entry) /\ Len(rows) \in Nat
      /\ k \in Nat /\ k <= Len(written)
  BY LenProperties DEF AuditTypeOK
<1>1. n = Len(rows)
  <2>1. Len(Page(k, 1)) = 0
    BY EmptySeq
  <2>2. RowsOrdered
    BY DEF RowsAreStored
  <2>3. Len(Page(k, 1)) < 1 => n + Len(Page(k, 1)) = Len(rows)
    <3> HIDE DEF k
    <3> QED BY <2>2, <1>t, PageFacts
  <2>4. n \in 0..Len(rows)
    BY <2>2, <1>t, SkippedFacts
  <2> HIDE DEF n, k
  <2> QED
    BY <2>1, <2>3, <2>4, <1>t
<1>2. \A i \in 1..Len(rows) : i <= n <=> rows[i].sequence <= k
  BY <1>t, SkippedFacts DEF RowsAreStored
<1> HIDE DEF n
<1>3. k = Len(written)
  <2>1. CASE written = <<>>
    BY <2>1, <1>t, EmptySeq
  <2>2. CASE written # <<>>
    <3>1. Len(rows) \in 1..Len(rows) /\ rows[Len(rows)].sequence = Len(written)
      BY <2>2, <1>t, EmptySeq DEF RowsAreStored, HeadIsStored
    <3> QED
      BY <3>1, <1>1, <1>2, <1>t
  <2> QED
    BY <2>1, <2>2
<1> QED
  BY <1>3, <1>t, SubSeqFull

-----------------------------------------------------------------------------
(* The invariant is inductive.                                             *)

Transaction == [phase: Phases, at: 0..MaxTime, seen: Seq(Entry)]

\* The empty table satisfies the invariant.
LEMMA InitIInv ==
    ASSUME Init PROVE IInv
<1>1. /\ now = 0 /\ rows = <<>> /\ written = <<>> /\ damaged = FALSE
      /\ chainLock = NoOne /\ rowLock = NoOne
      /\ tx = [t \in Clients |-> Idle]
  BY DEF Init
<1>2. Idle \in Transaction /\ Idle.phase = "idle" /\ Idle.seen = <<>>
  BY AuditAssumption DEF Idle, Transaction, Phases
<1>3. AuditTypeOK
  <2>1. tx \in [Clients -> Transaction]
    BY <1>1, <1>2
  <2>2. rows \in Seq(Entry) /\ written \in Seq(Entry)
    BY <1>1
  <2>3. now \in 0..MaxTime
    BY <1>1, AuditAssumption
  <2> QED
    BY <1>1, <2>1, <2>2, <2>3 DEF AuditTypeOK, Transaction
<1>4. \A t \in Clients : tx[t].phase = "idle" /\ tx[t].seen = <<>>
  BY <1>1, <1>2
<1>5. Verifies(written) /\ RowsAreStored
  BY <1>1 DEF Verifies, RowsAreStored, RowsOrdered, HeadIsStored
<1>6. HoldersHaveLock
  BY <1>4 DEF HoldersHaveLock, Holding, Bound
<1>7. PendingContinues
  BY <1>4 DEF PendingContinues, In, Clients
<1>8. ReadIsPrefix /\ VerifiedIsWritten
  BY <1>4 DEF ReadIsPrefix, VerifiedIsWritten, In, Clients
<1> QED
  BY <1>3, <1>5, <1>6, <1>7, <1>8 DEF IInv

\* What transaction t's record must satisfy by itself.
PendingOK(t, x) ==
    t \in Writers /\ x.phase = "commit" =>
        /\ x.seen = <<NewEntry(t, x.at, written)>>
        /\ ~Regresses(x.at, written)

ReadOK(t, x) ==
    t \in Verifiers =>
        /\ x.phase \in {"idle", "chain", "bind"} => x.seen = <<>>
        /\ x.phase = "read" =>
              /\ Len(x.seen) <= MaxEntries
              /\ Len(x.seen) <= Len(written)
              /\ x.seen = SubSeq(written, 1, Len(x.seen))
        /\ x.phase = "valid" => x.seen = written

\* A step of one transaction that touches nothing but its record and the locks.
LEMMA TransactionStep ==
    ASSUME IInv, NEW t \in Clients, NEW x \in Transaction, tx' = [tx EXCEPT ![t] = x],
           UNCHANGED <<now, rows, written, damaged>>,
           rowLock' \in Writers \cup {NoOne}, chainLock' \in Clients \cup {NoOne},
           x.phase \in Holding => chainLock' = t,
           \A u \in Clients \ {t} : tx[u].phase \in Holding => chainLock' = chainLock,
           PendingOK(t, x), ReadOK(t, x)
    PROVE  IInv'
<1>1. tx \in [Clients -> Transaction]
  BY DEF IInv, AuditTypeOK, Transaction
<1>2. tx' \in [Clients -> Transaction] /\ tx'[t] = x
      /\ \A u \in Clients \ {t} : tx'[u] = tx[u]
  BY <1>1
<1>3. AuditTypeOK'
  BY <1>2 DEF IInv, AuditTypeOK, Transaction, Document, Entry, Digest
<1>4. HoldersHaveLock'
  BY <1>2 DEF IInv, HoldersHaveLock
<1>5. (Verifies(written))' /\ RowsAreStored'
  BY DEF IInv, Verifies, RowsAreStored, RowsOrdered, HeadIsStored,
         StoredRow
<1>6. PendingContinues'
  BY <1>2 DEF IInv, PendingContinues, PendingOK, In, Clients
<1>7. ReadIsPrefix' /\ VerifiedIsWritten'
  BY <1>2 DEF IInv, ReadIsPrefix, VerifiedIsWritten, ReadOK, In, Clients
<1> QED
  BY <1>3, <1>4, <1>5, <1>6, <1>7 DEF IInv

\* The end of a transaction that committed nothing.
LEMMA EndKeepsIInv ==
    ASSUME IInv, NEW t \in Clients, End(t), UNCHANGED <<now, rows, written, damaged>>
    PROVE  IInv'
<1>1. /\ Idle \in Transaction /\ Idle.phase = "idle" /\ Idle.seen = <<>>
      /\ tx' = [tx EXCEPT ![t] = Idle]
  BY AuditAssumption DEF Idle, Transaction, Phases, End
<1>2. /\ rowLock' \in Writers \cup {NoOne} /\ chainLock' \in Clients \cup {NoOne}
      /\ chainLock' = IF chainLock = t THEN NoOne ELSE chainLock
  BY DEF IInv, AuditTypeOK, End, ReleaseLocks
<1>3. \A u \in Clients \ {t} : tx[u].phase \in Holding => chainLock' = chainLock
  BY <1>2 DEF IInv, HoldersHaveLock
<1>4. PendingOK(t, Idle) /\ ReadOK(t, Idle) /\ Idle.phase \notin Holding
  BY <1>1 DEF PendingOK, ReadOK, Holding, Bound
<1> HIDE DEF Idle
<1> QED
  BY <1>1, <1>2, <1>3, <1>4, TransactionStep

\* A writer begins, a verifier begins, and the two locks are taken.
LEMMA LockingKeepsIInv ==
    ASSUME IInv, NEW t \in Clients,
           \/ t \in Writers /\ \E holdsRow \in BOOLEAN : Begin(t, holdsRow)
           \/ t \in Verifiers /\ BeginVerify(t)
           \/ t \in Writers /\ LockCase(t)
           \/ LockChain(t)
           \/ LockBinding(t)
    PROVE  IInv'
<1>t. tx \in [Clients -> Transaction] /\ tx[t] \in Transaction /\ now \in 0..MaxTime
      /\ rowLock \in Writers \cup {NoOne} /\ chainLock \in Clients \cup {NoOne}
  BY DEF IInv, AuditTypeOK, Transaction
<1>g. ASSUME NEW phase \in Phases, Goto(t, phase)
      PROVE  \E x \in Transaction : /\ tx' = [tx EXCEPT ![t] = x]
                                    /\ x.phase = phase /\ x.seen = tx[t].seen
  <2> DEFINE x == [tx[t] EXCEPT !.phase = phase]
  <2>1. x \in Transaction /\ x.phase = phase /\ x.seen = tx[t].seen
    BY <1>t DEF Transaction
  <2>2. tx' = [tx EXCEPT ![t] = x]
    BY <1>g DEF Goto
  <2> HIDE DEF x
  <2> QED
    BY <2>1, <2>2
<1>d. ~(t \in Writers /\ t \in Verifiers)
  BY AuditAssumption
<1>1. ASSUME t \in Writers, NEW holdsRow \in BOOLEAN, Begin(t, holdsRow) PROVE IInv'
  <2> DEFINE x == [phase |-> IF holdsRow THEN "case" ELSE "chain", at |-> now, seen |-> <<>>]
  <2>1. x \in Transaction /\ x.phase \in {"case", "chain"}
    BY <1>t DEF Transaction, Phases
  <2>2. tx' = [tx EXCEPT ![t] = x]
        /\ UNCHANGED <<now, rows, written, damaged, chainLock, rowLock>>
    BY <1>1 DEF Begin
  <2> HIDE DEF x
  <2>3. PendingOK(t, x) /\ ReadOK(t, x) /\ x.phase \notin Holding
    BY <1>1, <1>d, <2>1 DEF PendingOK, ReadOK, Holding, Bound
  <2> QED
    BY <1>t, <2>1, <2>2, <2>3, TransactionStep
<1>2. CASE t \in Verifiers /\ BeginVerify(t)
  <2>1. PICK x \in Transaction : tx' = [tx EXCEPT ![t] = x] /\ x.phase = "chain"
                                 /\ x.seen = tx[t].seen
    BY <1>2, <1>g DEF BeginVerify, Phases
  <2>2. x.seen = <<>>
    BY <1>2, <2>1 DEF BeginVerify, In, IInv, ReadIsPrefix
  <2>3. PendingOK(t, x) /\ ReadOK(t, x) /\ x.phase \notin Holding
    BY <1>2, <1>d, <2>1, <2>2 DEF PendingOK, ReadOK, Holding, Bound
  <2>4. UNCHANGED <<now, rows, written, damaged, chainLock, rowLock>>
    BY <1>2 DEF BeginVerify
  <2> QED
    BY <1>t, <2>1, <2>3, <2>4, TransactionStep
<1>3. CASE t \in Writers /\ LockCase(t)
  <2>1. PICK x \in Transaction : tx' = [tx EXCEPT ![t] = x] /\ x.phase = "chain"
    BY <1>3, <1>g DEF LockCase, Phases
  <2>2. PendingOK(t, x) /\ ReadOK(t, x) /\ x.phase \notin Holding
    BY <1>3, <1>d, <2>1 DEF PendingOK, ReadOK, Holding, Bound
  <2>3. UNCHANGED <<now, rows, written, damaged, chainLock>>
        /\ rowLock' \in Writers \cup {NoOne}
    BY <1>3 DEF LockCase
  <2> QED
    BY <1>t, <2>1, <2>2, <2>3, TransactionStep
<1>4. CASE LockChain(t)
  <2>1. PICK x \in Transaction : tx' = [tx EXCEPT ![t] = x] /\ x.phase = "bind"
                                 /\ x.seen = tx[t].seen
    BY <1>4, <1>g DEF LockChain, Phases
  <2>2. t \in Verifiers => x.seen = <<>>
    BY <1>4, <2>1 DEF LockChain, In, IInv, ReadIsPrefix
  <2>3. PendingOK(t, x) /\ ReadOK(t, x)
    BY <2>1, <2>2 DEF PendingOK, ReadOK
  <2>4. UNCHANGED <<now, rows, written, damaged, rowLock>>
        /\ chainLock' = t /\ chainLock = NoOne
    BY <1>4 DEF LockChain
  <2>5. \A u \in Clients : tx[u].phase \notin Holding
    BY <2>4, AuditAssumption DEF IInv, HoldersHaveLock, Clients
  <2> QED
    BY <1>t, <2>1, <2>3, <2>4, <2>5, TransactionStep
<1>5. CASE LockBinding(t)
  <2> DEFINE phase == IF t \in Writers THEN "append" ELSE "read"
  <2>1. PICK x \in Transaction : tx' = [tx EXCEPT ![t] = x] /\ x.phase = phase
                                 /\ x.seen = tx[t].seen
    BY <1>5, <1>g DEF LockBinding, Phases
  <2>2. t \in Verifiers => x.seen = <<>> /\ Len(x.seen) = 0
    BY <1>5, <2>1 DEF LockBinding, In, IInv, ReadIsPrefix
  <2>3. SubSeq(written, 1, 0) = <<>> /\ Len(written) \in Nat /\ MaxEntries \in Nat
    BY SubSeqEmpty, LenProperties, AuditAssumption DEF IInv, AuditTypeOK
  <2>p. x.phase \in {"append", "read"}
    BY <2>1
  <2>4. PendingOK(t, x) /\ ReadOK(t, x)
    <3>1. PendingOK(t, x)
      BY <2>p DEF PendingOK
    <3>2. ASSUME t \in Verifiers
          PROVE  /\ Len(x.seen) <= MaxEntries /\ Len(x.seen) <= Len(written)
                 /\ x.seen = SubSeq(written, 1, Len(x.seen))
      <4>1. x.seen = <<>> /\ Len(x.seen) = 0
        BY <2>2, <3>2
      <4>2. Len(x.seen) <= MaxEntries /\ Len(x.seen) <= Len(written)
        BY <4>1, <2>3
      <4>3. x.seen = SubSeq(written, 1, Len(x.seen))
        BY <4>1, <2>3, Zenon
      <4> QED
        BY <4>2, <4>3
    <3> QED
      BY <2>p, <3>1, <3>2 DEF ReadOK
  <2>5. UNCHANGED <<now, rows, written, damaged, chainLock, rowLock>>
    BY <1>5 DEF LockBinding
  <2>6. chainLock = t
    BY <1>5 DEF LockBinding, In, IInv, HoldersHaveLock, Holding
  <2> HIDE DEF phase
  <2> QED
    BY <1>t, <2>1, <2>4, <2>5, <2>6, TransactionStep
<1> QED
  BY <1>1, <1>2, <1>3, <1>4, <1>5

\* append inserts an entry that continues the history, or gives up.
LEMMA AppendKeepsIInv ==
    ASSUME IInv, NEW w \in Writers, AppendEntry(w)
    PROVE  IInv'
<1> DEFINE entry == NewEntry(w, tx[w].at, rows)
           refuse == Regresses(tx[w].at, rows) \/ ~enforce_audit_chain(entry, rows)
<1>t. w \in Clients /\ tx \in [Clients -> Transaction] /\ tx[w] \in Transaction
      /\ tx[w].at \in 0..MaxTime
      /\ written \in Seq(Entry)
      /\ rowLock \in Writers \cup {NoOne} /\ chainLock \in Clients \cup {NoOne}
  BY DEF IInv, AuditTypeOK, Transaction, Clients
<1>u. UNCHANGED <<now, rows, written, damaged>>
  BY DEF AppendEntry
<1>1. CASE refuse
  BY <1>1, <1>t, <1>u, EndKeepsIInv DEF AppendEntry, Refused
<1>2. CASE ~refuse
  <2>1. entry = NewEntry(w, tx[w].at, written) /\ ~Regresses(tx[w].at, written)
    BY <1>2, <1>t, SameHead DEF IInv
  <2>2. entry \in Entry
    BY <2>1, <1>t, NewEntryVerifies DEF IInv
  <2> DEFINE x == [phase |-> "commit", at |-> tx[w].at, seen |-> <<entry>>]
  <2>3. tx' = [tx EXCEPT ![w] = x] /\ UNCHANGED <<chainLock, rowLock>>
    BY <1>2 DEF AppendEntry
  <2> HIDE DEF entry
  <2>4. x \in Transaction
    BY <2>2, <1>t DEF Transaction, Phases
  <2>6. PendingOK(w, x) /\ ReadOK(w, x)
    BY <2>1, AuditAssumption DEF PendingOK, ReadOK
  <2>7. chainLock = w
    BY <1>t DEF AppendEntry, In, IInv, HoldersHaveLock, Holding, Bound
  <2> HIDE DEF x
  <2> QED
    BY <1>t, <1>u, <2>3, <2>4, <2>6, <2>7, TransactionStep
<1> QED
  BY <1>1, <1>2

\* A page that verifies continues what was read; the last one completes it.
LEMMA ReadPageKeepsIInv ==
    ASSUME IInv, NEW v \in Verifiers, ReadPage(v)
    PROVE  IInv'
<1> DEFINE seen == tx[v].seen
           remaining == MaxEntries - Len(seen)
           requested == IF remaining < PageSize THEN remaining ELSE PageSize
           page == Page(Len(seen), IF remaining = 0 THEN 1 ELSE requested)
           phase == IF remaining = 0 THEN AtLimit(page)
                    ELSE IF ~Verifies(seen \o page) THEN "invalid"
                    ELSE IF Len(page) < requested THEN "valid" ELSE "read"
           kept == IF phase = "invalid" THEN <<>>
                   ELSE IF remaining = 0 THEN seen ELSE seen \o page
           x == [phase |-> phase, at |-> tx[v].at, seen |-> kept]
<1>t. /\ v \in Clients /\ tx[v] \in Transaction /\ tx[v].at \in 0..MaxTime
      /\ seen \in Seq(Entry) /\ Len(seen) \in Nat
      /\ rowLock \in Writers \cup {NoOne} /\ chainLock \in Clients \cup {NoOne}
      /\ MaxEntries \in Nat /\ PageSize \in Nat \ {0}
  BY LenProperties, AuditAssumption DEF IInv, AuditTypeOK, Transaction, Clients
<1>1. /\ tx' = [tx EXCEPT ![v] = x]
      /\ UNCHANGED <<now, rows, written, damaged, chainLock, rowLock>>
  BY DEF ReadPage
<1>2. /\ Len(seen) <= MaxEntries /\ Len(seen) <= Len(written)
      /\ seen = SubSeq(written, 1, Len(seen))
      /\ chainLock = v
  BY <1>t DEF ReadPage, In, IInv, ReadIsPrefix, HoldersHaveLock, Holding, Bound
<1>3. AuditTypeOK /\ Verifies(written) /\ RowsAreStored
  BY DEF IInv
<1>4. v \notin Writers
  BY AuditAssumption
<1>i. phase \in {"read", "valid", "invalid"}
  BY DEF AtLimit
<1>5. kept \in Seq(Entry) /\ ReadOK(v, x)
  <2>1. CASE phase = "invalid"
    <3>1. kept = <<>> /\ x.phase = "invalid"
      BY <2>1
    <3> HIDE DEF kept, x, phase
    <3> QED
      BY <3>1 DEF ReadOK
  <2>2. CASE phase # "invalid" /\ remaining = 0
    <3>1. phase = "valid" /\ page = <<>> /\ kept = seen /\ page = Page(Len(seen), 1)
      BY <2>2 DEF AtLimit
    <3>2. x.phase = "valid" /\ x.seen = seen
      BY <3>1
    <3> HIDE DEF page, phase, kept, x, seen
    <3>3. seen = written
      BY <3>1, <1>t, <1>2, <1>3, EmptyProbe
    <3> QED
      BY <3>1, <3>2, <3>3, <1>t DEF ReadOK
  <2>3. CASE phase # "invalid" /\ remaining # 0
    <3>1. /\ Verifies(seen \o page) /\ kept = seen \o page /\ page = Page(Len(seen), requested)
          /\ phase = "valid" => Len(page) < requested
      BY <2>3
    <3>2. requested \in Nat /\ requested <= remaining
      <4>1. remaining \in Nat
        <5> HIDE DEF seen
        <5> QED BY <1>t, <1>2
      <4> HIDE DEF remaining
      <4> QED
        BY <4>1, <1>t
    <3>3. x.phase = phase /\ x.seen = kept
      OBVIOUS
    <3>r. remaining = MaxEntries - Len(seen)
      OBVIOUS
    <3> HIDE DEF page, phase, kept, x, seen, requested, remaining
    <3>4. /\ kept \in Seq(Entry) /\ Len(kept) = Len(seen) + Len(page)
          /\ Len(kept) <= Len(written)
          /\ kept = SubSeq(written, 1, Len(kept))
          /\ Len(page) < requested => kept = written
      BY <3>1, <3>2, <1>t, <1>2, <1>3, PageContinues
    <3>5. Len(page) <= requested /\ Len(page) \in Nat
      BY <3>1, <3>2, <1>t, <1>3, PageFacts, LenProperties DEF RowsAreStored
    <3>6. Len(kept) <= MaxEntries
      BY <3>2, <3>4, <3>5, <3>r, <1>t
    <3> QED
      BY <1>i, <3>1, <3>3, <3>4, <3>6 DEF ReadOK
  <2> QED
    BY <2>1, <2>2, <2>3
<1>6. x \in Transaction
  BY <1>i, <1>t, <1>5 DEF Transaction, Phases
<1>7. PendingOK(v, x)
  BY <1>4 DEF PendingOK
<1> HIDE DEF x
<1> QED
  BY <1>t, <1>1, <1>2, <1>5, <1>6, <1>7, TransactionStep

\* The committed entry is the next one of the history; nobody else was reading
\* or about to write.
LEMMA CommitKeepsIInv ==
    ASSUME IInv, NEW w \in Writers, Commit(w)
    PROVE  IInv'
<1> DEFINE e == NewEntry(w, tx[w].at, written)
<1>t. /\ w \in Clients /\ tx \in [Clients -> Transaction] /\ tx[w].at \in 0..MaxTime
      /\ rows \in Seq(Entry) /\ written \in Seq(Entry)
      /\ Len(rows) \in Nat /\ Len(written) \in Nat
      /\ now \in 0..MaxTime /\ damaged \in BOOLEAN
  BY LenProperties DEF IInv, AuditTypeOK, Transaction, Clients
<1>1. tx[w].seen = <<e>> /\ ~Regresses(tx[w].at, written)
  BY DEF Commit, IInv, PendingContinues
<1>2. e \in Entry /\ e.sequence = Len(written) + 1 /\ RowVerifies(e, written)
  BY <1>t, <1>1, NewEntryVerifies DEF IInv
<1>3. /\ rows' = rows \o <<e>> /\ written' = written \o <<e>>
      /\ tx' = [tx EXCEPT ![w] = Idle] /\ now' = now /\ damaged' = damaged
      /\ rowLock' \in Writers \cup {NoOne} /\ chainLock' \in Clients \cup {NoOne}
  BY <1>1 DEF Commit, End, ReleaseLocks, IInv, AuditTypeOK
<1>4. \A u \in Clients \ {w} : tx[u].phase \notin Holding
  BY <1>t DEF Commit, In, IInv, HoldersHaveLock, Holding, Bound
<1>5. /\ Idle \in Transaction /\ Idle.phase = "idle" /\ Idle.seen = <<>>
  BY AuditAssumption DEF Idle, Transaction, Phases
<1> HIDE DEF e, Idle
<1>6. /\ <<e>> \in Seq(Entry) /\ Len(<<e>>) = 1 /\ <<e>>[1] = e
  BY <1>2
<1>7. /\ rows' \in Seq(Entry) /\ Len(rows') = Len(rows) + 1
      /\ \A i \in 1..Len(rows) : rows'[i] = rows[i]
      /\ rows'[Len(rows) + 1] = e
  BY <1>t, <1>3, <1>6, ConcatProperties
<1>8. /\ written' \in Seq(Entry) /\ Len(written') = Len(written) + 1
      /\ \A i \in 1..Len(written) : written'[i] = written[i]
      /\ written'[Len(written) + 1] = e
  BY <1>t, <1>3, <1>6, ConcatProperties
<1>9. tx' \in [Clients -> Transaction] /\ tx'[w] = Idle
      /\ \A u \in Clients \ {w} : tx'[u] = tx[u]
  BY <1>t, <1>3, <1>5
<1>10. \A u \in Clients : tx'[u].phase \notin Holding
  BY <1>4, <1>5, <1>9 DEF Holding, Bound
<1>11. AuditTypeOK'
  <2>1. /\ now' \in 0..MaxTime /\ damaged' \in BOOLEAN
        /\ rows' \in Seq(Entry) /\ written' \in Seq(Entry)
    BY <1>t, <1>3, <1>7, <1>8
  <2> QED
    BY <2>1, <1>3, <1>9 DEF AuditTypeOK, Transaction
<1>12. HoldersHaveLock'
  BY <1>10 DEF HoldersHaveLock
<1>13. Verifies(written)'
  <2>1. Verifies(written \o <<e>>)
    BY <1>t, <1>2, VerifiesAppend DEF IInv
  <2> QED
    BY <2>1, <1>3
<1>14. RowsAreStored'
  <2>1. \A i \in 1..Len(rows) : StoredRow(rows[i])
    BY DEF IInv, RowsAreStored
  <2>2. ASSUME NEW i \in 1..Len(rows') PROVE StoredRow(rows[i])'
    <3>1. CASE i \in 1..Len(rows)
      <4>1. rows'[i] = rows[i] /\ StoredRow(rows[i])
        BY <1>7, <2>1, <3>1
      <4>2. rows[i].sequence \in 1..Len(written)
        BY <4>1 DEF StoredRow
      <4>3. written'[rows[i].sequence] = written[rows[i].sequence]
            /\ rows[i].sequence \in 1..Len(written')
        BY <4>2, <1>8, <1>t
      <4> QED
        BY <4>1, <4>3 DEF StoredRow
    <3>2. CASE i = Len(rows) + 1
      <4>1. rows'[i] = e /\ written'[e.sequence] = e /\ e.sequence \in 1..Len(written')
        BY <3>2, <1>2, <1>7, <1>8, <1>t
      <4> QED
        BY <4>1 DEF StoredRow
    <3> QED
      BY <3>1, <3>2, <1>7, <1>t
  <2>3. RowsOrdered'
    <3> SUFFICES ASSUME NEW i \in 1..Len(rows'), NEW j \in 1..Len(rows'), i < j
                 PROVE  rows'[i].sequence < rows'[j].sequence
      BY DEF RowsOrdered
    <3>1. i \in 1..Len(rows) /\ rows'[i] = rows[i] /\ rows[i].sequence \in 1..Len(written)
      <4>1. i \in 1..(Len(rows) + 1) /\ j \in 1..(Len(rows) + 1) /\ i < j
        BY <1>7
      <4>2. i \in 1..Len(rows)
        BY <4>1, <1>t
      <4>3. StoredRow(rows[i])
        BY <4>2, <2>1
      <4> QED
        BY <4>2, <4>3, <1>7 DEF StoredRow
    <3>2. CASE j \in 1..Len(rows)
      BY <3>1, <3>2, <1>7 DEF IInv, RowsAreStored, RowsOrdered
    <3>3. CASE j = Len(rows) + 1
      BY <3>1, <3>3, <1>2, <1>7, <1>t
    <3>4. j \in 1..Len(rows) \/ j = Len(rows) + 1
      <4>1. j \in 1..(Len(rows) + 1)
        BY <1>7
      <4> QED
        BY <4>1, <1>t
    <3> QED
      BY <3>2, <3>3, <3>4
  <2>4. HeadIsStored'
    <3>1. rows' # <<>>
      BY <1>7, <1>t, EmptySeq
    <3>2. rows'[Len(rows')].sequence = Len(written')
      BY <1>2, <1>7, <1>8
    <3> QED
      BY <3>1, <3>2 DEF HeadIsStored
  <2>5. (~damaged => rows = written)'
    BY <1>3 DEF IInv, RowsAreStored
  <2> QED
    BY <2>2, <2>3, <2>4, <2>5 DEF RowsAreStored
<1>15. PendingContinues'
  BY <1>10 DEF PendingContinues, In, Holding, Bound, Clients
<1>16. ReadIsPrefix' /\ VerifiedIsWritten'
  <2>1. ASSUME NEW v \in Verifiers
        PROVE  /\ tx'[v].phase \notin {"read", "valid"}
               /\ tx'[v].phase \in {"idle", "chain", "bind"} => tx'[v].seen = <<>>
    <3>1. v \in Clients /\ v # w /\ tx'[v] = tx[v]
      BY <1>9, AuditAssumption DEF Clients
    <3> QED
      BY <3>1, <1>10 DEF Holding, Bound, IInv, ReadIsPrefix
  <2> QED
    BY <2>1 DEF ReadIsPrefix, VerifiedIsWritten, In
<1> QED
  BY <1>11, <1>12, <1>13, <1>14, <1>15, <1>16 DEF IInv

\* An altered or lost row leaves every other one what it was written as.
LEMMA DamageKeepsIInv ==
    ASSUME IInv, Damage
    PROVE  IInv'
<1>t. /\ rows \in Seq(Entry) /\ Len(rows) \in Nat
      /\ \A i \in 1..Len(rows) : rows[i] \in Entry
  BY LenProperties, ElementOfSeq DEF IInv, AuditTypeOK
<1>u. damaged' = TRUE /\ UNCHANGED <<now, written, chainLock, rowLock, tx>>
  BY DEF Damage
<1>s. /\ \A i \in 1..Len(rows) : StoredRow(rows[i])
      /\ RowsOrdered /\ HeadIsStored
  BY DEF IInv, RowsAreStored
<1>r. ASSUME rows' \in Seq(Entry), \A i \in 1..Len(rows') : StoredRow(rows'[i]),
             RowsOrdered', HeadIsStored'
      PROVE  IInv'
  <2>1. AuditTypeOK'
    BY <1>r, <1>u DEF IInv, AuditTypeOK
  <2>2. RowsAreStored'
    BY <1>r, <1>u DEF RowsAreStored, StoredRow
  <2>3. HoldersHaveLock' /\ Verifies(written)'
    BY <1>u DEF IInv, HoldersHaveLock, Verifies
  <2>4. PendingContinues' /\ ReadIsPrefix' /\ VerifiedIsWritten'
    BY <1>u DEF IInv, PendingContinues, ReadIsPrefix, VerifiedIsWritten, In
  <2> QED
    BY <2>1, <2>2, <2>3, <2>4 DEF IInv
<1>1. ASSUME NEW i \in 1..Len(rows), NEW w \in Writers,
             rows' = [rows EXCEPT ![i].facts = w]
      PROVE  IInv'
  <2> DEFINE e == [rows[i] EXCEPT !.facts = w]
  <2>1. /\ e \in Entry /\ e.sequence = rows[i].sequence /\ e.previous = rows[i].previous
        /\ e.hash = rows[i].hash /\ e.at = rows[i].at
    BY <1>t DEF Entry
  <2>2. rows' = [rows EXCEPT ![i] = e]
    BY <1>1
  <2> HIDE DEF e
  <2>3. /\ rows' \in Seq(Entry) /\ Len(rows') = Len(rows)
        /\ \A j \in 1..Len(rows) : rows'[j] = IF j = i THEN e ELSE rows[j]
    BY <1>t, <2>1, <2>2, ExceptSeq
  <2>4. \A j \in 1..Len(rows) : rows'[j].sequence = rows[j].sequence
    BY <2>1, <2>3
  <2>5. \A j \in 1..Len(rows') : StoredRow(rows'[j])
    BY <2>1, <2>3, <1>s DEF StoredRow
  <2>6. RowsOrdered'
    BY <2>3, <2>4, <1>s DEF RowsOrdered
  <2>7. HeadIsStored'
    <3> SUFFICES ASSUME written # <<>>
                 PROVE  rows' # <<>> /\ rows'[Len(rows')].sequence = Len(written)
      BY <1>u DEF HeadIsStored
    <3>1. rows # <<>> /\ rows[Len(rows)].sequence = Len(written)
      BY <1>s DEF HeadIsStored
    <3>2. Len(rows) \in 1..Len(rows)
      BY <3>1, <1>t, EmptySeq
    <3> QED
      BY <3>1, <3>2, <2>3, <2>4, EmptySeq
  <2> QED
    BY <1>r, <2>3, <2>5, <2>6, <2>7
<1>2. ASSUME NEW i \in 1..(Len(rows) - 1), rows' = RemoveAt(rows, i)
      PROVE  IInv'
  <2>1. /\ SubSeq(rows, 1, i - 1) \in Seq(Entry) /\ Len(SubSeq(rows, 1, i - 1)) = i - 1
        /\ \A j \in 1..(i - 1) : SubSeq(rows, 1, i - 1)[j] = rows[j]
    BY <1>t, PrefixFacts
  <2>2. \A j \in (i + 1)..Len(rows) : rows[j] \in Entry
    BY <1>t
  <2>3. /\ SubSeq(rows, i + 1, Len(rows)) \in Seq(Entry)
        /\ Len(SubSeq(rows, i + 1, Len(rows))) = Len(rows) - i
        /\ \A j \in 1..(Len(rows) - i) : SubSeq(rows, i + 1, Len(rows))[j] = rows[i + j]
    BY <1>t, <2>2, SubSeqProperties
  <2> DEFINE before == SubSeq(rows, 1, i - 1)
             after == SubSeq(rows, i + 1, Len(rows))
             Source(j) == IF j < i THEN j ELSE j + 1
  <2>4. rows' = before \o after
    BY <1>2 DEF RemoveAt
  <2>b. /\ before \in Seq(Entry) /\ Len(before) = i - 1
        /\ after \in Seq(Entry) /\ Len(after) = Len(rows) - i
    BY <2>1, <2>3
  <2> HIDE DEF before, after
  <2>5. /\ rows' \in Seq(Entry) /\ Len(rows') = Len(rows) - 1
        /\ \A j \in 1..(Len(rows) - 1) :
              rows'[j] = IF j <= i - 1 THEN before[j] ELSE after[j - (i - 1)]
    <3>1. /\ rows' \in Seq(Entry) /\ Len(rows') = Len(before) + Len(after)
          /\ \A j \in 1..(Len(before) + Len(after)) :
                rows'[j] = IF j <= Len(before) THEN before[j] ELSE after[j - Len(before)]
      BY <2>b, <2>4, ConcatProperties
    <3> QED
      BY <3>1, <2>b, <1>t
  <2>6. ASSUME NEW j \in 1..Len(rows')
        PROVE  rows'[j] = rows[Source(j)] /\ Source(j) \in 1..Len(rows)
    <3>1. CASE j < i
      BY <3>1, <1>t, <2>1, <2>5 DEF before
    <3>2. CASE j >= i
      <4>1. j - (i - 1) \in 1..(Len(rows) - i) /\ i + (j - (i - 1)) = j + 1
        BY <3>2, <1>t, <2>5
      <4>2. rows'[j] = after[j - (i - 1)]
        BY <3>2, <1>t, <2>5
      <4>3. after[j - (i - 1)] = rows[j + 1]
        BY <4>1, <2>3 DEF after
      <4> QED
        BY <3>2, <4>1, <4>2, <4>3, <1>t
    <3> QED
      BY <3>1, <3>2, <2>5, <1>t
  <2>7. \A j \in 1..Len(rows') : StoredRow(rows'[j])
    BY <2>6, <1>s
  <2>8. RowsOrdered'
    <3> SUFFICES ASSUME NEW j \in 1..Len(rows'), NEW k \in 1..Len(rows'), j < k
                 PROVE  rows'[j].sequence < rows'[k].sequence
      BY DEF RowsOrdered
    <3>1. /\ rows'[j] = rows[Source(j)] /\ Source(j) \in 1..Len(rows)
          /\ rows'[k] = rows[Source(k)] /\ Source(k) \in 1..Len(rows)
      BY <2>6
    <3>2. Source(j) < Source(k)
      BY <2>5, <1>t
    <3> HIDE DEF Source
    <3> QED
      BY <3>1, <3>2, <1>s DEF RowsOrdered
  <2>9. HeadIsStored'
    <3> SUFFICES ASSUME written # <<>>
                 PROVE  rows' # <<>> /\ rows'[Len(rows')].sequence = Len(written)
      BY <1>u DEF HeadIsStored
    <3>1. rows[Len(rows)].sequence = Len(written)
      BY <1>s DEF HeadIsStored
    <3>2. Len(rows') \in 1..Len(rows') /\ Source(Len(rows')) = Len(rows)
      BY <2>5, <1>t
    <3>3. rows'[Len(rows')] = rows[Len(rows)]
      BY <3>2, <2>6
    <3>4. rows' # <<>>
      BY <3>2, EmptySeq
    <3> QED
      BY <3>1, <3>3, <3>4
  <2> QED
    BY <1>r, <2>5, <2>7, <2>8, <2>9
<1> QED
  BY <1>1, <1>2 DEF Damage

\* Every step keeps the invariant.
LEMMA NextKeepsIInv ==
    ASSUME IInv, [Next]_vars
    PROVE  IInv'
<1>1. ASSUME Tick \/ UNCHANGED vars PROVE IInv'
  <2>1. now' \in 0..MaxTime /\ UNCHANGED <<rows, written, damaged, chainLock, rowLock, tx>>
    BY <1>1, AuditAssumption DEF Tick, vars, IInv, AuditTypeOK
  <2>2. AuditTypeOK'
    BY <2>1 DEF IInv, AuditTypeOK
  <2>3. HoldersHaveLock' /\ Verifies(written)' /\ RowsAreStored'
    BY <2>1 DEF IInv, HoldersHaveLock, Verifies, RowsAreStored,
                StoredRow, RowsOrdered, HeadIsStored
  <2>4. PendingContinues' /\ ReadIsPrefix' /\ VerifiedIsWritten'
    BY <2>1 DEF IInv, PendingContinues, ReadIsPrefix, VerifiedIsWritten, In
  <2> QED
    BY <2>2, <2>3, <2>4 DEF IInv
<1>2. CASE Damage
  BY <1>2, DamageKeepsIInv
<1>3. CASE Deadlock
  BY <1>3, EndKeepsIInv DEF Deadlock, DeadlockDetected, Clients
<1>4. ASSUME NEW w \in Writers, NEW holdsRow \in BOOLEAN, Begin(w, holdsRow) PROVE IInv'
  BY <1>4, LockingKeepsIInv DEF Clients
<1>5. ASSUME NEW v \in Verifiers, BeginVerify(v) PROVE IInv'
  BY <1>5, LockingKeepsIInv DEF Clients
<1>6. ASSUME NEW t \in Clients, Proceed(t) PROVE IInv'
  <2>1. CASE LockChain(t) \/ LockBinding(t) \/ (t \in Writers /\ LockCase(t))
    BY <2>1, LockingKeepsIInv
  <2>2. CASE t \in Writers /\ AppendEntry(t)
    BY <2>2, AppendKeepsIInv
  <2>3. CASE t \in Writers /\ Commit(t)
    BY <2>3, CommitKeepsIInv
  <2>4. CASE t \in Verifiers /\ ReadPage(t)
    BY <2>4, ReadPageKeepsIInv
  <2>5. CASE t \in Verifiers /\ Report(t)
    BY <2>5, EndKeepsIInv DEF Report
  <2> QED
    BY <1>6, <2>1, <2>2, <2>3, <2>4, <2>5 DEF Proceed
<1>7. ASSUME NEW t \in Clients, Abort(t) PROVE IInv'
  BY <1>7, EndKeepsIInv DEF Abort
<1> QED
  BY <1>1, <1>2, <1>3, <1>4, <1>5, <1>6, <1>7 DEF Next

\* Every reachable state satisfies the invariant.
THEOREM Invariant == Spec => []IInv
<1>1. Init => IInv
  BY InitIInv
<1>2. IInv /\ [Next]_vars => IInv'
  BY NextKeepsIInv
<1> QED
  BY <1>1, <1>2, PTL DEF Spec

-----------------------------------------------------------------------------
\* Concurrent appends, in whatever order their clocks were read and however
\* many of them are refused or aborted, leave a chain verify_chain accepts.
THEOREM StoredChainVerifies == Spec => []ChainVerifies
<1>1. IInv => ChainVerifies
  BY DEF IInv, RowsAreStored, ChainVerifies
<1> QED
  BY <1>1, Invariant, PTL

\* verify_chain reports a chain as valid only when it has read the whole
\* history as it was written, whatever page size and limit it uses and
\* whichever row was altered or lost between two of its pages.
THEOREM ValidMeansWritten == Spec => []VerifiedIsWritten
<1>1. IInv => VerifiedIsWritten
  BY DEF IInv
<1> QED
  BY <1>1, Invariant, PTL

\* Every variable keeps its type: a page, an appended entry and a damaged table
\* are sequences of entries.
THEOREM TypeCorrect == Spec => []AuditTypeOK
<1>1. IInv => AuditTypeOK
  BY DEF IInv
<1> QED
  BY <1>1, Invariant, PTL
=============================================================================
