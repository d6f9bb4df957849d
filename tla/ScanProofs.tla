----------------------------- MODULE ScanProofs -----------------------------
(***************************************************************************)
(* Proofs about Scan: pages are consecutive for any output, any budgets    *)
(* and any page sizes.                                                     *)
(***************************************************************************)
EXTENDS Scan, FiniteSetTheorems, TLAPS

-----------------------------------------------------------------------------
\* The visible entries among the first n of an output.

Shown(s, n) == {i \in 1..n : s[i] = "shown"}

LEMMA ShownFinite ==
  ASSUME NEW s, NEW n \in Nat
  PROVE  IsFiniteSet(Shown(s, n)) /\ Cardinality(Shown(s, n)) \in Nat
<1>1. IsFiniteSet(1..n)
  BY FS_Interval
<1>2. Shown(s, n) \in SUBSET (1..n)
  BY DEF Shown
<1> QED BY <1>1, <1>2, FS_Subset, FS_CardinalityType

LEMMA ShownStep ==
  ASSUME NEW s, NEW n \in Nat
  PROVE  /\ s[n + 1] = "shown" =>
              /\ Shown(s, n + 1) = Shown(s, n) \cup {n + 1}
              /\ n + 1 \notin Shown(s, n)
              /\ Cardinality(Shown(s, n + 1)) = Cardinality(Shown(s, n)) + 1
         /\ s[n + 1] # "shown" => Shown(s, n + 1) = Shown(s, n)
<1>1. s[n + 1] = "shown" => Shown(s, n + 1) = Shown(s, n) \cup {n + 1}
  BY DEF Shown
<1>2. n + 1 \notin Shown(s, n)
  BY DEF Shown
<1>3. s[n + 1] # "shown" => Shown(s, n + 1) = Shown(s, n)
  BY DEF Shown
<1> QED BY <1>1, <1>2, <1>3, ShownFinite, FS_AddElement

\* Initial parts are nested, so their sizes tell them apart.
LEMMA ShownNested ==
  ASSUME NEW s, NEW a \in Nat, NEW b \in Nat
  PROVE  /\ Cardinality(Shown(s, a)) = Cardinality(Shown(s, b)) => Shown(s, a) = Shown(s, b)
         /\ a <= b => Cardinality(Shown(s, a)) <= Cardinality(Shown(s, b))
<1>1. IsFiniteSet(Shown(s, a)) /\ IsFiniteSet(Shown(s, b))
  BY ShownFinite
<1>2. CASE a <= b
  <2>1. Shown(s, a) \in SUBSET Shown(s, b)
    BY <1>2 DEF Shown
  <2> QED BY <1>1, <2>1, FS_Subset
<1>3. CASE b < a
  <2>1. Shown(s, b) \in SUBSET Shown(s, a)
    BY <1>3 DEF Shown
  <2> QED BY <1>1, <1>3, <2>1, FS_Subset
<1> QED BY <1>2, <1>3

-----------------------------------------------------------------------------
\* The inductive invariant.  While a scan skips, it has yet to pass what earlier
\* pages showed; from then on, those pages and this one make up what it has read.

Traversed == offset = Cardinality(listed) /\ \E m \in 0..Len(stream) : listed = Shown(stream, m)

Scanned ==
  /\ accepted = Cardinality(Shown(stream, pos))
  /\ toSkip > 0 => page = {} /\ accepted + toSkip = offset
  /\ toSkip = 0 => listed \cup page = Shown(stream, pos) /\ listed \cap page = {}
  /\ inGroup > 0 => page # {}
  /\ ~complete /\ ~exhausted

Paged ==
  /\ \E n \in 0..Len(stream) : listed \cup page = Shown(stream, n)
  /\ listed \cap page = {}
  /\ complete => /\ listed \cup page = Shown(stream, Len(stream))
                 /\ accepted = Cardinality(Shown(stream, Len(stream)))
  /\ ~HasCursor => complete \/ exhausted

ScanInv ==
  /\ TypeOK
  /\ Traversed
  /\ phase = "scanning" => Scanned
  /\ phase = "paged" => Paged

LEMMA ScanInit == Init => ScanInv
<1> SUFFICES ASSUME Init PROVE ScanInv
  OBVIOUS
<1>1. PICK n \in 0..MaxStream : stream \in [1..n -> Kinds(tool)]
  BY DEF Init, Streams
<1>2. stream \in Seq({"other", "group", "shown", "hidden", "bad"})
  <2>1. stream \in [1..n -> {"other", "group", "shown", "hidden", "bad"}]
    BY <1>1 DEF Kinds
  <2> QED BY <2>1, StreamBound
<1>3. TypeOK
  <2>1. more \in BOOLEAN /\ complete \in BOOLEAN /\ exhausted \in BOOLEAN
    BY DEF Init
  <2>2. Len(stream) \in Nat
    BY <1>2
  <2>3. pos \in 0..Len(stream) /\ decoded \in 0..MaxDecoded /\ limit \in 1..MaxLimit /\ inGroup \in 0..MaxLimit
    BY <2>2, ScanLimits DEF Init
  <2> QED BY <1>2, <2>1, <2>3 DEF Init, TypeOK
<1>4. Traversed
  <2>1. Shown(stream, 0) = {} /\ 0 \in 0..Len(stream)
    BY <1>2 DEF Shown
  <2> QED BY <2>1, FS_EmptySet DEF Init, Traversed
<1> QED BY <1>3, <1>4 DEF Init, ScanInv

\* The sets of entries are finite.
LEMMA Finite ==
  ASSUME TypeOK
  PROVE  /\ Len(stream) \in Nat
         /\ IsFiniteSet(page) /\ Cardinality(page) \in Nat
         /\ IsFiniteSet(listed) /\ Cardinality(listed) \in Nat
<1>1. Len(stream) \in Nat
  BY DEF TypeOK
<1>2. IsFiniteSet(1..Len(stream))
  BY <1>1, FS_Interval
<1>3. page \in SUBSET (1..Len(stream)) /\ listed \in SUBSET (1..Len(stream))
  BY DEF TypeOK
<1> QED BY <1>1, <1>2, <1>3, FS_Subset, FS_CardinalityType

\* Every step of a scan keeps the types.
LEMMA ScanTyped ==
  ASSUME TypeOK, [Next]_vars PROVE TypeOK'
<1>0. Len(stream) \in Nat
  BY DEF TypeOK
<1>1. ASSUME NEW l \in 1..MaxLimit, BeginPage(l) PROVE TypeOK'
  <2>1. more' \in BOOLEAN /\ complete' \in BOOLEAN /\ exhausted' \in BOOLEAN
    BY <1>1 DEF BeginPage
  <2>2. /\ UNCHANGED <<tool, stream, offset, listed>> /\ phase' = "scanning"
        /\ limit' \in 1..MaxLimit /\ toSkip' \in Nat
        /\ pos' = 0 /\ decoded' = 0 /\ accepted' = 0 /\ page' = {} /\ inGroup' = 0
    BY <1>1 DEF TypeOK, BeginPage, command
  <2>3. pos' \in 0..Len(stream') /\ decoded' \in 0..MaxDecoded /\ inGroup' \in 0..MaxLimit
    BY <1>0, <2>2, ScanLimits
  <2> QED BY <2>1, <2>2, <2>3 DEF TypeOK
<1>2. CASE PageFails
  BY <1>2 DEF TypeOK, PageFails, command, traversal, counters, stats
<1>3. CASE ReachEnd
  BY <1>3 DEF TypeOK, ReachEnd, command, traversal, counters
<1>4. CASE RunOut
  <2>1. more' \in BOOLEAN /\ exhausted' \in BOOLEAN
    BY <1>4 DEF RunOut, PageMayHaveMore
  <2>2. UNCHANGED <<command, traversal, counters, complete>> /\ phase' = "paged"
    BY <1>4 DEF RunOut
  <2> QED BY <2>1, <2>2 DEF TypeOK, command, traversal, counters
<1>5. CASE Malformed
  BY <1>5 DEF TypeOK, Malformed, command, traversal, counters, stats
<1>6. CASE PassOther
  BY <1>0, <1>6 DEF TypeOK, PassOther, Readable, AtEnd, command, traversal, stats
<1>7. CASE OpenGroup
  BY <1>0, <1>7, ScanLimits DEF TypeOK, OpenGroup, Readable, AtEnd, OutOfEntries, command, traversal, stats
<1>8. CASE DropHidden
  BY <1>0, <1>8, ScanLimits DEF TypeOK, DropHidden, Readable, AtEnd, OutOfEntries, command, traversal, stats
<1>9. CASE SkipShown
  BY <1>0, <1>9, ScanLimits DEF TypeOK, SkipShown, Accepting, Readable, AtEnd, OutOfEntries, command, traversal, stats
<1>10. CASE KeepShown
  BY <1>0, <1>10, ScanLimits
  DEF TypeOK, KeepShown, Accepting, Room, Readable, AtEnd, OutOfEntries, command, traversal, stats
<1>11. CASE StopBeyond
  BY <1>0, <1>11, ScanLimits
  DEF TypeOK, StopBeyond, Accepting, Readable, AtEnd, OutOfEntries, command, traversal
<1>12. CASE Continue
  <2>2. Cardinality(page) \in Nat
    BY Finite
  <2>3. offset' \in Nat /\ listed' \subseteq 1..Len(stream) /\ phase' = "ready"
    BY <1>12, <2>2 DEF TypeOK, Continue
  <2>4. UNCHANGED <<command, limit, counters, stats>>
    BY <1>12 DEF Continue
  <2> QED BY <2>3, <2>4 DEF TypeOK, command, counters, stats
<1>13. CASE UNCHANGED vars
  BY <1>13 DEF TypeOK, vars, command, traversal, counters, stats
<1> QED BY <1>1, <1>2, <1>3, <1>4, <1>5, <1>6, <1>7, <1>8, <1>9, <1>10, <1>11, <1>12, <1>13 DEF Next, Decode

-----------------------------------------------------------------------------
\* The steps that matter.

\* While skipping, the scan has not passed what was listed.
LEMMA SkippingBehind ==
  ASSUME ScanInv, phase = "scanning"
  PROVE  toSkip > 0 => Cardinality(Shown(stream, pos)) < Cardinality(listed)
<1>1. Cardinality(Shown(stream, pos)) \in Nat
  BY ShownFinite DEF ScanInv, TypeOK
<1> QED BY <1>1, Finite DEF ScanInv, TypeOK, Traversed, Scanned

LEMMA BeginKeeps ==
  ASSUME ScanInv, NEW l \in 1..MaxLimit, BeginPage(l) PROVE Traversed' /\ Scanned'
<1>1. Shown(stream, 0) = {}
  BY DEF Shown
<1>2. UNCHANGED <<stream, offset, listed>>
  BY DEF BeginPage, command
<1>3. Traversed'
  BY <1>2 DEF ScanInv, Traversed
<1>4. offset = Cardinality(listed) /\ IsFiniteSet(listed)
  BY Finite DEF ScanInv, Traversed
<1>5. toSkip' = 0 => listed = {}
  BY <1>4, FS_EmptySet DEF BeginPage
<1>6. Shown(stream, pos)' = {}
  BY <1>1, <1>2 DEF BeginPage
<1>7. accepted' = Cardinality(Shown(stream, pos)')
  BY <1>6, FS_EmptySet DEF BeginPage
<1>8. page' = {} /\ accepted' + toSkip' = offset'
  BY <1>2 DEF BeginPage, ScanInv, TypeOK
<1>9. toSkip' = 0 => listed' \cup page' = Shown(stream, pos)' /\ listed' \cap page' = {}
  BY <1>2, <1>5, <1>6, <1>8
<1>10. ~complete' /\ ~exhausted' /\ ~(inGroup' > 0)
  BY DEF BeginPage
<1> QED BY <1>3, <1>7, <1>8, <1>9, <1>10 DEF Scanned

\* An entry that is not shown moves the scan and nothing else.
LEMMA PassKeeps ==
  ASSUME ScanInv, PassOther \/ OpenGroup \/ DropHidden PROVE Traversed' /\ Scanned'
<1>1. UNCHANGED <<stream, offset, listed, toSkip, accepted, page>> /\ UNCHANGED stats /\ pos' = pos + 1
  BY DEF PassOther, OpenGroup, DropHidden, command, traversal
<1>2. phase = "scanning" /\ stream[pos + 1] # "shown" /\ pos \in Nat
  BY DEF PassOther, OpenGroup, DropHidden, Readable, Next1, ScanInv, TypeOK
<1>3. Shown(stream, pos)' = Shown(stream, pos)
  BY <1>1, <1>2, ShownStep
<1>4. Traversed'
  BY <1>1 DEF ScanInv, Traversed
<1>5. ~complete' /\ ~exhausted'
  BY <1>1, <1>2 DEF ScanInv, Scanned, stats
<1>6. inGroup' > 0 => page' # {}
  BY <1>1, <1>2 DEF ScanInv, Scanned, PassOther, OpenGroup, DropHidden
<1> QED BY <1>1, <1>2, <1>3, <1>4, <1>5, <1>6 DEF ScanInv, Scanned

LEMMA SkipKeeps ==
  ASSUME ScanInv, SkipShown PROVE Traversed' /\ Scanned'
<1>1. UNCHANGED <<stream, offset, listed, page>> /\ UNCHANGED stats
  BY DEF SkipShown, command, traversal
<1>2. /\ phase = "scanning" /\ stream[pos + 1] = "shown" /\ pos \in Nat
      /\ accepted' = accepted + 1 /\ toSkip' = toSkip - 1 /\ toSkip > 0 /\ pos' = pos + 1
  BY DEF SkipShown, Accepting, Readable, Next1, ScanInv, TypeOK
<1>3. accepted' = Cardinality(Shown(stream, pos + 1)) /\ Shown(stream, pos)' = Shown(stream, pos + 1)
  BY <1>1, <1>2, ShownStep DEF ScanInv, Scanned
<1>4. page = {} /\ accepted + toSkip = offset /\ accepted \in Nat /\ toSkip \in Nat
  BY <1>2 DEF ScanInv, Scanned, TypeOK
<1>5. accepted' + toSkip' = offset'
  BY <1>1, <1>2, <1>4
<1>6. toSkip' = 0 => listed = Shown(stream, pos + 1)
  <2>1. PICK m \in 0..Len(stream) : listed = Shown(stream, m)
    BY DEF ScanInv, Traversed
  <2>2. toSkip' = 0 => Cardinality(Shown(stream, pos + 1)) = Cardinality(Shown(stream, m))
    BY <1>2, <1>3, <1>4, <2>1 DEF ScanInv, Traversed
  <2>3. m \in Nat /\ pos + 1 \in Nat
    BY <1>2, Finite DEF ScanInv
  <2>4. Cardinality(Shown(stream, pos + 1)) = Cardinality(Shown(stream, m))
          => Shown(stream, pos + 1) = Shown(stream, m)
    BY <2>3, ShownNested
  <2> QED BY <2>1, <2>2, <2>4
<1>7. Traversed'
  BY <1>1 DEF ScanInv, Traversed
<1>8. ~complete' /\ ~exhausted'
  BY <1>1, <1>2 DEF ScanInv, Scanned, stats
<1>9. inGroup' > 0 => page' # {}
  BY <1>2 DEF SkipShown, ScanInv, Scanned
<1>10. listed' \cap page' = {}
  BY <1>1, <1>4
<1> QED BY <1>1, <1>3, <1>4, <1>5, <1>6, <1>7, <1>8, <1>9, <1>10 DEF Scanned

LEMMA KeepKeeps ==
  ASSUME ScanInv, KeepShown PROVE Traversed' /\ Scanned'
<1>1. UNCHANGED <<stream, offset, listed, toSkip>> /\ UNCHANGED stats
  BY DEF KeepShown, command, traversal
<1>2. /\ phase = "scanning" /\ stream[pos + 1] = "shown" /\ pos \in Nat
      /\ accepted' = accepted + 1 /\ toSkip = 0 /\ pos' = pos + 1 /\ page' = page \cup {pos + 1}
  BY DEF KeepShown, Accepting, Readable, Next1, ScanInv, TypeOK
<1>3. /\ accepted' = Cardinality(Shown(stream, pos + 1)) /\ Shown(stream, pos)' = Shown(stream, pos + 1)
      /\ Shown(stream, pos + 1) = Shown(stream, pos) \cup {pos + 1} /\ pos + 1 \notin Shown(stream, pos)
  BY <1>1, <1>2, ShownStep DEF ScanInv, Scanned
<1>4. listed \cup page = Shown(stream, pos) /\ listed \cap page = {}
  BY <1>2 DEF ScanInv, Scanned
<1>5. listed' \cup page' = Shown(stream, pos)' /\ listed' \cap page' = {}
  BY <1>1, <1>2, <1>3, <1>4
<1>6. Traversed'
  BY <1>1 DEF ScanInv, Traversed
<1>7. ~complete' /\ ~exhausted'
  BY <1>1, <1>2 DEF ScanInv, Scanned, stats
<1> QED BY <1>1, <1>2, <1>3, <1>5, <1>6, <1>7 DEF Scanned

\* Where a scan stops, its page follows the pages before it.
LEMMA ScannedIsConsecutive ==
  ASSUME ScanInv, phase = "scanning"
  PROVE  /\ \E n \in 0..Len(stream) : listed \cup page = Shown(stream, n)
         /\ listed \cap page = {}
<1>1. CASE toSkip = 0
  BY <1>1 DEF ScanInv, Scanned, TypeOK
<1>2. CASE toSkip > 0
  <2>1. page = {}
    BY <1>2 DEF ScanInv, Scanned
  <2> QED BY <2>1 DEF ScanInv, Traversed
<1> QED BY <1>1, <1>2 DEF ScanInv, TypeOK

LEMMA EndKeeps ==
  ASSUME ScanInv, ReachEnd PROVE Traversed' /\ Paged'
<1>1. phase = "scanning" /\ pos = Len(stream) /\ complete' = TRUE
  BY DEF ReachEnd, AtEnd
<1>2. UNCHANGED <<stream, offset, listed, page, accepted>>
  BY DEF ReachEnd, command, traversal, counters
<1>3. toSkip = 0
  <2>1. SUFFICES ASSUME toSkip > 0 PROVE FALSE
    BY DEF ScanInv, TypeOK
  <2>2. PICK m \in 0..Len(stream) : listed = Shown(stream, m)
    BY DEF ScanInv, Traversed
  <2>3. m \in Nat /\ pos \in Nat /\ m <= pos
    BY <1>1, Finite DEF ScanInv
  <2>4. Cardinality(Shown(stream, m)) <= Cardinality(Shown(stream, pos))
    BY <2>3, ShownNested
  <2>5. Cardinality(Shown(stream, pos)) < Cardinality(Shown(stream, m))
    BY <1>1, <2>1, <2>2, SkippingBehind
  <2>6. Cardinality(Shown(stream, m)) \in Nat /\ Cardinality(Shown(stream, pos)) \in Nat
    BY <2>3, ShownFinite
  <2> QED BY <2>4, <2>5, <2>6
<1>4. /\ listed \cup page = Shown(stream, Len(stream)) /\ listed \cap page = {}
      /\ accepted = Cardinality(Shown(stream, Len(stream)))
  BY <1>1, <1>3 DEF ScanInv, Scanned
<1>5. Len(stream) \in 0..Len(stream)
  BY Finite DEF ScanInv
<1>6. Traversed'
  BY <1>2 DEF ScanInv, Traversed
<1> QED BY <1>1, <1>2, <1>4, <1>5, <1>6 DEF Paged

LEMMA StopKeeps ==
  ASSUME ScanInv, RunOut \/ StopBeyond PROVE Traversed' /\ Paged'
<1>1. phase = "scanning"
  BY DEF RunOut, StopBeyond, Accepting, Readable
<1>2. UNCHANGED <<stream, offset, listed, page, limit>> /\ UNCHANGED complete
  BY DEF RunOut, StopBeyond, command, traversal, counters
<1>3. ~complete'
  BY <1>1, <1>2 DEF ScanInv, Scanned
<1>4. ~HasCursor' => exhausted'
  <2>1. CASE RunOut
    BY <2>1 DEF RunOut
  <2>2. CASE StopBeyond
    <3>1. more' = TRUE /\ ~Room /\ toSkip = 0
      BY <2>2 DEF StopBeyond
    <3>2. page # {}
      <4>1. SUFFICES ASSUME page = {} PROVE FALSE
        OBVIOUS
      <4>2. Cardinality(page) = 0 /\ ~(inGroup > 0)
        BY <1>1, <4>1, FS_EmptySet DEF ScanInv, Scanned
      <4>3. limit > 0 /\ limit \in Nat /\ inGroup \in Nat
        BY ScanLimits DEF ScanInv, TypeOK
      <4> QED BY <3>1, <4>2, <4>3 DEF Room
    <3> QED BY <3>1, <3>2, <1>2 DEF HasCursor
  <2> QED BY <2>1, <2>2
<1>5. Traversed'
  BY <1>2 DEF ScanInv, Traversed
<1> QED BY <1>1, <1>2, <1>3, <1>4, <1>5, ScannedIsConsecutive DEF Paged

LEMMA ContinueKeeps ==
  ASSUME ScanInv, Continue PROVE Traversed'
<1>1. phase = "paged" /\ listed' = listed \cup page /\ offset' = offset + Cardinality(page) /\ stream' = stream
  BY DEF Continue, command
<1>2. PICK n \in 0..Len(stream) : listed \cup page = Shown(stream, n)
  BY <1>1 DEF ScanInv, Paged
<1>3. listed \cap page = {}
  BY <1>1 DEF ScanInv, Paged
<1>4. Cardinality(listed \cup page) = Cardinality(listed) + Cardinality(page)
  <2>1. IsFiniteSet(listed) /\ IsFiniteSet(page) /\ Cardinality(listed) \in Nat /\ Cardinality(page) \in Nat
    BY Finite DEF ScanInv
  <2>2. Cardinality(listed \cap page) = 0
    BY <1>3, FS_EmptySet
  <2>3. Cardinality(listed \cup page) = Cardinality(listed) + Cardinality(page) - Cardinality(listed \cap page)
    BY <2>1, FS_Union
  <2> QED BY <2>1, <2>2, <2>3
<1>5. offset' = Cardinality(listed)'
  <2>1. offset = Cardinality(listed)
    BY DEF ScanInv, Traversed
  <2> QED BY <1>1, <1>4, <2>1
<1>6. (\E m \in 0..Len(stream) : listed = Shown(stream, m))'
  BY <1>1, <1>2
<1> QED BY <1>5, <1>6 DEF Traversed

LEMMA ScanStep == ScanInv /\ [Next]_vars => ScanInv'
<1> SUFFICES ASSUME ScanInv, [Next]_vars PROVE ScanInv'
  OBVIOUS
<1>0. TypeOK'
  BY ScanTyped DEF ScanInv
<1>1. ASSUME NEW l \in 1..MaxLimit, BeginPage(l) PROVE ScanInv'
  <2>1. phase' = "scanning"
    BY <1>1 DEF BeginPage
  <2> QED BY <1>0, <1>1, <2>1, BeginKeeps DEF ScanInv
<1>2. CASE PageFails \/ Malformed
  <2>1. phase' = "failed" /\ UNCHANGED <<stream, offset, listed>>
    BY <1>2 DEF PageFails, Malformed, command, traversal
  <2>2. Traversed'
    BY <2>1 DEF ScanInv, Traversed
  <2> QED BY <1>0, <2>1, <2>2 DEF ScanInv
<1>3. CASE ReachEnd
  <2>1. phase' = "paged"
    BY <1>3 DEF ReachEnd
  <2> QED BY <1>0, <1>3, <2>1, EndKeeps DEF ScanInv
<1>4. CASE RunOut \/ StopBeyond
  <2>1. phase' = "paged"
    BY <1>4 DEF RunOut, StopBeyond
  <2> QED BY <1>0, <1>4, <2>1, StopKeeps DEF ScanInv
<1>5. CASE PassOther \/ OpenGroup \/ DropHidden
  <2>1. phase' = "scanning"
    BY <1>5 DEF PassOther, OpenGroup, DropHidden, Readable
  <2> QED BY <1>0, <1>5, <2>1, PassKeeps DEF ScanInv
<1>6. CASE SkipShown
  <2>1. phase' = "scanning"
    BY <1>6 DEF SkipShown, Accepting, Readable
  <2> QED BY <1>0, <1>6, <2>1, SkipKeeps DEF ScanInv
<1>7. CASE KeepShown
  <2>1. phase' = "scanning"
    BY <1>7 DEF KeepShown, Accepting, Readable
  <2> QED BY <1>0, <1>7, <2>1, KeepKeeps DEF ScanInv
<1>8. CASE Continue
  <2>1. phase' = "ready"
    BY <1>8 DEF Continue
  <2> QED BY <1>0, <1>8, <2>1, ContinueKeeps DEF ScanInv
<1>9. CASE UNCHANGED vars
  <2>1. UNCHANGED <<stream, phase, offset, listed, pos, toSkip, accepted, page, inGroup>> /\ UNCHANGED stats
    BY <1>9 DEF vars, command, traversal, counters
  <2>2. Traversed'
    BY <2>1 DEF ScanInv, Traversed
  <2>3. phase' = "scanning" => Scanned'
    BY <2>1 DEF ScanInv, Scanned, stats
  <2>4. phase' = "paged" => Paged'
    BY <2>1 DEF ScanInv, Paged, HasCursor, stats
  <2> QED BY <1>0, <2>2, <2>3, <2>4 DEF ScanInv
<1> QED BY <1>1, <1>2, <1>3, <1>4, <1>5, <1>6, <1>7, <1>8, <1>9 DEF Next, Decode

LEMMA ScanAlways == Spec => []ScanInv
  BY ScanInit, ScanStep, PTL DEF Spec

-----------------------------------------------------------------------------
\* Results.

\* Decoding and paging keep every counter of ScanLS and ScanFind in range: the
\* entries decoded by one scan never exceed max_decoded_entries.
THEOREM Typing == Spec => []TypeOK
<1>1. ScanInv => TypeOK
  BY DEF ScanInv
<1> QED BY <1>1, ScanAlways, PTL

\* The pages of browse_snapshot and find_files follow one another: what has been
\* shown is an initial part of the visible entries, no entry twice, whatever the
\* page sizes.
THEOREM Consecutive == Spec => []PagesAreConsecutive
<1>1. ScanInv => PagesAreConsecutive
  <2> SUFFICES ASSUME ScanInv PROVE PagesAreConsecutive
    OBVIOUS
  <2>1. CASE phase = "paged"
    BY <2>1 DEF ScanInv, Paged, PagesAreConsecutive, ShownUpTo, Shown
  <2>2. CASE phase = "ready"
    BY <2>2 DEF ScanInv, Traversed, PagesAreConsecutive, ShownUpTo, Shown
  <2> QED BY <2>1, <2>2 DEF PagesAreConsecutive
<1> QED BY <1>1, ScanAlways, PTL

\* scan_complete and total are true of the whole traversal, not of the last page.
THEOREM CompleteIsAll == Spec => []CompleteMeansAll
<1>1. ScanInv => CompleteMeansAll
  BY DEF ScanInv, Paged, CompleteMeansAll, AllShown, ShownUpTo, Shown
<1> QED BY <1>1, ScanAlways, PTL

\* A last page that is not the end of the output says that a budget was spent.
THEOREM CutsAreReported == Spec => []NothingCutInSilence
<1>1. ScanInv => NothingCutInSilence
  BY DEF ScanInv, Paged, NothingCutInSilence
<1> QED BY <1>1, ScanAlways, PTL
=============================================================================
