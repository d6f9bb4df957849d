-------------------------------- MODULE Scan --------------------------------
(***************************************************************************)
(* Paging through `restic ls` and `restic find` (internal/restic/scan.go,  *)
(* and the browse_snapshot and find_files handlers that call it).          *)
(*                                                                         *)
(* Every page re-runs the command and decodes its output from the start:   *)
(* entries the policy hides are dropped first, then the entries earlier    *)
(* pages showed are skipped, then the page is filled.  Byte and entry      *)
(* budgets may end a scan before the stream ends.                          *)
(*                                                                         *)
(* An entry of the stream is its kind; entries are told apart by position. *)
(* One byte stands for the encoding of one entry.                          *)
(***************************************************************************)
EXTENDS Integers, Sequences, FiniteSets

CONSTANTS
  MaxBytes,      \* limits.MaxBytes
  MaxDecoded,    \* limits.MaxDecodedEntries
  MaxLimit,      \* max_nodes, max_find_results
  MaxStream      \* bound on the length of the output

ASSUME ScanLimits == MaxBytes \in Nat \ {0} /\ MaxDecoded \in Nat \ {0} /\ MaxLimit \in Nat \ {0}
ASSUME StreamBound == MaxStream \in Nat

VARIABLES
  tool,       \* "ls" (browse_snapshot) or "find" (find_files)
  stream,     \* what the command prints, the same for every page
  phase,      \* where the traversal is
  offset,     \* cursorState.Offset: entries shown by earlier pages
  listed,     \* which entries those are
  limit,      \* the page size asked for
  pos,        \* entries read by the current scan
  toSkip,     \* remainingSkip
  decoded,    \* Stats.DecodedEntries
  accepted,   \* Stats.AcceptedEntries
  page,       \* the entries of the page
  inGroup,    \* len(group.Matches) of the current find group
  more, complete, exhausted     \* Stats.More, .Complete, .BudgetExhausted

command == <<tool, stream>>
traversal == <<offset, listed, limit>>
counters == <<pos, toSkip, decoded, accepted, page, inGroup>>
stats == <<more, complete, exhausted>>
vars == <<command, phase, traversal, counters, stats>>

\* A line of ls that is not a node, a group of find and its matches, and an
\* entry that does not decode.
Kinds(t) == IF t = "ls" THEN {"other", "shown", "hidden", "bad"}
            ELSE {"group", "shown", "hidden", "bad"}
Streams(t) == {s \in UNION {[1..n -> Kinds(t)] : n \in 0..MaxStream} :
                 t = "find" /\ s # <<>> => s[1] \in {"group", "bad"}}

TypeOK ==
  /\ tool \in {"ls", "find"}
  /\ stream \in Seq({"other", "group", "shown", "hidden", "bad"})
  /\ phase \in {"ready", "scanning", "paged", "failed"}
  /\ listed \subseteq 1..Len(stream) /\ page \subseteq 1..Len(stream)
  /\ limit \in 1..MaxLimit
  /\ pos \in 0..Len(stream)
  /\ offset \in Nat /\ toSkip \in Nat /\ accepted \in Nat /\ inGroup \in 0..MaxLimit
  /\ decoded \in 0..MaxDecoded
  /\ more \in BOOLEAN /\ complete \in BOOLEAN /\ exhausted \in BOOLEAN

Init ==
  /\ tool \in {"ls", "find"}
  /\ stream \in Streams(tool)
  /\ phase = "ready"
  /\ offset = 0 /\ listed = {} /\ limit = 1
  /\ pos = 0 /\ toSkip = 0 /\ decoded = 0 /\ accepted = 0 /\ page = {} /\ inGroup = 0
  /\ more = FALSE /\ complete = FALSE /\ exhausted = FALSE

-----------------------------------------------------------------------------
\* The handler asks for a page: the first, or the one its cursor continues.
BeginPage(l) ==
  /\ phase = "ready"
  /\ phase' = "scanning"
  /\ limit' = l
  /\ toSkip' = offset
  /\ pos' = 0 /\ decoded' = 0 /\ accepted' = 0 /\ page' = {} /\ inGroup' = 0
  /\ more' = FALSE /\ complete' = FALSE /\ exhausted' = FALSE
  /\ UNCHANGED <<command, offset, listed>>

\* The command may fail, be refused a slot or time out before its page is full.
PageFails ==
  /\ phase = "scanning"
  /\ phase' = "failed"
  /\ UNCHANGED <<command, traversal, counters, stats>>

-----------------------------------------------------------------------------
\* The loops of ScanLS and ScanFind, one entry at a time.

Next1 == stream[pos + 1]
AtEnd == pos = Len(stream)
\* The reader's probe tells an output of exactly MaxBytes from a longer one.
OutOfBytes == pos = MaxBytes /\ ~AtEnd
\* The entry budget is looked at before the next line, group or match is decoded.
OutOfEntries == decoded >= MaxDecoded /\ ~AtEnd

PageMayHaveMore == limit > 0 /\ Cardinality(page) >= limit

ReachEnd ==
  /\ phase = "scanning" /\ AtEnd
  /\ complete' = TRUE
  /\ phase' = "paged"
  /\ UNCHANGED <<command, traversal, counters, more, exhausted>>

\* Slip: the page is cut off without a word.
RunOutUnmarked ==
  /\ phase = "scanning" /\ (OutOfBytes \/ OutOfEntries)
  /\ more' = PageMayHaveMore
  /\ phase' = "paged"
  /\ UNCHANGED <<command, traversal, counters, complete, exhausted>>

RunOut ==
  /\ phase = "scanning" /\ (OutOfBytes \/ OutOfEntries)
  /\ exhausted' = TRUE
  /\ more' = PageMayHaveMore
  /\ phase' = "paged"
  /\ UNCHANGED <<command, traversal, counters, complete>>

\* An entry can be read: neither budget is spent.
Readable == phase = "scanning" /\ ~AtEnd /\ ~OutOfBytes /\ ~OutOfEntries

Malformed ==
  /\ Readable /\ Next1 = "bad"
  /\ phase' = "failed"
  /\ UNCHANGED <<command, traversal, counters, stats>>

PassOther ==
  /\ Readable /\ Next1 = "other"
  /\ pos' = pos + 1
  /\ UNCHANGED <<command, phase, traversal, toSkip, decoded, accepted, page, inGroup, stats>>

OpenGroup ==
  /\ Readable /\ Next1 = "group"
  /\ pos' = pos + 1
  /\ decoded' = decoded + 1
  /\ inGroup' = 0
  /\ UNCHANGED <<command, phase, traversal, toSkip, accepted, page, stats>>

\* Slip: hidden entries count as accepted ones.
DropHiddenCounting ==
  /\ Readable /\ Next1 = "hidden"
  /\ pos' = pos + 1
  /\ decoded' = decoded + 1
  /\ accepted' = accepted + 1
  /\ toSkip' = IF toSkip > 0 THEN toSkip - 1 ELSE 0
  /\ UNCHANGED <<command, phase, traversal, page, inGroup, stats>>

\* A node or match that accept refuses: it takes entry budget, never page budget.
DropHidden ==
  /\ Readable /\ Next1 = "hidden"
  /\ pos' = pos + 1
  /\ decoded' = decoded + 1
  /\ UNCHANGED <<command, phase, traversal, toSkip, accepted, page, inGroup, stats>>

\* Room for one more: on the page (ScanLS), in the group (ScanFind).
Room == IF tool = "ls" THEN Cardinality(page) < limit ELSE inGroup < limit

Accepting == Readable /\ Next1 = "shown" /\ accepted' = accepted + 1 /\ decoded' = decoded + 1

SkipShown ==
  /\ Accepting /\ toSkip > 0
  /\ pos' = pos + 1
  /\ toSkip' = toSkip - 1
  /\ UNCHANGED <<command, phase, traversal, page, inGroup, stats>>

KeepShown ==
  /\ Accepting /\ toSkip = 0 /\ Room
  /\ pos' = pos + 1
  /\ page' = page \cup {pos + 1}
  /\ inGroup' = IF tool = "find" THEN inGroup + 1 ELSE inGroup
  /\ UNCHANGED <<command, phase, traversal, toSkip, stats>>

\* One accepted entry beyond the page proves that there is another page.
StopBeyond ==
  /\ Accepting /\ toSkip = 0 /\ ~Room
  /\ more' = TRUE
  /\ phase' = "paged"
  /\ UNCHANGED <<command, traversal, pos, toSkip, page, inGroup, complete, exhausted>>

-----------------------------------------------------------------------------
\* The handler answers; next_cursor is issued when the client may go on.
HasCursor == more /\ page # {}

\* Slip: the entry that proved the next page is taken for shown.
ContinueBeyond ==
  /\ phase = "paged" /\ HasCursor
  /\ phase' = "ready"
  /\ offset' = offset + Cardinality(page) + 1
  /\ listed' = listed \cup page
  /\ UNCHANGED <<command, limit, counters, stats>>

\* Slip: the cursor is issued for the page just shown.
ContinueInPlace ==
  /\ phase = "paged" /\ HasCursor
  /\ phase' = "ready"
  /\ listed' = listed \cup page
  /\ UNCHANGED <<command, offset, limit, counters, stats>>

Continue ==
  /\ phase = "paged" /\ HasCursor
  /\ phase' = "ready"
  /\ offset' = offset + Cardinality(page)
  /\ listed' = listed \cup page
  /\ UNCHANGED <<command, limit, counters, stats>>

Decode ==
  \/ ReachEnd \/ RunOut \/ Malformed \/ PassOther \/ OpenGroup \/ DropHidden
  \/ SkipShown \/ KeepShown \/ StopBeyond

Next == (\E l \in 1..MaxLimit : BeginPage(l)) \/ PageFails \/ Decode \/ Continue

Spec == Init /\ [][Next]_vars

\* A scan goes on; a client that is given a cursor uses it.
FairSpec == Spec /\ WF_vars((\E l \in 1..MaxLimit : BeginPage(l)) \/ Decode \/ Continue)

-----------------------------------------------------------------------------
\* Properties.

ShownUpTo(n) == {i \in 1..n : stream[i] = "shown"}
AllShown == ShownUpTo(Len(stream))

\* Pages neither repeat nor leave out an entry: whatever page sizes the client
\* asks for and however many hidden entries lie between, what has been shown is
\* always an initial part of the visible entries.
PagesAreConsecutive ==
  /\ phase = "paged" => listed \cap page = {}
  /\ phase \in {"paged", "ready"} =>
       \E n \in 0..Len(stream) : listed \cup (IF phase = "paged" THEN page ELSE {}) = ShownUpTo(n)

\* A scan reported complete has shown every visible entry, over all its pages,
\* and the total it publishes is their number.
CompleteMeansAll ==
  phase = "paged" /\ complete => listed \cup page = AllShown /\ accepted = Cardinality(AllShown)

\* Nothing is cut off in silence: a page without a next one either ends the
\* stream or says that a budget was spent.
NothingCutInSilence ==
  phase = "paged" /\ ~HasCursor => complete \/ exhausted

\* The traversal ends, because every page that gives a cursor shows something.
TraversalEnds == <>[](phase \in {"paged", "failed"})

-----------------------------------------------------------------------------
\* What the documentation says and the code does not keep.

\* docs/scan-budgets.md: max_find_results is the page-size ceiling of find_files.
\* ScanFind compares the limit with the current group only.
PageWithinLimit == phase = "paged" => Cardinality(page) <= limit
=============================================================================
