--------------------------- MODULE ListingProofs ---------------------------
(***************************************************************************)
(* Proofs about Listing: the order of the listing and how pages are cut    *)
(* from it, then the invariant of cursors, handlers and traversals.        *)
(***************************************************************************)
EXTENDS Listing, FiniteSetTheorems, TLAPS

Timed == time \in [Ids -> Nat]

(* The listing is in one strict order. *)
LEMMA OrderIsStrict ==
  ASSUME Timed, NEW a \in Ids, NEW b \in Ids
  PROVE  /\ ~Precedes(a, a)
         /\ Precedes(a, b) => ~Precedes(b, a)
         /\ a = b \/ Precedes(a, b) \/ Precedes(b, a)
  BY IdsOrdered DEF Precedes, Timed

LEMMA OrderIsTransitive ==
  ASSUME Timed, NEW a \in Ids, NEW b \in Ids, NEW c \in Ids, Precedes(a, b), Precedes(b, c)
  PROVE  Precedes(a, c)
  BY IdsOrdered DEF Precedes, Timed

Before(S, s) == {u \in S : Precedes(u, s)}

LEMMA RankInRange ==
  ASSUME Timed, NEW S \in SUBSET Ids, NEW s \in S
  PROVE  /\ IsFiniteSet(S) /\ Cardinality(S) \in Nat
         /\ Rank(S, s) \in Nat /\ Rank(S, s) < Cardinality(S)
  <1>1. IsFiniteSet(S)  BY IdsOrdered, FS_Subset
  <1>2. Before(S, s) \in SUBSET S /\ s \notin Before(S, s)  BY OrderIsStrict DEF Before
  <1>3. /\ IsFiniteSet(Before(S, s)) /\ Cardinality(Before(S, s)) <= Cardinality(S)
        /\ Cardinality(S) # Cardinality(Before(S, s))
    BY <1>1, <1>2, FS_Subset
  <1>4. Cardinality(S) \in Nat /\ Cardinality(Before(S, s)) \in Nat
    BY <1>1, <1>3, FS_CardinalityType
  <1> QED  BY <1>1, <1>3, <1>4 DEF Rank, Before

(* The rank of a snapshot grows along the order. *)
LEMMA RankGrows ==
  ASSUME Timed, NEW S \in SUBSET Ids, NEW a \in S, NEW b \in S, Precedes(a, b)
  PROVE  Rank(S, a) < Rank(S, b)
  <1>1. Before(S, a) \in SUBSET Before(S, b)  BY OrderIsTransitive DEF Before
  <1>2. a \in Before(S, b) /\ a \notin Before(S, a)  BY OrderIsStrict DEF Before
  <1>3. IsFiniteSet(Before(S, b))
    <2>1. IsFiniteSet(S)  BY RankInRange
    <2>2. Before(S, b) \in SUBSET S  BY DEF Before
    <2> QED  BY <2>1, <2>2, FS_Subset
  <1>4. /\ Cardinality(Before(S, a)) <= Cardinality(Before(S, b))
        /\ Cardinality(Before(S, a)) # Cardinality(Before(S, b))
    BY <1>1, <1>2, <1>3, FS_Subset
  <1>5. Rank(S, a) \in Nat /\ Rank(S, b) \in Nat  BY RankInRange
  <1> QED  BY <1>4, <1>5 DEF Rank, Before

LEMMA RankOrders ==
  ASSUME Timed, NEW S \in SUBSET Ids, NEW a \in S, NEW b \in S
  PROVE  /\ Precedes(a, b) <=> Rank(S, a) < Rank(S, b)
         /\ a = b <=> Rank(S, a) = Rank(S, b)
  <1>1. Rank(S, a) \in Nat /\ Rank(S, b) \in Nat  BY RankInRange
  <1>2. Precedes(a, b) => Rank(S, a) < Rank(S, b)  BY RankGrows
  <1>3. Precedes(b, a) => Rank(S, b) < Rank(S, a)  BY RankGrows
  <1>4. a = b \/ Precedes(a, b) \/ Precedes(b, a)  BY OrderIsStrict
  <1> QED  BY <1>1, <1>2, <1>3, <1>4

(* Every position of a listing is taken. *)
LEMMA RanksAreTaken ==
  ASSUME Timed, NEW S \in SUBSET Ids, NEW k \in Nat, k < Cardinality(S)
  PROVE  \E s \in S : Rank(S, s) = k
  <1>1. IsFiniteSet(S) /\ Cardinality(S) \in Nat
    <2>1. IsFiniteSet(S)  BY IdsOrdered, FS_Subset
    <2> QED  BY <2>1, FS_CardinalityType
  <1> DEFINE n == Cardinality(S)
             f == [s \in S |-> Rank(S, s) + 1]
  <1>2. f \in Injection(S, 1..n)
    <2>1. f \in [S -> 1..n]  BY <1>1, RankInRange
    <2>2. \A a, b \in S : f[a] = f[b] => a = b
      <3> TAKE a, b \in S
      <3>1. Rank(S, a) \in Nat /\ Rank(S, b) \in Nat  BY RankInRange
      <3>2. a = b <=> Rank(S, a) = Rank(S, b)  BY RankOrders
      <3> QED  BY <3>1, <3>2
    <2> QED  BY <2>1, <2>2 DEF Injection, IsInjective
  <1>3. IsFiniteSet(1..n) /\ Cardinality(1..n) = n
    <2>1. n \in Int /\ 1 \in Int /\ n >= 0  BY <1>1
    <2>2. IsFiniteSet(1..n) /\ Cardinality(1..n) = IF 1 > n THEN 0 ELSE n - 1 + 1
      BY <2>1, FS_Interval
    <2> QED  BY <2>1, <2>2
  <1>4. f \in Surjection(S, 1..n)  BY <1>2, <1>3, FS_Injection
  <1>5. PICK s \in S : f[s] = k + 1
    <2>1. k + 1 \in 1..n  BY <1>1
    <2> QED  BY <1>4, <2>1 DEF Surjection
  <1>6. Rank(S, s) \in Nat  BY RankInRange
  <1> QED  BY <1>5, <1>6

(* A page in order is a sequence of just its snapshots. *)
Sorted(q, S) ==
  /\ q \in [1..Cardinality(S) -> S]
  /\ \A i, j \in 1..Cardinality(S) : i < j => Precedes(q[i], q[j])

LEMMA InOrderSorts ==
  ASSUME Timed, NEW S \in SUBSET Ids
  PROVE  /\ Cardinality(S) \in Nat
         /\ Sorted(InOrder(S), S)
         /\ \A s \in S : \E i \in 1..Cardinality(S) : InOrder(S)[i] = s
  <1> DEFINE n == Cardinality(S)
             at(i) == CHOOSE s \in S : Rank(S, s) = i - 1
             f == [i \in 1..n |-> at(i)]
             q == InOrder(S)
  <1>1. IsFiniteSet(S) /\ n \in Nat
    <2>1. IsFiniteSet(S)  BY IdsOrdered, FS_Subset
    <2> QED  BY <2>1, FS_CardinalityType
  <1>2. ASSUME NEW i \in 1..n PROVE at(i) \in S /\ Rank(S, at(i)) = i - 1
    <2>1. i - 1 \in Nat /\ i - 1 < n  BY <1>1
    <2>2. \E s \in S : Rank(S, s) = i - 1  BY <2>1, RanksAreTaken
    <2> QED  BY <2>2
  <1>3. Sorted(f, S)
    <2>1. f \in [1..n -> S]  BY <1>2
    <2>2. ASSUME NEW i \in 1..n, NEW j \in 1..n, i < j PROVE Precedes(f[i], f[j])
      <3>1. f[i] = at(i) /\ f[j] = at(j)  OBVIOUS
      <3>2. at(i) \in S /\ at(j) \in S /\ Rank(S, at(i)) = i - 1 /\ Rank(S, at(j)) = j - 1
        BY <1>2
      <3>3. i - 1 < j - 1  BY <1>1, <2>2
      <3> HIDE DEF at, f
      <3> QED  BY <3>1, <3>2, <3>3, RankOrders
    <2> QED  BY <2>1, <2>2 DEF Sorted
  <1>4. Sorted(q, S)
    <2> HIDE DEF f
    <2> QED  BY <1>3 DEF Sorted, InOrder
  <1>5. q \in Injection(1..n, S)
    <2>1. ASSUME NEW i \in 1..n, NEW j \in 1..n, q[i] = q[j] PROVE i = j
      <3>1. q[i] \in Ids /\ q[j] \in Ids  BY <1>4 DEF Sorted
      <3>2. ~(i < j) /\ ~(j < i)  BY <1>4, <2>1, <3>1, OrderIsStrict DEF Sorted
      <3> QED  BY <1>1, <3>2
    <2> QED  BY <1>4, <2>1 DEF Sorted, Injection, IsInjective
  <1>6. IsFiniteSet(1..n) /\ Cardinality(1..n) = n
    <2>1. n \in Int /\ 1 \in Int /\ n >= 0  BY <1>1
    <2>2. IsFiniteSet(1..n) /\ Cardinality(1..n) = IF 1 > n THEN 0 ELSE n - 1 + 1
      BY <2>1, FS_Interval
    <2> QED  BY <2>1, <2>2
  <1>7. q \in Surjection(1..n, S)  BY <1>1, <1>5, <1>6, FS_Injection
  <1> QED  BY <1>1, <1>4, <1>7 DEF Surjection

(* Of a page that is not empty there is a last snapshot. *)
LEMMA LastIsLast ==
  ASSUME Timed, NEW S \in SUBSET Ids, S # {}
  PROVE  /\ LastOf(S) \in S
         /\ \A u \in S : u = LastOf(S) \/ Precedes(u, LastOf(S))
  <1>1. PICK any \in S : TRUE  OBVIOUS
  <1>2. Cardinality(S) \in Nat /\ Cardinality(S) > 0
    <2>1. Rank(S, any) \in Nat /\ Rank(S, any) < Cardinality(S) /\ Cardinality(S) \in Nat
      BY RankInRange
    <2> QED  BY <2>1
  <1>3. PICK s \in S : Rank(S, s) = Cardinality(S) - 1
    <2>1. Cardinality(S) - 1 \in Nat /\ Cardinality(S) - 1 < Cardinality(S)  BY <1>2
    <2> QED  BY <2>1, RanksAreTaken
  <1>4. ASSUME NEW u \in S PROVE u = s \/ Precedes(u, s)
    <2>1. Rank(S, u) \in Nat /\ Rank(S, u) < Cardinality(S)  BY RankInRange
    <2>2. Rank(S, u) = Rank(S, s) \/ Rank(S, u) < Rank(S, s)  BY <1>2, <1>3, <2>1
    <2> QED  BY <2>2, RankOrders
  <1> QED  BY <1>4 DEF LastOf

(* A page of n snapshots from a position on: what is not skipped is on the    *)
(* page or comes after all of it, and nothing comes after an empty page.      *)
LEMMA PageIsCut ==
  ASSUME Timed, NEW S \in SUBSET Ids, NEW from \in Nat, NEW n \in Nat \ {0}
  PROVE  LET page == PageOf(S, from, n)
             more == FollowsPage(S, from, n)
         IN  /\ page \subseteq S
             /\ more => page # {} /\ \A p \in page : \E s \in S : Precedes(p, s)
             /\ \A s \in S :
                  \/ Rank(S, s) < from
                  \/ s \in page
                  \/ more /\ \A p \in page : Precedes(p, s)
  <1> DEFINE page == PageOf(S, from, n)
             more == FollowsPage(S, from, n)
  <1>1. page \subseteq S  BY DEF PageOf
  <1>2. ASSUME NEW s \in S, Rank(S, s) >= from + n, NEW p \in page PROVE Precedes(p, s)
    <2>1. p \in S /\ Rank(S, p) < from + n  BY DEF PageOf
    <2>2. Rank(S, p) \in Nat /\ Rank(S, s) \in Nat  BY <2>1, RankInRange
    <2>3. Rank(S, p) < Rank(S, s)  BY <1>2, <2>1, <2>2
    <2> QED  BY <2>1, <2>3, RankOrders
  <1>3. ASSUME more PROVE page # {}
    <2>1. PICK s \in S : Rank(S, s) >= from + n  BY <1>3 DEF FollowsPage
    <2>2. Rank(S, s) \in Nat /\ Rank(S, s) < Cardinality(S) /\ Cardinality(S) \in Nat
      BY RankInRange
    <2>3. from < Cardinality(S)  BY <2>1, <2>2
    <2>4. PICK p \in S : Rank(S, p) = from  BY <2>3, RanksAreTaken
    <2>5. p \in page  BY <2>4 DEF PageOf
    <2> QED  BY <2>5
  <1>4. ASSUME more, NEW p \in page PROVE \E s \in S : Precedes(p, s)
    <2>1. PICK s \in S : Rank(S, s) >= from + n  BY <1>4 DEF FollowsPage
    <2> QED  BY <1>2, <2>1
  <1>5. ASSUME NEW s \in S, ~(Rank(S, s) < from), s \notin page
        PROVE  more /\ \A p \in page : Precedes(p, s)
    <2>1. Rank(S, s) \in Nat  BY RankInRange
    <2>2. Rank(S, s) >= from + n  BY <1>5, <2>1 DEF PageOf
    <2> QED  BY <1>2, <2>2 DEF FollowsPage
  <1>6. more => page # {} /\ \A p \in page : \E s \in S : Precedes(p, s)  BY <1>3, <1>4
  <1>7. \A s \in S : \/ Rank(S, s) < from
                     \/ s \in page
                     \/ more /\ \A p \in page : Precedes(p, s)
    BY <1>5
  <1> QED  BY <1>1, <1>6, <1>7

-----------------------------------------------------------------------------
(* The invariant.                                                            *)
Readings == [stage : {"reading"}, trav : Traversals, last : Ids \cup {None}, from : Nat]
Answerings == [stage : {"answering"}, trav : Traversals, page : SUBSET Ids, more : BOOLEAN,
               from : Nat, at : Nat]

Typed ==
  /\ time \in Times
  /\ repo \subseteq Ids /\ unborn \subseteq Ids /\ repo \cap unborn = {}
  /\ cached \in (SUBSET Ids) \cup {None}
  /\ clock \in 0..MaxClock
  /\ store \subseteq Cursors /\ \A c \in store : c.expires = c.created + TTL
  /\ work \in [Requests -> {Idle} \cup Readings \cup Answerings]
  /\ client \in [Traversals -> {"fresh", "waits", "holds", "busy", "done", "lost"}]
  /\ listed \in [Traversals -> Seq(Ids)]
  /\ stays \in [Traversals -> SUBSET Ids]

\* A handler at work has its client waiting; no two cursors or handlers are of one
\* traversal, nor a cursor and a handler; a traversal not begun has no cursor.
Alone ==
  /\ \A r \in Requests : work[r] # Idle => client[work[r].trav] = "waits"
  /\ \A c, d \in store : c.trav = d.trav => c = d
  /\ \A q, r \in Requests :
       work[q] # Idle /\ work[r] # Idle /\ work[q].trav = work[r].trav => q = r
  /\ \A c \in store, r \in Requests : work[r] # Idle => work[r].trav # c.trav
  /\ \A c \in store : client[c.trav] # "fresh"

Small == IsFiniteSet(store) /\ Cardinality(store) <= MaxCursors

LoneZero == \A a, b \in Ids : time[a] = 0 /\ time[b] = 0 => a = b

\* What was listed ends at the marker, and what stays is listed or lies behind it.
Flush(t, last) ==
  /\ time[last] > 0
  /\ \A i \in DOMAIN listed[t] : listed[t][i] = last \/ Precedes(listed[t][i], last)
  /\ \A s \in stays[t] : s \in Shown(t) \/ Precedes(last, s)

\* The page lies behind what was listed, and what stays is listed, on the page, or
\* behind it with a cursor to come; a page with a cursor is not the last.
PageFlush(t, page, more) ==
  /\ \A i \in DOMAIN listed[t], p \in page : Precedes(listed[t][i], p)
  /\ \A s \in stays[t] : s \in Shown(t) \/ s \in page \/ (more /\ \A p \in page : Precedes(p, s))
  /\ more => page # {} /\ \A p \in page : \E s \in Ids : Precedes(p, s)

CursorsFlush == \A c \in store : client[c.trav] # "lost" => Flush(c.trav, c.last)
ReadersFlush ==
  \A r \in Requests : work[r].stage = "reading" =>
    /\ work[r].last = None => listed[work[r].trav] = <<>>
    /\ work[r].last # None => Flush(work[r].trav, work[r].last)
PagesFlush ==
  \A r \in Requests : work[r].stage = "answering" =>
    PageFlush(work[r].trav, work[r].page, work[r].more)
FreshEmpty == \A t \in Traversals : client[t] = "fresh" => listed[t] = <<>>

Walks ==
  /\ LoneZero /\ CursorsFlush /\ ReadersFlush /\ PagesFlush /\ FreshEmpty
  /\ PagesDescend /\ NothingStableMissed

Inv == Typed /\ Alone /\ Small /\ Walks

LEMMA TypedIsTimed == Typed => Timed
  BY Bounds DEF Typed, Timed

(* What the stage of a handler says of its record. *)
LEMMA WorkShapes ==
  ASSUME Typed, NEW r \in Requests
  PROVE  /\ work[r].stage = "reading" => work[r] \in Readings /\ work[r] # Idle
         /\ work[r].stage = "answering" => work[r] \in Answerings /\ work[r] # Idle
         /\ work[r] # Idle =>
              /\ work[r] \in Readings \cup Answerings
              /\ work[r].trav \in Traversals
              /\ work[r].stage \in {"reading", "answering"}
  <1>1. work[r] \in {Idle} \cup Readings \cup Answerings  BY DEF Typed
  <1> QED  BY <1>1 DEF Idle, Readings, Answerings

(* Steps that touch no traversal. *)
LEMMA StillFlush ==
  ASSUME Alone, Walks, UNCHANGED <<time, store, work, walks>>
  PROVE  Alone' /\ Walks'
  BY DEF Alone, Walks, walks, LoneZero, CursorsFlush, ReadersFlush, PagesFlush, FreshEmpty,
         Flush, PageFlush, PagesDescend, NothingStableMissed, Shown, Precedes

LEMMA QuietKeeps ==
  ASSUME Inv,
         \/ \E s \in Ids : AddSnapshot(s) \/ RemoveSnapshot(s)
         \/ CacheExpires \/ Tick \/ UNCHANGED vars
  PROVE  Inv'
  <1>1. UNCHANGED <<time, store, work, walks>>
    BY DEF AddSnapshot, RemoveSnapshot, CacheExpires, Tick, vars, world
  <1>2. Typed'
    <2>1. /\ repo' \subseteq Ids /\ unborn' \subseteq Ids /\ repo' \cap unborn' = {}
          /\ cached' \in (SUBSET Ids) \cup {None} /\ clock' \in 0..MaxClock
      BY Bounds DEF Inv, Typed, AddSnapshot, RemoveSnapshot, CacheExpires, Tick, vars, world
    <2> QED  BY <1>1, <2>1 DEF Inv, Typed, walks
  <1> QED  BY <1>1, <1>2, StillFlush DEF Inv, Small

LEMMA InitKeeps == Init => Inv
  <1> SUFFICES ASSUME Init PROVE Inv  OBVIOUS
  <1>1. Typed
    <2>1. listed \in [Traversals -> Seq(Ids)]  BY DEF Init
    <2>2. repo \subseteq Ids /\ unborn \subseteq Ids /\ repo \cap unborn = {}  BY DEF Init
    <2> QED  BY <2>1, <2>2, Bounds DEF Init, Typed
  <1>2. Alone  BY DEF Init, Alone, Idle
  <1>3. Small  BY FS_EmptySet, CursorLimits DEF Init, Small
  <1>4. LoneZero
    <2> DEFINE Z == {s \in Ids : time[s] = 0}
    <2>1. IsFiniteSet(Z) /\ Cardinality(Z) \in Nat
      <3>1. Z \in SUBSET Ids  OBVIOUS
      <3>2. IsFiniteSet(Z)  BY <3>1, IdsOrdered, FS_Subset
      <3> QED  BY <3>2, FS_CardinalityType
    <2>2. Cardinality(Z) = 0 \/ Cardinality(Z) = 1
      BY <2>1 DEF Init, ZeroTimeIsUnique
    <2>3. Z = {} \/ \E x : Z = {x}  BY <2>1, <2>2, FS_EmptySet, FS_Singleton
    <2> QED  BY <2>3 DEF LoneZero
  <1>5. CursorsFlush /\ ReadersFlush /\ PagesFlush /\ FreshEmpty
    BY DEF Init, CursorsFlush, ReadersFlush, PagesFlush, FreshEmpty, Idle
  <1>6. PagesDescend /\ NothingStableMissed
    BY DEF Init, PagesDescend, NothingStableMissed
  <1> QED  BY <1>1, <1>2, <1>3, <1>4, <1>5, <1>6 DEF Inv, Walks

LEMMA AskFirstKeeps ==
  ASSUME Inv, NEW r \in Requests, NEW t \in Traversals, NEW from \in 0..MaxOffset,
         AskFirst(r, t, from)
  PROVE  Inv'
  <1> DEFINE item == Reading(t, None, from)
  <1>1. /\ work[r] = Idle /\ client[t] = "fresh"
        /\ client' = [client EXCEPT ![t] = "waits"]
        /\ work' = [work EXCEPT ![r] = item]
        /\ UNCHANGED <<time, repo, unborn, cached, clock, store, listed, stays>>
    BY DEF AskFirst, world
  <1>2. item \in Readings /\ item # Idle /\ item.trav = t /\ item.last = None
        /\ item.stage = "reading"
    BY Bounds DEF Readings, Reading, Idle
  <1>3. Typed'  BY <1>1, <1>2 DEF Inv, Typed
  <1> HIDE DEF item
  <1>4. work \in [Requests -> {Idle} \cup Readings \cup Answerings]
        /\ client \in [Traversals -> {"fresh", "waits", "holds", "busy", "done", "lost"}]
        /\ \A q \in Requests : work[q] # Idle => work[q].trav \in Traversals
        /\ \A c \in store : c.trav \in Traversals
    BY WorkShapes DEF Inv, Typed, Cursors
  <1>5. Alone'  BY <1>1, <1>2, <1>4 DEF Inv, Alone
  <1>6. Small'  BY <1>1 DEF Inv, Small
  <1>7. LoneZero' /\ PagesDescend'
    BY <1>1 DEF Inv, Walks, LoneZero, PagesDescend, Precedes
  <1>8. CursorsFlush'
    BY <1>1, <1>4 DEF Inv, Walks, Alone, CursorsFlush, Flush, Shown, Precedes
  <1>9. ReadersFlush'
    BY <1>1, <1>2, <1>4 DEF Inv, Walks, ReadersFlush, FreshEmpty, Flush, Shown, Precedes
  <1>10. PagesFlush'
    BY <1>1, <1>2, <1>4 DEF Inv, Walks, PagesFlush, PageFlush, Shown, Precedes
  <1>11. FreshEmpty' /\ NothingStableMissed'
    BY <1>1, <1>4 DEF Inv, Walks, FreshEmpty, NothingStableMissed, Shown
  <1> QED  BY <1>3, <1>5, <1>6, <1>7, <1>8, <1>9, <1>10, <1>11 DEF Inv, Walks

LEMMA StoreShrinks ==
  ASSUME Small, store' \subseteq store
  PROVE  Small'
  <1>1. IsFiniteSet(store') /\ Cardinality(store') <= Cardinality(store)
    BY FS_Subset DEF Small
  <1>2. Cardinality(store') \in Nat /\ Cardinality(store) \in Nat
    BY <1>1, FS_CardinalityType DEF Small
  <1> QED  BY <1>1, <1>2, CursorLimits DEF Small

LEMMA TakeKeeps ==
  ASSUME Inv, NEW r \in Requests, NEW c \in store, Take(r, c)
  PROVE  Inv'
  <1> DEFINE t == c.trav
             item == Reading(t, c.last, c.offset)
  <1>1. /\ work[r] = Idle /\ client[t] \in {"holds", "busy", "waits"}
        /\ store' = store \ {c}
        /\ client' = [client EXCEPT ![t] = "waits"]
        /\ work' = [work EXCEPT ![r] = item]
        /\ UNCHANGED <<time, repo, unborn, cached, clock, listed, stays>>
    BY DEF Take, Sendable, world
  <1>2. c \in Cursors /\ t \in Traversals  BY DEF Inv, Typed, Cursors
  <1>3. /\ item \in Readings /\ item # Idle /\ item.trav = t /\ item.last = c.last
        /\ item.stage = "reading" /\ item.last # None
    BY <1>2, NoneApart DEF Cursors, Readings, Reading, Idle
  <1>4. Typed'  BY <1>1, <1>2, <1>3 DEF Inv, Typed
  <1> HIDE DEF item
  <1>5. work \in [Requests -> {Idle} \cup Readings \cup Answerings]
        /\ client \in [Traversals -> {"fresh", "waits", "holds", "busy", "done", "lost"}]
        /\ (\A q \in Requests : work[q] # Idle => work[q].trav \in Traversals)
        /\ \A d \in store : d.trav \in Traversals
    BY WorkShapes DEF Inv, Typed, Cursors
  <1>6. Alone'  BY <1>1, <1>2, <1>3, <1>5 DEF Inv, Alone
  <1>7. Small'  BY <1>1, StoreShrinks DEF Inv
  <1>8. LoneZero' /\ PagesDescend'
    BY <1>1 DEF Inv, Walks, LoneZero, PagesDescend, Precedes
  <1>9. CursorsFlush'
    BY <1>1, <1>5 DEF Inv, Walks, Alone, CursorsFlush, Flush, Shown, Precedes
  <1>10. ReadersFlush'
    <2>1. Flush(t, c.last)  BY <1>1 DEF Inv, Walks, CursorsFlush
    <2>2. \A a, b : Precedes(a, b)' <=> Precedes(a, b)  BY <1>1 DEF Precedes
    <2>3. /\ time' = time /\ stays' = stays /\ listed' = listed
          /\ \A u : Shown(u)' = Shown(u)
      BY <1>1 DEF Shown
    <2>4. \A u, last : Flush(u, last)' <=> Flush(u, last)  BY <2>2, <2>3 DEF Flush
    <2>5. \A q \in Requests : q # r => work'[q] = work[q]  BY <1>1, <1>5
    <2>6. work'[r] = item  BY <1>1, <1>5
    <2>7. ReadersFlush  BY DEF Inv, Walks
    <2> QED  BY <1>3, <2>1, <2>3, <2>4, <2>5, <2>6, <2>7 DEF ReadersFlush
  <1>11. PagesFlush'
    BY <1>1, <1>3, <1>5 DEF Inv, Walks, PagesFlush, PageFlush, Shown, Precedes
  <1>12. FreshEmpty' /\ NothingStableMissed'
    BY <1>1, <1>2, <1>5 DEF Inv, Walks, FreshEmpty, NothingStableMissed, Shown
  <1> QED  BY <1>4, <1>6, <1>7, <1>8, <1>9, <1>10, <1>11, <1>12 DEF Inv, Walks

(* A client that is refused: nothing but its own progress and its cursor. *)
LEMMA LostKeeps ==
  ASSUME Inv, NEW t \in Traversals, client[t] \in {"holds", "busy", "waits"},
         store' \subseteq store, \A r \in Requests : work[r] # Idle => work[r].trav # t,
         client' = [client EXCEPT ![t] = "lost"],
         UNCHANGED <<time, repo, unborn, cached, clock, work, listed, stays>>
  PROVE  Inv'
  <1>1. Typed'  BY DEF Inv, Typed
  <1>2. client \in [Traversals -> {"fresh", "waits", "holds", "busy", "done", "lost"}]
        /\ (\A q \in Requests : work[q] # Idle => work[q].trav \in Traversals)
        /\ \A d \in store : d.trav \in Traversals
    BY WorkShapes DEF Inv, Typed, Cursors
  <1>3. Alone'  BY <1>2 DEF Inv, Alone
  <1>4. Small'  BY StoreShrinks DEF Inv
  <1>5. LoneZero' /\ PagesDescend' /\ ReadersFlush' /\ PagesFlush'
    <2>1. LoneZero' /\ PagesDescend'  BY DEF Inv, Walks, LoneZero, PagesDescend, Precedes
    <2>2. ReadersFlush'  BY DEF Inv, Walks, ReadersFlush, Flush, Shown, Precedes
    <2>3. PagesFlush'  BY DEF Inv, Walks, PagesFlush, PageFlush, Shown, Precedes
    <2> QED  BY <2>1, <2>2, <2>3
  <1>6. CursorsFlush'  BY <1>2 DEF Inv, Walks, CursorsFlush, Flush, Shown, Precedes
  <1>7. FreshEmpty' /\ NothingStableMissed'
    BY <1>2 DEF Inv, Walks, FreshEmpty, NothingStableMissed, Shown
  <1> QED  BY <1>1, <1>3, <1>4, <1>5, <1>6, <1>7 DEF Inv, Walks

LEMMA RefusedKeeps ==
  ASSUME Inv, NEW t \in Traversals,
         TakeUnknown(t) \/ \E c \in store : c.trav = t /\ TakeRefused(c)
  PROVE  Inv'
  <1>1. CASE TakeUnknown(t)
    <2>1. \A r \in Requests : work[r] # Idle => work[r].trav # t
      BY <1>1 DEF TakeUnknown, Inv, Alone
    <2> QED  BY <1>1, <2>1, LostKeeps DEF TakeUnknown, world
  <1>2. ASSUME NEW c \in store, c.trav = t, TakeRefused(c) PROVE Inv'
    <2>1. \A r \in Requests : work[r] # Idle => work[r].trav # t
      BY <1>2 DEF Inv, Alone
    <2> QED  BY <1>2, <2>1, LostKeeps DEF TakeRefused, Sendable, world
  <1> QED  BY <1>1, <1>2

(* A handler that fails: it is idle, its client starts again, sends the spent *)
(* cursor again, or gives up.                                                 *)
LEMMA FailedKeeps ==
  ASSUME Inv, NEW r \in Requests, ReadBusy(r) \/ ReadFails(r)
  PROVE  Inv'
  <1> DEFINE t == work[r].trav
  <1>1. /\ work[r] # Idle /\ work[r].stage = "reading" /\ t \in Traversals
        /\ work' = [work EXCEPT ![r] = Idle]
        /\ UNCHANGED <<time, repo, unborn, cached, clock, store, listed, stays>>
    BY WorkShapes DEF ReadBusy, ReadFails, world, Inv, Idle
  <1>2. PICK p \in {"fresh", "busy", "lost"} :
          /\ client' = [client EXCEPT ![t] = p]
          /\ p = "fresh" => work[r].last = None
    BY DEF ReadBusy, ReadFails
  <1>3. work \in [Requests -> {Idle} \cup Readings \cup Answerings]
        /\ client \in [Traversals -> {"fresh", "waits", "holds", "busy", "done", "lost"}]
        /\ (\A q \in Requests : work[q] # Idle => work[q].trav \in Traversals)
        /\ \A d \in store : d.trav \in Traversals
    BY WorkShapes DEF Inv, Typed, Cursors
  <1>4. client[t] = "waits" /\ Idle.stage = "idle"  BY <1>1 DEF Inv, Alone, Idle
  <1>5. Typed'  BY <1>1, <1>2, <1>3 DEF Inv, Typed
  <1> HIDE DEF t
  <1>6. Alone'
    <2>1. t = work[r].trav  BY DEF t
    <2> QED  BY <1>1, <1>2, <1>3, <2>1 DEF Inv, Alone
  <1>7. Small'  BY <1>1, StoreShrinks DEF Inv
  <1>8. LoneZero' /\ PagesDescend'
    BY <1>1 DEF Inv, Walks, LoneZero, PagesDescend, Precedes
  <1>9. CursorsFlush'
    BY <1>1, <1>2, <1>3, <1>4 DEF Inv, Walks, CursorsFlush, Flush, Shown, Precedes
  <1>10. ReadersFlush' /\ PagesFlush'
    <2>1. ReadersFlush'
      BY <1>1, <1>3, <1>4 DEF Inv, Walks, ReadersFlush, Flush, Shown, Precedes
    <2>2. ASSUME NEW q \in Requests, work'[q].stage = "answering"
          PROVE  PageFlush(work[q].trav, work[q].page, work[q].more)'
      <3>1. work'[q] = work[q]  BY <1>1, <1>3, <1>4, <2>2
      <3>2. PageFlush(work[q].trav, work[q].page, work[q].more)
        BY <2>2, <3>1 DEF Inv, Walks, PagesFlush
      <3> QED  BY <1>1, <3>1, <3>2 DEF PageFlush, Shown, Precedes
    <2> QED  BY <2>1, <2>2 DEF PagesFlush
  <1>11. FreshEmpty'
    <2>1. p = "fresh" => listed[t] = <<>>
      BY <1>1, <1>2 DEF Inv, Walks, ReadersFlush, t
    <2> QED  BY <1>1, <1>2, <1>3, <2>1 DEF Inv, Walks, FreshEmpty
  <1>12. NothingStableMissed'
    BY <1>1, <1>2, <1>3 DEF Inv, Walks, NothingStableMissed, Shown
  <1> QED  BY <1>5, <1>6, <1>7, <1>8, <1>9, <1>10, <1>11, <1>12 DEF Inv, Walks

LEMMA RestartKeeps ==
  ASSUME Inv, Restart
  PROVE  Inv'
  <1>1. /\ store' = {} /\ cached' = None
        /\ work' = [r \in Requests |-> Idle]
        /\ client' = [t \in Traversals |-> IF client[t] = "waits" THEN "lost" ELSE client[t]]
        /\ UNCHANGED <<time, repo, unborn, clock, listed, stays>>
    BY DEF Restart, world
  <1>2. Typed'  BY <1>1 DEF Inv, Typed
  <1>3. Alone'  BY <1>1 DEF Alone
  <1>4. Small'  BY <1>1, StoreShrinks DEF Inv
  <1>5. LoneZero' /\ PagesDescend'
    BY <1>1 DEF Inv, Walks, LoneZero, PagesDescend, Precedes
  <1>6. CursorsFlush' /\ ReadersFlush' /\ PagesFlush'
    BY <1>1 DEF CursorsFlush, ReadersFlush, PagesFlush, Idle
  <1>7. FreshEmpty' /\ NothingStableMissed'
    BY <1>1 DEF Inv, Walks, FreshEmpty, NothingStableMissed, Shown
  <1> QED  BY <1>2, <1>3, <1>4, <1>5, <1>6, <1>7 DEF Inv, Walks

(* Cutting a page: the handler's record and what stays of its traversal.      *)
LEMMA CutKeeps ==
  ASSUME Inv, NEW r \in Requests, NEW n \in 1..MaxPage, NEW listing \in SUBSET Ids,
         work[r].stage = "reading", CutPage(r, listing, n),
         cached' \in (SUBSET Ids) \cup {None},
         UNCHANGED <<time, repo, unborn, clock, store, client, listed>>
  PROVE  Inv'
  <1> DEFINE t == work[r].trav
             last == work[r].last
             begins == last = None
             S == {s \in listing : AfterMarker(last, s)}
             from == IF begins THEN work[r].from ELSE 0
             page == PageOf(S, from, n)
             more == FollowsPage(S, from, n)
             skipped == {s \in S : Rank(S, s) < from}
             item == Answering(t, page, more, work[r].from, clock)
             rest == IF begins THEN listing \ skipped ELSE stays[t] \cap listing
  <1>1. /\ work' = [work EXCEPT ![r] = item]
        /\ stays' = [stays EXCEPT ![t] = rest]
    BY DEF CutPage
  <1>2. /\ work[r] \in Readings /\ work[r] # Idle /\ t \in Traversals
        /\ work[r].from \in Nat /\ last \in Ids \cup {None}
    BY WorkShapes DEF Inv, Readings
  <1>3. from \in Nat /\ n \in Nat \ {0} /\ S \in SUBSET Ids  BY <1>2, CursorLimits
  <1>4. Timed  BY TypedIsTimed DEF Inv
  <1>5. /\ page \subseteq S
        /\ more => page # {} /\ \A p \in page : \E s \in S : Precedes(p, s)
        /\ \A s \in S :
             \/ Rank(S, s) < from
             \/ s \in page
             \/ more /\ \A p \in page : Precedes(p, s)
    <2> HIDE DEF S, from
    <2> QED  BY <1>3, <1>4, PageIsCut
  <1>6. page \in SUBSET Ids /\ more \in BOOLEAN /\ clock \in Nat /\ rest \in SUBSET Ids
    <2>1. page \in SUBSET Ids  BY <1>3, <1>5
    <2>2. more \in BOOLEAN  BY DEF FollowsPage
    <2>3. clock \in Nat  BY Bounds DEF Inv, Typed
    <2>4. rest \in SUBSET Ids  OBVIOUS
    <2> QED  BY <2>1, <2>2, <2>3, <2>4
  <1> HIDE DEF page, more, rest
  <1>7. /\ item \in Answerings /\ item.stage = "answering" /\ item # Idle
        /\ item.trav = t /\ item.page = page /\ item.more = more
    BY <1>2, <1>6 DEF Answering, Answerings, Idle
  <1> HIDE DEF item
  <1>8. Typed'  BY <1>1, <1>2, <1>6, <1>7 DEF Inv, Typed
  <1>9. work \in [Requests -> {Idle} \cup Readings \cup Answerings]
        /\ stays \in [Traversals -> SUBSET Ids]
        /\ (\A q \in Requests : work[q] # Idle => work[q].trav \in Traversals)
        /\ \A d \in store : d.trav \in Traversals
    BY WorkShapes DEF Inv, Typed, Cursors
  <1>10. /\ \A q \in Requests : q # r /\ work[q] # Idle => work[q].trav # t
         /\ \A d \in store : d.trav # t
         /\ client[t] = "waits"
    BY <1>2 DEF Inv, Alone
  <1>11. Alone'  BY <1>1, <1>2, <1>7, <1>9 DEF Inv, Alone
  <1>12. Small'  BY StoreShrinks DEF Inv
  <1>13. LoneZero' /\ PagesDescend' /\ FreshEmpty'
    BY DEF Inv, Walks, LoneZero, PagesDescend, FreshEmpty, Precedes
  <1>14. CursorsFlush'
    BY <1>1, <1>9, <1>10 DEF Inv, Walks, CursorsFlush, Flush, Shown, Precedes
  <1>15. ReadersFlush'
    <2>1. \A q \in Requests : q # r /\ work[q].stage = "reading" => work[q].trav # t
      BY <1>10, WorkShapes DEF Inv
    <2> QED
      BY <1>1, <1>7, <1>9, <2>1 DEF Inv, Walks, ReadersFlush, Flush, Shown, Precedes
  <1>16. /\ \A i \in DOMAIN listed[t], p \in page : Precedes(listed[t][i], p)
         /\ \A s \in rest :
              s \in Shown(t) \/ s \in page \/ (more /\ \A p \in page : Precedes(p, s))
         /\ more => page # {} /\ \A p \in page : \E s \in Ids : Precedes(p, s)
    <2>1. more => page # {} /\ \A p \in page : \E s \in Ids : Precedes(p, s)
      BY <1>3, <1>5
    <2>2. CASE begins
      <3>1. listed[t] = <<>>  BY <2>2 DEF Inv, Walks, ReadersFlush
      <3>2. S = listing  BY <2>2 DEF AfterMarker, NoMarker
      <3>3. ASSUME NEW s \in rest PROVE s \in S /\ ~(Rank(S, s) < from)
        BY <2>2, <3>2, <3>3 DEF rest
      <3>4. \A s \in rest : s \in page \/ (more /\ \A p \in page : Precedes(p, s))
        <4> HIDE DEF S, from
        <4> QED  BY <1>5, <3>3
      <3>5. \A i \in DOMAIN listed[t], p \in page : Precedes(listed[t][i], p)
        BY <3>1
      <3> QED  BY <2>1, <3>4, <3>5
    <2>3. CASE ~begins
      <3>1. Flush(t, last)  BY <2>3 DEF Inv, Walks, ReadersFlush
      <3>2. ~NoMarker(last) /\ last \in Ids
        BY <1>2, <1>4, <2>3, <3>1 DEF NoMarker, Flush, Timed
      <3>3. ASSUME NEW i \in DOMAIN listed[t], NEW p \in page PROVE Precedes(listed[t][i], p)
        <4>1. p \in Ids /\ Precedes(last, p)  BY <1>5, <3>2 DEF AfterMarker
        <4>2. listed[t][i] \in Ids  BY <1>2 DEF Inv, Typed
        <4>3. listed[t][i] = last \/ Precedes(listed[t][i], last)  BY <3>1 DEF Flush
        <4> QED  BY <1>4, <3>2, <4>1, <4>2, <4>3, OrderIsTransitive
      <3>4. ASSUME NEW s \in rest, s \notin Shown(t)
            PROVE  s \in page \/ (more /\ \A p \in page : Precedes(p, s))
        <4>1. s \in stays[t] /\ s \in listing  BY <2>3 DEF rest
        <4>2. Precedes(last, s)  BY <3>1, <3>4, <4>1 DEF Flush
        <4>3. s \in S  BY <4>1, <4>2 DEF AfterMarker
        <4>4. Rank(S, s) \in Nat
          <5> HIDE DEF S
          <5> QED  BY <1>3, <1>4, <4>3, RankInRange
        <4>5. ~(Rank(S, s) < from)
          <5> HIDE DEF S
          <5> QED  BY <2>3, <4>4
        <4> QED  BY <1>5, <4>3, <4>5
      <3> QED  BY <2>1, <3>3, <3>4
    <2> QED  BY <2>2, <2>3
  <1>17. PagesFlush'
    <2>1. \A q \in Requests : q # r /\ work[q].stage = "answering" => work[q].trav # t
      BY <1>10, WorkShapes DEF Inv
    <2>2. ASSUME NEW q \in Requests, work'[q].stage = "answering"
          PROVE  PageFlush(work[q].trav, work[q].page, work[q].more)'
      <3>1. CASE q = r
        <4>1. work'[q].trav = t /\ work'[q].page = page /\ work'[q].more = more
          BY <1>1, <1>7, <1>9, <3>1
        <4>2. stays'[t] = rest  BY <1>1, <1>2, <1>9
        <4> QED  BY <1>16, <4>1, <4>2 DEF PageFlush, Shown, Precedes
      <3>2. CASE q # r
        <4>1. work'[q] = work[q] /\ stays'[work[q].trav] = stays[work[q].trav]
          BY <1>1, <1>9, <2>1, <2>2, <3>2
        <4>2. PageFlush(work[q].trav, work[q].page, work[q].more)
          BY <2>2, <4>1 DEF Inv, Walks, PagesFlush
        <4> QED  BY <4>1, <4>2 DEF PageFlush, Shown, Precedes
      <3> QED  BY <3>1, <3>2
    <2> QED  BY <2>2 DEF PagesFlush
  <1>18. NothingStableMissed'
    BY <1>1, <1>9, <1>10 DEF Inv, Walks, NothingStableMissed, Shown
  <1> QED
    BY <1>8, <1>11, <1>12, <1>13, <1>14, <1>15, <1>17, <1>18 DEF Inv, Walks

LEMMA ReadKeeps ==
  ASSUME Inv, NEW r \in Requests, NEW n \in 1..MaxPage, ReadRepository(r, n) \/ ReadCached(r, n)
  PROVE  Inv'
  <1>1. CASE ReadRepository(r, n)
    <2>1. repo \in SUBSET Ids /\ cached' \in (SUBSET Ids) \cup {None}
      BY <1>1 DEF ReadRepository, Inv, Typed
    <2> QED  BY <1>1, <2>1, CutKeeps DEF ReadRepository, world
  <1>2. CASE ReadCached(r, n)
    <2>1. cached \in SUBSET Ids /\ cached' \in (SUBSET Ids) \cup {None}
      BY <1>2 DEF ReadCached, Inv, Typed
    <2> QED  BY <1>2, <2>1, CutKeeps DEF ReadCached, world
  <1> QED  BY <1>1, <1>2

-----------------------------------------------------------------------------
(* Issuing a cursor makes room for it.                                        *)
LEMMA StoredFits ==
  ASSUME Small, NEW c, NEW now, Stored(c, now)
  PROVE  /\ Small'
         /\ c \in store' /\ store' \subseteq store \cup {c}
  <1> DEFINE kept == Unexpired(now)
  <1>1. kept \subseteq store  BY DEF Unexpired
  <1>2. IsFiniteSet(kept) /\ Cardinality(kept) <= Cardinality(store)
    BY <1>1, FS_Subset DEF Small
  <1>3. Cardinality(kept) \in Nat /\ Cardinality(kept) <= MaxCursors
    <2>1. Cardinality(kept) \in Nat /\ Cardinality(store) \in Nat
      BY <1>2, FS_CardinalityType DEF Small
    <2> QED  BY <1>2, <2>1, CursorLimits DEF Small
  <1> HIDE DEF kept
  <1>4. CASE Cardinality(kept) < MaxCursors /\ store' = kept \cup {c}
    <2>1. /\ IsFiniteSet(kept \cup {c})
          /\ Cardinality(kept \cup {c}) =
               IF c \in kept THEN Cardinality(kept) ELSE Cardinality(kept) + 1
      BY <1>2, FS_AddElement
    <2>2. Cardinality(kept \cup {c}) <= MaxCursors  BY <1>3, <1>4, <2>1, CursorLimits
    <2> QED  BY <1>1, <1>4, <2>1, <2>2 DEF Small
  <1>5. ASSUME NEW old \in kept, store' = (kept \ {old}) \cup {c} PROVE Small'
    <2>1. /\ IsFiniteSet(kept \ {old})
          /\ Cardinality(kept \ {old}) = Cardinality(kept) - 1
      BY <1>2, FS_RemoveElement
    <2>2. /\ IsFiniteSet((kept \ {old}) \cup {c})
          /\ Cardinality((kept \ {old}) \cup {c}) =
               IF c \in kept \ {old} THEN Cardinality(kept \ {old})
               ELSE Cardinality(kept \ {old}) + 1
      BY <2>1, FS_AddElement
    <2>3. Cardinality((kept \ {old}) \cup {c}) <= MaxCursors
      BY <1>3, <2>1, <2>2, CursorLimits
    <2> QED  BY <1>5, <2>2, <2>3 DEF Small
  <1>6. \/ Cardinality(kept) < MaxCursors /\ store' = kept \cup {c}
        \/ \E old \in kept : store' = (kept \ {old}) \cup {c}
    BY DEF Stored, Oldest, kept
  <1> QED  BY <1>1, <1>4, <1>5, <1>6

LEMMA ConcatFacts ==
  ASSUME NEW S, NEW a \in Seq(S), NEW b \in Seq(S)
  PROVE  /\ a \o b \in Seq(S)
         /\ DOMAIN (a \o b) = 1..(Len(a) + Len(b))
         /\ \A i \in 1..Len(a) : (a \o b)[i] = a[i]
         /\ \A i \in 1..Len(b) : (a \o b)[Len(a) + i] = b[i]
  <1>1. a \o b \in Seq(S) /\ Len(a \o b) = Len(a) + Len(b)  OBVIOUS
  <1>2. DOMAIN (a \o b) = 1..(Len(a) + Len(b))  BY <1>1
  <1>3. \A i \in 1..Len(a) : (a \o b)[i] = a[i]  OBVIOUS
  <1>4. ASSUME NEW i \in 1..Len(b) PROVE (a \o b)[Len(a) + i] = b[i]  OBVIOUS
  <1> QED  BY <1>1, <1>2, <1>3, <1>4

(* A position in a joined sequence is in one part or the other.               *)
LEMMA TwoParts ==
  ASSUME NEW m \in Nat, NEW n \in Nat, NEW i \in 1..(m + n)
  PROVE  i \in 1..m \/ \E k \in 1..n : i = m + k
  <1>1. CASE i <= m  BY <1>1
  <1>2. CASE i > m
    <2>1. i - m \in 1..n /\ i = m + (i - m)  BY <1>2
    <2> QED  BY <2>1
  <1> QED  BY <1>1, <1>2

Descends(q) == \A i, j \in DOMAIN q : i < j => Precedes(q[i], q[j])
Behind(q, page) == \A i \in DOMAIN q, p \in page : Precedes(q[i], p)
Grown(longer, t, page) ==
  /\ longer \in Seq(Ids) /\ Descends(longer)
  /\ \A i \in DOMAIN longer : longer[i] \in Shown(t) \cup page
  /\ \A s \in Shown(t) \cup page : \E i \in DOMAIN longer : longer[i] = s

(* A page put behind what was listed keeps the order.                         *)
LEMMA ListedGrows ==
  ASSUME Timed, NEW t \in Traversals, NEW page \in SUBSET Ids, listed[t] \in Seq(Ids),
         Descends(listed[t]), Behind(listed[t], page),
         NEW longer, longer = listed[t] \o InOrder(page)
  PROVE  Grown(longer, t, page)
  <1> DEFINE q == InOrder(page)
             n == Cardinality(page)
             old == listed[t]
             m == Len(old)
  <1>1. /\ n \in Nat /\ q \in [1..n -> page]
        /\ \A i, j \in 1..n : i < j => Precedes(q[i], q[j])
        /\ \A s \in page : \E i \in 1..n : q[i] = s
    BY InOrderSorts DEF Sorted
  <1> HIDE DEF q, n
  <1>2. q \in Seq(Ids) /\ Len(q) = n  BY <1>1
  <1>3. m \in Nat /\ DOMAIN old = 1..m  OBVIOUS
  <1>4. /\ longer \in Seq(Ids) /\ DOMAIN longer = 1..(m + n)
        /\ \A i \in 1..m : longer[i] = old[i]
        /\ \A i \in 1..n : longer[m + i] = q[i]
    <2>1. longer = old \o q  BY DEF q
    <2> HIDE DEF old
    <2>2. old \in Seq(Ids)  BY DEF old
    <2> QED  BY <1>2, <2>1, <2>2, ConcatFacts
  <1>5. /\ \A i, j \in 1..m : i < j => Precedes(old[i], old[j])
        /\ \A i \in 1..m, p \in page : Precedes(old[i], p)
        /\ Shown(t) = {old[i] : i \in 1..m}
    BY <1>3 DEF Shown, Descends, Behind
  <1> HIDE DEF m, old
  <1>6. ASSUME NEW i \in 1..(m + n), NEW j \in 1..(m + n), i < j
        PROVE  Precedes(longer[i], longer[j])
    <2>1. CASE j \in 1..m
      <3>1. i \in 1..m  BY <1>1, <1>3, <1>6, <2>1
      <3> QED  BY <1>4, <1>5, <1>6, <2>1, <3>1
    <2>2. ASSUME NEW k \in 1..n, j = m + k, i \in 1..m PROVE Precedes(longer[i], longer[j])
      <3>1. q[k] \in page  BY <1>1
      <3> QED  BY <1>4, <1>5, <2>2, <3>1
    <2>3. ASSUME NEW h \in 1..n, i = m + h, NEW k \in 1..n, j = m + k
          PROVE  Precedes(longer[i], longer[j])
      <3>1. h < k  BY <1>1, <1>3, <1>6, <2>3
      <3> QED  BY <1>1, <1>4, <2>3, <3>1
    <2>4. n \in Nat /\ m \in Nat  BY <1>1, <1>3
    <2>5. i \in 1..m \/ \E k \in 1..n : i = m + k  BY <2>4, TwoParts
    <2>6. j \in 1..m \/ \E k \in 1..n : j = m + k  BY <2>4, TwoParts
    <2> QED  BY <2>1, <2>2, <2>3, <2>5, <2>6
  <1>7. ASSUME NEW i \in 1..(m + n) PROVE longer[i] \in Shown(t) \cup page
    <2>1. n \in Nat /\ m \in Nat  BY <1>1, <1>3
    <2>2. i \in 1..m \/ \E k \in 1..n : i = m + k  BY <2>1, TwoParts
    <2>3. CASE i \in 1..m  BY <1>4, <1>5, <2>3
    <2>4. ASSUME NEW k \in 1..n, i = m + k PROVE longer[i] \in page
      <3>1. q[k] \in page  BY <1>1
      <3> QED  BY <1>4, <2>4, <3>1
    <2> QED  BY <2>2, <2>3, <2>4
  <1>8. ASSUME NEW s \in Shown(t) \cup page PROVE \E i \in 1..(m + n) : longer[i] = s
    <2>1. CASE s \in Shown(t)
      <3>1. PICK i \in 1..m : old[i] = s  BY <1>5, <2>1
      <3>2. i \in 1..(m + n)  BY <1>1, <1>3
      <3> QED  BY <1>4, <3>1, <3>2
    <2>2. CASE s \in page
      <3>1. PICK i \in 1..n : q[i] = s  BY <1>1, <2>2
      <3>2. m + i \in 1..(m + n)  BY <1>1, <1>3
      <3> QED  BY <1>4, <3>1, <3>2
    <2> QED  BY <2>1, <2>2
  <1> QED  BY <1>4, <1>6, <1>7, <1>8 DEF Grown, Descends

(* The page is sent: what was listed grows by it, and the cursor, if one is    *)
(* issued, marks its last snapshot.                                           *)
LEMMA AnswerKeeps ==
  ASSUME Inv, NEW r \in Requests, NEW now \in 0..MaxClock, NEW fits \in BOOLEAN,
         Answer(r, now, fits)
  PROVE  Inv'
  <1> DEFINE t == work[r].trav
             page == work[r].page
             goesOn == work[r].more /\ page # {}
             c == NextCursor(r, now)
             longer == listed[t] \o InOrder(page)
             end == IF ~fits THEN "lost" ELSE IF goesOn THEN "holds" ELSE "done"
  <1>1. /\ work[r].stage = "answering"
        /\ IF goesOn THEN Stored(c, now) ELSE store' = store
        /\ listed' = IF fits THEN [listed EXCEPT ![t] = longer] ELSE listed
        /\ client' = [client EXCEPT ![t] = end]
        /\ work' = [work EXCEPT ![r] = Idle]
        /\ UNCHANGED <<time, repo, unborn, cached, clock, stays>>
    BY DEF Answer, world
  <1>2. /\ work[r] # Idle /\ t \in Traversals /\ page \in SUBSET Ids
        /\ work[r].more \in BOOLEAN /\ work[r].from \in Nat
    BY <1>1, WorkShapes DEF Inv, Answerings
  <1>3. Timed  BY TypedIsTimed DEF Inv
  <1>4. PageFlush(t, page, work[r].more)  BY <1>1 DEF Inv, Walks, PagesFlush
  <1>5. goesOn => /\ c \in Cursors /\ c.trav = t /\ c.expires = c.created + TTL
                  /\ c.last = LastOf(page) /\ LastOf(page) \in page
                  /\ \A p \in page : p = LastOf(page) \/ Precedes(p, LastOf(page))
    <2> SUFFICES ASSUME goesOn
                 PROVE  /\ c \in Cursors /\ c.trav = t /\ c.expires = c.created + TTL
                        /\ c.last = LastOf(page) /\ LastOf(page) \in page
                        /\ \A p \in page : p = LastOf(page) \/ Precedes(p, LastOf(page))
      OBVIOUS
    <2>1. /\ LastOf(page) \in page
          /\ \A p \in page : p = LastOf(page) \/ Precedes(p, LastOf(page))
      <3> HIDE DEF page
      <3> QED  BY <1>2, <1>3, LastIsLast DEF page
    <2>2. Cardinality(page) \in Nat
      <3>1. IsFiniteSet(page)  BY <1>2, IdsOrdered, FS_Subset
      <3> QED  BY <3>1, FS_CardinalityType
    <2>3. now \in Nat /\ now + TTL \in Nat /\ work[r].from + Cardinality(page) \in Nat
      BY <1>2, <2>2, CursorLimits, Bounds
    <2>4. LastOf(page) \in Ids  BY <1>2, <2>1
    <2> QED  BY <1>2, <2>1, <2>3, <2>4 DEF NextCursor, Cursors
  <1> HIDE DEF c
  <1>6. /\ Small'
        /\ IF goesOn THEN c \in store' /\ store' \subseteq store \cup {c} ELSE store' = store
    BY <1>1, StoredFits, StoreShrinks DEF Inv
  <1>7. Grown(longer, t, page)
    <2>1. listed[t] \in Seq(Ids)  BY <1>2 DEF Inv, Typed
    <2>2. Descends(listed[t])  BY <1>2 DEF Inv, Walks, PagesDescend, Descends
    <2>3. Behind(listed[t], page)  BY <1>4 DEF PageFlush, Behind
    <2>4. longer = listed[t] \o InOrder(page)  OBVIOUS
    <2> HIDE DEF page, t, longer
    <2> QED  BY <1>2, <1>3, <2>1, <2>2, <2>3, <2>4, ListedGrows
  <1> HIDE DEF longer
  <1>8. Typed'
    <2>1. store' \subseteq Cursors /\ \A d \in store' : d.expires = d.created + TTL
      BY <1>5, <1>6 DEF Inv, Typed
    <2>2. listed' \in [Traversals -> Seq(Ids)]  BY <1>1, <1>2, <1>7 DEF Inv, Typed, Grown
    <2>3. client' \in [Traversals -> {"fresh", "waits", "holds", "busy", "done", "lost"}]
      BY <1>1 DEF Inv, Typed
    <2>4. work' \in [Requests -> {Idle} \cup Readings \cup Answerings]
      BY <1>1 DEF Inv, Typed
    <2> QED  BY <1>1, <2>1, <2>2, <2>3, <2>4 DEF Inv, Typed
  <1>9. /\ \A q \in Requests : q # r /\ work[q] # Idle => work[q].trav # t
        /\ \A d \in store : d.trav # t
        /\ client[t] = "waits"
    BY <1>2 DEF Inv, Alone
  <1>10. /\ \A u \in Traversals : u # t => listed'[u] = listed[u] /\ client'[u] = client[u]
         /\ client'[t] = end
         /\ listed'[t] = IF fits THEN longer ELSE listed[t]
         /\ work'[r] = Idle /\ \A q \in Requests : q # r => work'[q] = work[q]
    BY <1>1, <1>2 DEF Inv, Typed
  <1>11. \A d \in store' : (d \in store /\ d.trav \in Traversals) \/ (goesOn /\ d = c /\ d.trav = t)
    BY <1>5, <1>6 DEF Inv, Typed, Cursors
  <1>12. /\ \A q \in Requests : work'[q] # Idle =>
               q # r /\ work'[q] = work[q] /\ work[q].trav \in Traversals /\ work[q].trav # t
         /\ Idle.stage = "idle"
    BY <1>9, <1>10, WorkShapes DEF Inv, Idle
  <1> HIDE DEF t
  <1>13. Alone'
    <2>1. \A q \in Requests : work'[q] # Idle => client'[work'[q].trav] = "waits"
      BY <1>10, <1>12 DEF Inv, Alone
    <2>2. \A d, e \in store' : d.trav = e.trav => d = e
      BY <1>9, <1>11 DEF Inv, Alone
    <2>3. \A p, q \in Requests :
            work'[p] # Idle /\ work'[q] # Idle /\ work'[p].trav = work'[q].trav => p = q
      BY <1>12 DEF Inv, Alone
    <2>4. \A d \in store', q \in Requests : work'[q] # Idle => work'[q].trav # d.trav
      BY <1>11, <1>12 DEF Inv, Alone
    <2>5. \A d \in store' : client'[d.trav] # "fresh"
      BY <1>9, <1>10, <1>11 DEF Inv, Alone
    <2> QED  BY <2>1, <2>2, <2>3, <2>4, <2>5 DEF Alone
  <1>14. LoneZero'  BY <1>1 DEF Inv, Walks, LoneZero
  <1>15. CursorsFlush'
    <2>1. ASSUME NEW d \in store', client'[d.trav] # "lost" PROVE Flush(d.trav, d.last)'
      <3>1. CASE d \in store /\ d.trav \in Traversals
        <4>1. Flush(d.trav, d.last)
          BY <1>9, <1>10, <2>1, <3>1 DEF Inv, Walks, CursorsFlush
        <4>2. listed'[d.trav] = listed[d.trav]  BY <1>9, <1>10, <3>1
        <4> QED  BY <1>1, <4>1, <4>2 DEF Flush, Shown, Precedes
      <3>2. CASE goesOn /\ d = c /\ d.trav = t
        <4>1. fits /\ listed'[t] = longer  BY <1>10, <2>1, <3>2
        <4>2. /\ d.last \in page /\ d.last \in Ids
              /\ \A p \in page : p = d.last \/ Precedes(p, d.last)
          BY <1>2, <1>5, <3>2
        <4>3. time[d.last] > 0
          <5>1. PICK s \in Ids : Precedes(d.last, s)  BY <1>4, <3>2, <4>2 DEF PageFlush
          <5>2. ~(time[d.last] = 0 /\ time[s] = 0)
            BY <1>3, <4>2, <5>1, OrderIsStrict DEF Inv, Walks, LoneZero
          <5> QED  BY <1>3, <4>2, <5>1, <5>2 DEF Precedes, Timed
        <4>4. ASSUME NEW i \in DOMAIN longer
              PROVE  longer[i] = d.last \/ Precedes(longer[i], d.last)
          <5>1. CASE longer[i] \in page  BY <4>2, <5>1
          <5>2. CASE longer[i] \in Shown(t)
            BY <1>4, <4>2, <5>2 DEF PageFlush, Shown, t
          <5> QED  BY <1>7, <5>1, <5>2 DEF t, Grown
        <4>5. ASSUME NEW s \in stays[t], \A i \in DOMAIN longer : longer[i] # s
              PROVE  Precedes(d.last, s)
          <5>1. s \notin Shown(t) /\ s \notin page  BY <1>7, <4>5 DEF t, Grown
          <5> QED  BY <1>4, <4>2, <5>1 DEF PageFlush, t
        <4> QED
          BY <1>1, <3>2, <4>1, <4>3, <4>4, <4>5 DEF Flush, Shown, Precedes
      <3> QED  BY <1>11, <3>1, <3>2
    <2> QED  BY <2>1 DEF CursorsFlush
  <1>16. ReadersFlush'
    <2>1. ASSUME NEW q \in Requests, work'[q].stage = "reading"
          PROVE  /\ work'[q] = work[q] /\ listed'[work[q].trav] = listed[work[q].trav]
                 /\ work[q].last = None => listed[work[q].trav] = <<>>
                 /\ work[q].last # None => Flush(work[q].trav, work[q].last)
      BY <1>10, <1>12, <2>1 DEF Inv, Walks, ReadersFlush
    <2>2. ASSUME NEW q \in Requests, work'[q].stage = "reading", work[q].last # None
          PROVE  Flush(work[q].trav, work[q].last)'
      <3>1. /\ work'[q] = work[q] /\ listed'[work[q].trav] = listed[work[q].trav]
            /\ Flush(work[q].trav, work[q].last)
        BY <2>1, <2>2
      <3>2. \A a, b : Precedes(a, b)' <=> Precedes(a, b)  BY <1>1 DEF Precedes
      <3>3. time' = time /\ stays' = stays /\ Shown(work[q].trav)' = Shown(work[q].trav)
        BY <1>1, <3>1 DEF Shown
      <3> QED  BY <3>1, <3>2, <3>3 DEF Flush
    <2> QED  BY <2>1, <2>2 DEF ReadersFlush
  <1>17. PagesFlush'
    <2>1. ASSUME NEW q \in Requests, work'[q].stage = "answering"
          PROVE  PageFlush(work[q].trav, work[q].page, work[q].more)'
      <3>1. work'[q] = work[q] /\ listed'[work[q].trav] = listed[work[q].trav]
        BY <1>10, <1>12, <2>1
      <3>2. PageFlush(work[q].trav, work[q].page, work[q].more)
        BY <2>1, <3>1 DEF Inv, Walks, PagesFlush
      <3>3. \A a, b : Precedes(a, b)' <=> Precedes(a, b)  BY <1>1 DEF Precedes
      <3>4. stays' = stays /\ Shown(work[q].trav)' = Shown(work[q].trav)
        BY <1>1, <3>1 DEF Shown
      <3> QED  BY <3>1, <3>2, <3>3, <3>4 DEF PageFlush
    <2> QED  BY <2>1 DEF PagesFlush
  <1>18. FreshEmpty'  BY <1>10 DEF Inv, Walks, FreshEmpty
  <1>19. PagesDescend'
    <2>1. ASSUME NEW u \in Traversals, NEW i \in DOMAIN listed'[u], NEW j \in DOMAIN listed'[u], i < j
          PROVE  Precedes(listed[u][i], listed[u][j])'
      <3>1. CASE u = t /\ fits
        BY <1>1, <1>7, <1>10, <2>1, <3>1 DEF Precedes, Grown, Descends
      <3>2. CASE u # t \/ ~fits
        <4>1. listed'[u] = listed[u]  BY <1>10, <3>2
        <4> QED  BY <1>1, <2>1, <4>1 DEF Inv, Walks, PagesDescend, Precedes
      <3> QED  BY <3>1, <3>2
    <2> QED  BY <2>1 DEF PagesDescend
  <1>20. NothingStableMissed'
    <2>1. ASSUME NEW u \in Traversals, client'[u] = "done", NEW s \in stays[u]
          PROVE  \E i \in DOMAIN listed'[u] : listed'[u][i] = s
      <3>1. CASE u = t
        <4>1. fits /\ ~goesOn /\ listed'[t] = longer  BY <1>10, <2>1, <3>1
        <4>2. s \in Shown(t) \cup page  BY <1>4, <2>1, <3>1, <4>1 DEF PageFlush, t
        <4> QED  BY <1>7, <3>1, <4>1, <4>2 DEF t, Grown
      <3>2. CASE u # t
        <4>1. s \in Shown(u) /\ listed'[u] = listed[u]
          BY <1>10, <2>1, <3>2 DEF Inv, Walks, NothingStableMissed
        <4> QED  BY <4>1 DEF Shown
      <3> QED  BY <3>1, <3>2
    <2> QED  BY <1>1, <2>1 DEF NothingStableMissed, Shown
  <1> QED
    BY <1>6, <1>8, <1>13, <1>14, <1>15, <1>16, <1>17, <1>18, <1>19, <1>20 DEF Inv, Walks

(* Inv is inductive: at most one cursor or handler of each traversal carries  *)
(* a marker, and every marker is flush with what its client has been shown.    *)
THEOREM InvHolds == Spec => []Inv
  <1>1. Inv /\ [Next]_vars => Inv'
    <2> SUFFICES ASSUME Inv, [Next]_vars PROVE Inv'  OBVIOUS
    <2>1. ASSUME NEW r \in Requests, NEW t \in Traversals, NEW from \in 0..MaxOffset,
                 AskFirst(r, t, from)
          PROVE  Inv'
      BY <2>1, AskFirstKeeps
    <2>2. ASSUME NEW t \in Traversals, Send(t) PROVE Inv'
      <3>1. ASSUME NEW c \in store, NEW r \in Requests, Take(r, c) PROVE Inv'
        BY <3>1, TakeKeeps
      <3>2. CASE TakeUnknown(t) \/ \E c \in store : c.trav = t /\ TakeRefused(c)
        BY <3>2, RefusedKeeps
      <3> QED  BY <2>2, <3>1, <3>2 DEF Send
    <2>3. ASSUME NEW r \in Requests, Handle(r) PROVE Inv'
      <3>1. ASSUME NEW n \in 1..MaxPage, ReadRepository(r, n) \/ ReadCached(r, n) PROVE Inv'
        BY <3>1, ReadKeeps
      <3>2. CASE ReadBusy(r) \/ ReadFails(r)  BY <3>2, FailedKeeps
      <3>3. ASSUME NEW now \in 0..MaxClock, NEW fits \in BOOLEAN, Answer(r, now, fits) PROVE Inv'
        BY <3>3, AnswerKeeps
      <3> QED  BY <2>3, <3>1, <3>2, <3>3 DEF Handle
    <2>4. CASE World \/ UNCHANGED vars  BY <2>4, QuietKeeps, RestartKeeps DEF World
    <2> QED  BY <2>1, <2>2, <2>3, <2>4 DEF Next
  <1> QED  BY <1>1, InitKeeps, PTL DEF Spec

(* The types the runs check hold in every instance: a handler at work has its *)
(* client waiting, whatever is resent, refused, retried or restarted.         *)
THEOREM Typing == Spec => []TypeOK
  <1>1. Inv => TypeOK
    <2> SUFFICES ASSUME Inv PROVE TypeOK  OBVIOUS
    <2>1. \A r \in Requests : work[r] = Idle \/ (work[r].stage \in {"reading", "answering"}
                                                 /\ client[work[r].trav] = "waits")
      BY WorkShapes DEF Inv, Alone
    <2>2. \A t \in Traversals : listed[t] \in Seq(Ids)  BY DEF Inv, Typed
    <2> QED  BY <2>1, <2>2 DEF Inv, Typed, TypeOK
  <1> QED  BY <1>1, InvHolds, PTL

(* The cursor store never holds more than its bound, however many traversals  *)
(* are begun and abandoned.                                                   *)
THEOREM StoreIsBounded == Spec => []StoreBounded
  <1>1. Inv => StoreBounded  BY DEF Inv, Small, StoreBounded
  <1> QED  BY <1>1, InvHolds, PTL

(* A traversal never forks: a cursor is spent once, so that of a traversal    *)
(* there is at most one cursor or one handler.                                *)
THEOREM NoTraversalForks == Spec => []NoFork
  <1>1. ASSUME Inv, NEW t \in Traversals
        PROVE  Cardinality({c \in store : c.trav = t}) + Cardinality(Working(t)) <= 1
    <2> DEFINE C == {c \in store : c.trav = t}
    <2>1. C = {} \/ \E c : C = {c}
      <3>1. \A c, d \in C : c = d  BY <1>1 DEF Inv, Alone
      <3> QED  BY <3>1
    <2>2. Working(t) = {} \/ \E r : Working(t) = {r}
      <3>1. \A q, r \in Working(t) : q = r  BY <1>1 DEF Inv, Alone, Working
      <3> QED  BY <3>1
    <2>3. C = {} \/ Working(t) = {}  BY <1>1 DEF Inv, Alone, Working
    <2>4. Cardinality(C) = 0 \/ (Cardinality(C) = 1 /\ C # {})  BY <2>1, FS_EmptySet, FS_Singleton
    <2>5. Cardinality(Working(t)) = 0 \/ (Cardinality(Working(t)) = 1 /\ Working(t) # {})
      BY <2>2, FS_EmptySet, FS_Singleton
    <2> QED  BY <2>3, <2>4, <2>5
  <1>2. Inv => NoFork  BY <1>1 DEF NoFork
  <1> QED  BY <1>2, InvHolds, PTL

(* Over all its pages list_snapshots shows snapshots in one strict order and  *)
(* none twice, whatever is added, removed or cached between the pages.        *)
THEOREM PagesDescending == Spec => []PagesDescend
  <1>1. Inv => PagesDescend  BY DEF Inv, Walks
  <1> QED  BY <1>1, InvHolds, PTL

(* A traversal that ends has shown every snapshot that was in each of the     *)
(* listings its pages were cut from.                                          *)
THEOREM NothingMissed == Spec => []NothingStableMissed
  <1>1. Inv => NothingStableMissed  BY DEF Inv, Walks
  <1> QED  BY <1>1, InvHolds, PTL
=============================================================================
