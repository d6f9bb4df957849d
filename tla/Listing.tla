------------------------------ MODULE Listing ------------------------------
(***************************************************************************)
(* Continuation cursors (internal/mcpserver/cursor.go) and the traversal   *)
(* of list_snapshots that pages with them over a repository whose          *)
(* snapshots come and go (internal/mcpserver/handlers.go).                 *)
(*                                                                         *)
(* A traversal is one client's walk from a first page to the last.  A      *)
(* cursor holds the marker of the last snapshot shown, not a position, so  *)
(* that snapshots added or removed between two pages shift nothing.        *)
(*                                                                         *)
(* Snapshots are numbers, in the order of their ids; only those the policy *)
(* and the filters let through are modelled, since the others are dropped  *)
(* before the marker is looked at.  A snapshot's time never changes.       *)
(***************************************************************************)
EXTENDS Integers, Sequences, FiniteSets

CONSTANTS
  Ids,          \* snapshot ids, ordered
  Traversals,   \* clients walking through the listing
  Requests,     \* handlers running at the same time
  Times,        \* what the times of the snapshots may be
  MaxPage,      \* max_snapshots: the largest page
  MaxOffset,    \* bound on the legacy offset of a first page
  MaxCursors,   \* cursorStore.max
  TTL,          \* cursorStore.ttl
  MaxClock,     \* bound on the clock
  Caching,      \* whether snapshot listings are cached
  None

ASSUME IdsOrdered == Ids \subseteq Nat \ {0} /\ IsFiniteSet(Ids)
ASSUME CursorLimits == MaxCursors \in Nat \ {0} /\ TTL \in Nat \ {0} /\ MaxPage \in Nat \ {0}
ASSUME Bounds == Times \subseteq [Ids -> Nat] /\ MaxOffset \in Nat /\ MaxClock \in Nat
ASSUME NoneApart == None \notin Ids \cup Traversals /\ Caching \in BOOLEAN

VARIABLES
  time,     \* Snapshot.Time
  repo,     \* the snapshots in the repository
  unborn,   \* snapshots that may still be added
  cached,   \* the listing the metadata cache holds, or None
  clock,
  store,    \* cursorStore.entries
  work,     \* what each running handler works on
  client,   \* how far each traversal has come
  listed,   \* what its pages have shown, in order
  stays     \* the snapshots in every listing its pages were cut from

world == <<time, repo, unborn>>
walks == <<client, listed, stays>>
vars == <<world, cached, clock, store, work, walks>>

Cursors == [trav : Traversals, last : Ids, offset : Nat, created : Nat, expires : Nat]

Idle == [stage |-> "idle"]
\* from: the first entry wanted (in.Offset) of a first page; last: the marker of a continuation.
Reading(t, last, from) == [stage |-> "reading", trav |-> t, last |-> last, from |-> from]
Answering(t, page, more, from, at) ==
  [stage |-> "answering", trav |-> t, page |-> page, more |-> more, from |-> from, at |-> at]

Working(t) == {r \in Requests : work[r] # Idle /\ work[r].trav = t}

TypeOK ==
  /\ time \in Times
  /\ repo \subseteq Ids /\ unborn \subseteq Ids /\ repo \cap unborn = {}
  /\ cached \in (SUBSET Ids) \cup {None}
  /\ clock \in 0..MaxClock
  /\ store \subseteq Cursors
  /\ \A c \in store : c.expires = c.created + TTL
  /\ \A r \in Requests : work[r] = Idle \/ (work[r].stage \in {"reading", "answering"}
                                           /\ client[work[r].trav] = "waits")
  /\ client \in [Traversals -> {"fresh", "waits", "holds", "busy", "done", "lost"}]
  /\ \A t \in Traversals : listed[t] \in Seq(Ids)
  /\ stays \in [Traversals -> SUBSET Ids]

\* The zero time is the earliest there is, so that its snapshot is the last of every
\* listing, and no page follows it, unless there is another one.
ZeroTimeIsUnique == Cardinality({s \in Ids : time[s] = 0}) <= 1

Init ==
  /\ time \in Times /\ ZeroTimeIsUnique
  /\ repo \in SUBSET Ids /\ unborn = Ids \ repo
  /\ cached = None /\ clock = 0
  /\ store = {}
  /\ work = [r \in Requests |-> Idle]
  /\ client = [t \in Traversals |-> "fresh"]
  /\ listed = [t \in Traversals |-> <<>>]
  /\ stays = [t \in Traversals |-> {}]

-----------------------------------------------------------------------------
\* The order of ParseSnapshots: newest first, then by id.
Precedes(a, b) == time[a] > time[b] \/ (time[a] = time[b] /\ a < b)

\* A first page has no marker; lastTime.IsZero() takes the zero time for none as well.
NoMarker(last) == last = None \/ time[last] = 0

\* Slip: only the time of the marker is compared.
AfterMarkerByTime(last, s) == NoMarker(last) \/ time[s] < time[last]
\* Slip: snapshots of the marker's time are shown again.
AfterMarkerLoose(last, s) == NoMarker(last) \/ time[s] <= time[last]

\* afterSnapshotMarker
AfterMarker(last, s) == NoMarker(last) \/ Precedes(last, s)

Rank(S, s) == Cardinality({u \in S : Precedes(u, s)})
\* The entries of S from position `from`, at most n of them, and whether any follow.
PageOf(S, from, n) == {s \in S : Rank(S, s) >= from /\ Rank(S, s) < from + n}
FollowsPage(S, from, n) == \E s \in S : Rank(S, s) >= from + n

InOrder(S) == CHOOSE q \in [1..Cardinality(S) -> S] :
                \A i, j \in 1..Cardinality(S) : i < j => Precedes(q[i], q[j])

-----------------------------------------------------------------------------
\* A first page is asked for.
AskFirst(r, t, from) ==
  /\ work[r] = Idle /\ client[t] = "fresh"
  /\ client' = [client EXCEPT ![t] = "waits"]
  /\ work' = [work EXCEPT ![r] = Reading(t, None, from)]
  /\ UNCHANGED <<world, cached, clock, store, listed, stays>>

\* A cursor is sent, once or again; take removes it before it looks at it.
Sendable(c) == client[c.trav] \in {"holds", "busy", "waits"}

\* Slip: take leaves the cursor in the store.
TakeKept(r, c) ==
  /\ work[r] = Idle /\ c \in store /\ Sendable(c)
  /\ clock < c.expires
  /\ client' = [client EXCEPT ![c.trav] = "waits"]
  /\ work' = [work EXCEPT ![r] = Reading(c.trav, c.last, c.offset)]
  /\ UNCHANGED <<world, cached, clock, store, listed, stays>>

Take(r, c) ==
  /\ work[r] = Idle /\ c \in store /\ Sendable(c)
  /\ clock < c.expires
  /\ store' = store \ {c}
  /\ client' = [client EXCEPT ![c.trav] = "waits"]
  /\ work' = [work EXCEPT ![r] = Reading(c.trav, c.last, c.offset)]
  /\ UNCHANGED <<world, cached, clock, listed, stays>>

\* An expired cursor, or one sent to another tool or repository, is refused and
\* is gone all the same.
TakeRefused(c) ==
  /\ c \in store /\ Sendable(c)
  /\ store' = store \ {c}
  /\ client' = [client EXCEPT ![c.trav] = "lost"]
  /\ UNCHANGED <<world, cached, clock, work, listed, stays>>

\* A cursor the store no longer has is refused.
TakeUnknown(t) ==
  /\ client[t] \in {"holds", "busy"}
  /\ \A c \in store : c.trav # t
  /\ client' = [client EXCEPT ![t] = "lost"]
  /\ UNCHANGED <<world, cached, clock, store, work, listed, stays>>

-----------------------------------------------------------------------------
\* RunMetadata answers the handler with a listing, of the repository as it is or
\* as the cache remembers it; the page is cut from it.  A first page is cut by
\* position, a continuation by the marker.
CutPage(r, listing, n) ==
  LET t == work[r].trav
      begins == work[r].last = None
      S == {s \in listing : AfterMarker(work[r].last, s)}
      from == IF begins THEN work[r].from ELSE 0
      skipped == {s \in S : Rank(S, s) < from}
  IN /\ work' = [work EXCEPT ![r] =
                   Answering(t, PageOf(S, from, n), FollowsPage(S, from, n), work[r].from, clock)]
     /\ stays' = [stays EXCEPT ![t] = IF begins THEN listing \ skipped ELSE @ \cap listing]

ReadRepository(r, n) ==
  /\ work[r].stage = "reading"
  /\ CutPage(r, repo, n)
  /\ cached' = IF Caching THEN repo ELSE None
  /\ UNCHANGED <<world, clock, store, client, listed>>

ReadCached(r, n) ==
  /\ work[r].stage = "reading" /\ cached # None
  /\ CutPage(r, cached, n)
  /\ UNCHANGED <<world, cached, clock, store, client, listed>>

\* resource_busy: a first page can be asked for again, a cursor is spent.
ReadBusy(r) ==
  /\ work[r].stage = "reading"
  /\ work' = [work EXCEPT ![r] = Idle]
  /\ client' = [client EXCEPT ![work[r].trav] = IF work[r].last = None THEN "fresh" ELSE "busy"]
  /\ UNCHANGED <<world, cached, clock, store, listed, stays>>

ReadFails(r) ==
  /\ work[r].stage = "reading"
  /\ work' = [work EXCEPT ![r] = Idle]
  /\ client' = [client EXCEPT ![work[r].trav] = "lost"]
  /\ UNCHANGED <<world, cached, clock, store, listed, stays>>

-----------------------------------------------------------------------------
\* issue: prune what has expired, then make room.  The clock is read before the
\* lock is taken, so `now` may lie in the past.
Unexpired(now) == {c \in store : now < c.expires}
Oldest(S) == {c \in S : \A d \in S : c.created <= d.created}

\* Slip: room is made only once the store has grown past its bound.
StoredLate(c, now) ==
  LET kept == Unexpired(now)
  IN IF Cardinality(kept) <= MaxCursors THEN store' = kept \cup {c}
     ELSE \E old \in Oldest(kept) : store' = (kept \ {old}) \cup {c}

Stored(c, now) ==
  LET kept == Unexpired(now)
  IN IF Cardinality(kept) < MaxCursors THEN store' = kept \cup {c}
     ELSE \E old \in Oldest(kept) : store' = (kept \ {old}) \cup {c}

LastOf(page) == CHOOSE s \in page : \A u \in page : u = s \/ Precedes(u, s)

\* The marker is the last snapshot of the page.
NextCursor(r, now) ==
  [trav |-> work[r].trav, last |-> LastOf(work[r].page), created |-> now, expires |-> now + TTL,
   offset |-> work[r].from + Cardinality(work[r].page)]

\* The page is sent, with a cursor when more follows; or it is larger than
\* max_response_bytes, and page and cursor are lost.
Answer(r, now, fits) ==
  LET t == work[r].trav
      page == work[r].page
      goesOn == work[r].more /\ page # {}
  IN /\ work[r].stage = "answering" /\ now \in work[r].at..clock
     /\ IF goesOn
        THEN Stored(NextCursor(r, now), now)
        ELSE store' = store
     /\ listed' = IF fits THEN [listed EXCEPT ![t] = @ \o InOrder(page)] ELSE listed
     /\ client' = [client EXCEPT ![t] = IF ~fits THEN "lost" ELSE IF goesOn THEN "holds" ELSE "done"]
     /\ work' = [work EXCEPT ![r] = Idle]
     /\ UNCHANGED <<world, cached, clock, stays>>

-----------------------------------------------------------------------------
\* The rest of the world: backups add snapshots and forget removes them, the
\* cached listing expires, time passes, and the server restarts.
AddSnapshot(s) ==
  /\ s \in unborn
  /\ unborn' = unborn \ {s} /\ repo' = repo \cup {s}
  /\ UNCHANGED <<time, cached, clock, store, work, walks>>

RemoveSnapshot(s) ==
  /\ s \in repo
  /\ repo' = repo \ {s}
  /\ UNCHANGED <<time, unborn, cached, clock, store, work, walks>>

CacheExpires ==
  /\ cached # None
  /\ cached' = None
  /\ UNCHANGED <<world, clock, store, work, walks>>

Tick ==
  /\ clock < MaxClock
  /\ clock' = clock + 1
  /\ UNCHANGED <<world, cached, store, work, walks>>

Restart ==
  /\ store' = {} /\ cached' = None
  /\ work' = [r \in Requests |-> Idle]
  /\ client' = [t \in Traversals |-> IF client[t] = "waits" THEN "lost" ELSE client[t]]
  /\ UNCHANGED <<world, clock, listed, stays>>

Handle(r) ==
  \/ \E n \in 1..MaxPage : ReadRepository(r, n) \/ ReadCached(r, n)
  \/ ReadBusy(r) \/ ReadFails(r)
  \/ \E now \in 0..MaxClock, fits \in BOOLEAN : Answer(r, now, fits)

Send(t) ==
  \/ \E c \in store : c.trav = t /\ (TakeRefused(c) \/ \E r \in Requests : Take(r, c))
  \/ TakeUnknown(t)

World ==
  \/ \E s \in Ids : AddSnapshot(s) \/ RemoveSnapshot(s)
  \/ CacheExpires \/ Tick \/ Restart

Next ==
  \/ \E r \in Requests, t \in Traversals, from \in 0..MaxOffset : AskFirst(r, t, from)
  \/ \E t \in Traversals : Send(t)
  \/ \E r \in Requests : Handle(r)
  \/ World

Spec == Init /\ [][Next]_vars

-----------------------------------------------------------------------------
\* Properties.

Shown(t) == {listed[t][i] : i \in DOMAIN listed[t]}

\* Over all its pages a traversal shows snapshots in the one order of the
\* listing and none twice, whatever is added, removed or cached meanwhile.
PagesDescend ==
  \A t \in Traversals : \A i, j \in DOMAIN listed[t] :
    i < j => Precedes(listed[t][i], listed[t][j])

\* A traversal that came to its end has shown every snapshot that was there for
\* each of its pages: removals do not make it skip one.
NothingStableMissed ==
  \A t \in Traversals : client[t] = "done" => stays[t] \subseteq Shown(t)

\* A continuation cannot fork: of a traversal there is one cursor or one handler
\* at work, never two.
NoFork ==
  \A t \in Traversals :
    Cardinality({c \in store : c.trav = t}) + Cardinality(Working(t)) <= 1

\* Abandoned traversals cannot fill the memory.
StoreBounded == Cardinality(store) <= MaxCursors
=============================================================================
