-------------------------- MODULE SelectionProofs --------------------------
(***************************************************************************)
(* Safety of snapshot selection, for every allowed, repository, request and *)
(* limit.                                                                  *)
(***************************************************************************)
EXTENDS Answers, FiniteSetTheorems, SequenceTheorems, TLAPS

-----------------------------------------------------------------------------
(* What the functions of internal/policy/paths.go and selection.go compute,  *)
(* for all paths and policies: FilterPaths is exactly the intersection of a  *)
(* snapshot with the allowed paths, though it returns roots and allowed      *)
(* paths only; two paths overlap exactly if they have a path in common.      *)

LEMMA UnderItself == ASSUME NEW S, NEW x \in Seq(S) PROVE Under(x, x)
  BY DEF Under

LEMMA UnderTransitive ==
  ASSUME NEW S, NEW x \in Seq(S), NEW y \in Seq(S), NEW z \in Seq(S),
         Under(x, y), Under(y, z)
  PROVE  Under(x, z)
  BY DEF Under

(* Two paths with a common descendant are comparable. *)
LEMMA AncestorsCompare ==
  ASSUME NEW S, NEW x \in Seq(S), NEW a \in Seq(S), NEW b \in Seq(S),
         Under(x, a), Under(x, b)
  PROVE  Under(a, b) \/ Under(b, a)
  <1>1. CASE Len(a) <= Len(b)  BY <1>1 DEF Under
  <1>2. CASE Len(b) <= Len(a)  BY <1>2 DEF Under
  <1> QED  BY <1>1, <1>2

(* FilterPaths: what is under a visible path is what is in the snapshot and *)
(* allowed, neither more nor less.                                          *)
THEOREM FilterPathsExact ==
  ASSUME NEW S, NEW allowed, allowed.paths \subseteq Seq(S),
         NEW roots, roots \subseteq Seq(S), NEW x \in Seq(S)
  PROVE  (\E p \in FilterPaths(allowed, roots) : Under(x, p))
           <=> (\E r \in roots : Under(x, r)) /\ IsAllowed(allowed, x)
  <1>1. CASE allowed.paths = {}  BY <1>1 DEF FilterPaths, IsAllowed
  <1>2. CASE allowed.paths # {}
    <2>1. ASSUME NEW p \in FilterPaths(allowed, roots), Under(x, p)
          PROVE  (\E r \in roots : Under(x, r)) /\ IsAllowed(allowed, x)
      <3>1. CASE p \in roots /\ \E a \in allowed.paths : Under(p, a)
        <4>1. PICK a \in allowed.paths : Under(p, a)  BY <3>1
        <4>2. Under(x, a)  BY <2>1, <3>1, <4>1, UnderTransitive
        <4> QED  BY <2>1, <3>1, <4>2 DEF IsAllowed
      <3>2. CASE p \in allowed.paths /\ \E r \in roots : Under(p, r)
        <4>1. PICK r \in roots : Under(p, r)  BY <3>2
        <4>2. Under(x, r)  BY <2>1, <3>2, <4>1, UnderTransitive
        <4> QED  BY <2>1, <3>2, <4>2 DEF IsAllowed
      <3> QED  BY <1>2, <2>1, <3>1, <3>2 DEF FilterPaths
    <2>2. ASSUME NEW r \in roots, Under(x, r), IsAllowed(allowed, x)
          PROVE  \E p \in FilterPaths(allowed, roots) : Under(x, p)
      <3>1. PICK a \in allowed.paths : Under(x, a)  BY <1>2, <2>2 DEF IsAllowed
      <3>2. Under(r, a) \/ Under(a, r)  BY <2>2, <3>1, AncestorsCompare
      <3> QED  BY <1>2, <2>2, <3>1, <3>2 DEF FilterPaths
    <2> QED  BY <2>1, <2>2
  <1> QED  BY <1>1, <1>2

(* pathsOverlap, which looks in both directions, holds exactly if some path *)
(* lies under both.                                                         *)
THEOREM OverlapExact ==
  ASSUME NEW S, NEW P, P \subseteq Seq(S), NEW a \in P, NEW b \in P
  PROVE  PathsOverlap(a, b) <=> \E x \in P : Under(x, a) /\ Under(x, b)
  <1>1. Under(a, a) /\ Under(b, b)  BY UnderItself
  <1>2. PathsOverlap(a, b) => \E x \in P : Under(x, a) /\ Under(x, b)
    BY <1>1 DEF PathsOverlap
  <1>3. ASSUME NEW x \in P, Under(x, a), Under(x, b) PROVE PathsOverlap(a, b)
    BY <1>3, AncestorsCompare DEF PathsOverlap
  <1> QED  BY <1>2, <1>3

(* statsSnapshotAllowed: of such a snapshot the policy shows everything. *)
THEOREM StatsAllowedIsWhole ==
  ASSUME NEW S, NEW allowed, allowed.paths \subseteq Seq(S),
         NEW s, s.roots \subseteq Seq(S), StatsSnapshotAllowed(allowed, s),
         NEW x \in Seq(S), NEW r \in s.roots, Under(x, r)
  PROVE  IsAllowed(allowed, x)
  <1>1. CASE allowed.paths = {}  BY <1>1 DEF IsAllowed
  <1>2. CASE allowed.paths # {}
    <2>1. PICK a \in allowed.paths : Under(r, a)
      BY <1>2 DEF StatsSnapshotAllowed, IsAllowed
    <2> QED  BY <2>1, UnderTransitive DEF IsAllowed
  <1> QED  BY <1>1, <1>2

(* A path in the scope of a request whose path was granted is allowed. *)
LEMMA GrantedScope ==
  ASSUME NEW S, NEW allowed, allowed.paths \subseteq Seq(S),
         NEW path \in Seq(S), IsAllowed(allowed, path),
         NEW x \in Seq(S), Under(x, path)
  PROVE  IsAllowed(allowed, x)
  BY UnderTransitive DEF IsAllowed

-----------------------------------------------------------------------------
(* Requests, and what is wanted by them. *)

WantedNow == Wanted(request)
Granted == ~Malformed(request) /\ ~Refused(request)
NewestNow == NewestWanted(request, repo)

LEMMA Fixed ==
  ASSUME UNCHANGED <<policy, about, request>>
  PROVE  WantedNow' = WantedNow /\ Granted' = Granted
  BY DEF WantedNow, Granted, Wanted, Visible, In, Scope, Malformed, Refused, ScopeMissing

LEMMA FixedNewest ==
  ASSUME UNCHANGED <<policy, about, request, repo>>
  PROVE  NewestNow' = NewestNow
  BY DEF NewestNow, NewestWanted, LastOf, Wanted, Visible, In, Scope

LEMMA RequestFields ==
  ASSUME NEW r \in Requests
  PROVE  /\ r.tool \in {"list", "get", "browse", "find", "stats"}
         /\ r.id \in Abbreviations \cup {Latest, None}
         /\ r.path \in Scopes \cup {None}
         /\ r.after \in Instants \cup {None} /\ r.before \in Instants \cup {None}
  BY DEF Requests, Calls, Optional

LEMMA ScopeIsPath ==
  ASSUME TypeOK, NEW r \in Requests, Scope(r) # None
  PROVE  Scope(r) \in Paths
  <1>1. policy.paths \subseteq Paths  BY PathsKnown DEF TypeOK
  <1>2. CASE r.tool = "find" /\ r.path = None /\ Cardinality(policy.paths) = 1
    <2>1. policy.paths # {}  BY <1>2, FS_EmptySet
    <2>2. Scope(r) \in policy.paths  BY <1>2, <2>1 DEF Scope
    <2> QED  BY <1>1, <2>2
  <1>3. CASE ~(r.tool = "find" /\ r.path = None /\ Cardinality(policy.paths) = 1)
    <2>1. Scope(r) = r.path  BY <1>3 DEF Scope
    <2> QED  BY <2>1, RequestFields, PathsKnown
  <1> QED  BY <1>2, <1>3

-----------------------------------------------------------------------------
(* The code's tests agree with what the properties compare them with. *)

LEMMA RootsPublished ==
  ASSUME NEW s \in Snapshots
  PROVE  Published[s].roots = FilterPaths(policy, about[s].roots)
  BY DEF Published, PublicSnapshot

LEMMA VisibleIsVisible ==
  ASSUME TypeOK, NEW s \in Snapshots
  PROVE  SnapshotVisible(policy, about[s]) <=> Visible(s)
  <1>1. /\ policy.paths \subseteq Paths /\ about[s].roots \subseteq Paths
        /\ Paths \subseteq Seq(STRING)
    BY PathsKnown DEF TypeOK
  <1>2. ASSUME policy.paths # {}
        PROVE  FilterPaths(policy, about[s].roots) # {}
                 <=> \E x \in Paths : In(s, x) /\ IsAllowed(policy, x)
    <2>1. \A x \in Paths : (\E p \in FilterPaths(policy, about[s].roots) : Under(x, p))
                             <=> In(s, x) /\ IsAllowed(policy, x)
      BY <1>1, FilterPathsExact DEF In
    <2>2. FilterPaths(policy, about[s].roots) \subseteq Paths  BY <1>1 DEF FilterPaths
    <2>3. \A p \in FilterPaths(policy, about[s].roots) : Under(p, p)
      BY <1>1, <2>2, UnderItself
    <2> QED  BY <2>1, <2>2, <2>3
  <1> QED  BY <1>2 DEF SnapshotVisible, Visible

(* What the filters let through is among what restic is asked to report.      *)
LEMMA ReportedIsEnough ==
  ASSUME NEW s \in repo, SnapshotVisible(policy, about[s]),
         MatchesFilters(about[s], request.host, request.tags, Scope(request))
  PROVE  s \in Reported
  <1>1. AskedHosts = {} \/ about[s].host \in AskedHosts
    BY DEF AskedHosts, SnapshotVisible, MatchesFilters
  <1>2. request.tags = {} \/ request.tags \cap about[s].tags # {}  BY DEF MatchesFilters
  <1> QED  BY <1>1, <1>2 DEF Reported

LEMMA FoundIsWanted ==
  ASSUME TypeOK, request # None
  PROVE  Found = WantedNow \cap repo
  <1>1. request \in Requests /\ repo \subseteq Snapshots  BY DEF TypeOK, Optional
  <1> SUFFICES ASSUME NEW s \in Snapshots, s \in repo
               PROVE  s \in Found <=> s \in WantedNow
    BY <1>1 DEF Found, Reported, WantedNow, Wanted
  <1>2. SnapshotVisible(policy, about[s]) <=> Visible(s)  BY VisibleIsVisible
  <1>3. Contains(request.after, request.before, s)
          <=> /\ request.after = None \/ request.after <= s
              /\ request.before = None \/ s < request.before
    <2>1. \A a, b \in Int : a <= b <=> ~(b < a)  OBVIOUS
    <2>2. s \in Int  BY SnapshotsOrdered
    <2>3. request.after = None \/ request.after \in Int
      BY <1>1, RequestFields, SnapshotsOrdered
    <2> QED  BY <2>1, <2>2, <2>3, Zenon DEF Contains
  <1>4. ASSUME Scope(request) # None, NEW r \in about[s].roots
        PROVE  PathsOverlap(Scope(request), r)
                 <=> \E x \in Paths : Under(x, r) /\ Under(x, Scope(request))
    <2>1. Scope(request) \in Paths  BY <1>1, <1>4, ScopeIsPath
    <2>2. r \in Paths /\ Paths \subseteq Seq(STRING)  BY PathsKnown DEF TypeOK
    <2> QED  BY <2>1, <2>2, OverlapExact
  <1>5. ASSUME Scope(request) # None
        PROVE  (\E r \in about[s].roots : PathsOverlap(Scope(request), r))
                 <=> \E x \in Paths : In(s, x) /\ Under(x, Scope(request))
    BY <1>4, <1>5 DEF In
  <1>6. MatchesFilters(about[s], request.host, request.tags, Scope(request))
          <=> /\ request.host \in {None, about[s].host}
              /\ request.tags \subseteq about[s].tags
              /\ Scope(request) = None \/ \E x \in Paths : In(s, x) /\ Under(x, Scope(request))
    BY <1>5 DEF MatchesFilters
  <1>7. s \in Found <=>
          /\ SnapshotVisible(policy, about[s])
          /\ Contains(request.after, request.before, s)
          /\ MatchesFilters(about[s], request.host, request.tags, Scope(request))
          /\ request.id \in {None, Latest} \/ s \in request.id
    BY ReportedIsEnough DEF Found, Reported
  <1> QED  BY <1>2, <1>3, <1>6, <1>7 DEF WantedNow, Wanted

-----------------------------------------------------------------------------
(* The invariant. *)

(* Nothing is chosen or shown before the choice. *)
Untouched == stage \in {"idle", "select"} => frozen = {} /\ shown = {}

(* What the observers know of the repository while the request is pending. *)
Watched ==
  /\ stable \subseteq repo
  /\ Pending => repo \subseteq seen /\ NewestNow \subseteq newest

ArgumentsGood == Pending \/ frozen # {} => Granted

(* What is chosen was wanted, and remains so. *)
WellChosen ==
  frozen # {} =>
    /\ frozen \subseteq WantedNow
    /\ request.tool = "stats" => \A s \in frozen : StatsSnapshotAllowed(policy, about[s])
    /\ request.id = Latest => frozen \subseteq newest
    /\ request.id \notin {None, Latest} => stable \cap WantedNow \subseteq frozen

(* What a page is cut from was there since the page was asked for, or when   *)
(* the look was taken that the cache holds.                                  *)
ReadsLive ==
  \/ stage \in {"read", "holding"} \/ Answered({"browse", "find"})
  \/ stage = "recheck" /\ kept
  => frozen \subseteq seen

SelInv == TypeOK /\ Untouched /\ Watched /\ ArgumentsGood /\ WellChosen /\ ReadsLive

LEMMA InitInv == Init => SelInv
  <1> SUFFICES ASSUME Init PROVE SelInv
    OBVIOUS
  <1>1. TypeOK  BY RequestsGiven DEF Init, TypeOK, Optional, Stages, Codes
  <1>2. Untouched /\ Watched  BY DEF Init, Untouched, Watched, Pending
  <1>3. ArgumentsGood /\ WellChosen  BY DEF Init, ArgumentsGood, WellChosen, Pending
  <1>4. ReadsLive  BY DEF Init, ReadsLive, Answered
  <1> QED  BY <1>1, <1>2, <1>3, <1>4 DEF SelInv

(* The pick among several. *)
LEMMA AtMostOne ==
  ASSUME NEW S, IsFiniteSet(S), ~(Cardinality(S) > 1), NEW x \in S, NEW y \in S
  PROVE  x = y
  <1>1. Cardinality(S) \in Nat /\ Cardinality(S) <= 1  BY FS_CardinalityType
  <1>2. IsFiniteSet(S \ {x}) /\ Cardinality(S \ {x}) = Cardinality(S) - 1
    BY FS_RemoveElement
  <1>3. Cardinality(S \ {x}) \in Nat  BY <1>2, FS_CardinalityType
  <1>4. Cardinality(S \ {x}) = 0  BY <1>1, <1>2, <1>3
  <1>5. S \ {x} = {}  BY <1>2, <1>4, FS_EmptySet
  <1> QED  BY <1>5

(* What the choice of snapshots guarantees to every tool. *)
LEMMA ChoiceGood ==
  ASSUME SelInv, NEW tool, Choice(tool)
  PROVE  /\ request \in Requests /\ Granted
         /\ Chosen(Found) \subseteq WantedNow \cap repo
         /\ IsFiniteSet(Found)
         /\ request.id = None => Chosen(Found) = WantedNow \cap repo
         /\ request.id = Latest => Chosen(Found) \subseteq NewestNow
         /\ request.id \notin {None, Latest} =>
              /\ Chosen(Found) = Found
              /\ \A x, y \in WantedNow \cap repo : x = y
  <1>1. request # None /\ request \in Requests /\ Granted
    BY DEF SelInv, TypeOK, ArgumentsGood, Pending, Choice, Optional
  <1>2. Found = WantedNow \cap repo  BY <1>1, FoundIsWanted DEF SelInv
  <1>3. IsFiniteSet(Found)
    <2>1. Found \subseteq Snapshots /\ IsFiniteSet(Snapshots)
      BY SnapshotsOrdered DEF SelInv, TypeOK, Found, Reported
    <2> QED  BY <2>1, FS_Subset
  <1>4. Chosen(Found) \subseteq Found  BY DEF Chosen, LastOf
  <1>5. request.id = None => Chosen(Found) = Found  BY DEF Chosen
  <1>6. request.id = Latest => Chosen(Found) = NewestNow
    BY <1>2, Placeholders DEF Chosen, NewestNow, NewestWanted, WantedNow
  <1>7. ASSUME request.id \notin {None, Latest}
        PROVE  Chosen(Found) = Found /\ \A x, y \in Found : x = y
    <2>1. ~(Cardinality(Found) > 1)  BY <1>7 DEF Choice, Undecided
    <2>2. \A x, y \in Found : x = y  BY <1>3, <2>1, AtMostOne
    <2>3. Found \subseteq Int  BY SnapshotsOrdered DEF SelInv, TypeOK, Found, Reported
    <2>4. \A s \in Found : s <= s  BY <2>3
    <2>5. LastOf(Found) = Found  BY <2>2, <2>4 DEF LastOf
    <2> QED  BY <1>7, <2>2, <2>5 DEF Chosen
  <1> QED  BY <1>1, <1>2, <1>3, <1>4, <1>5, <1>6, <1>7

-----------------------------------------------------------------------------
LEMMA AskStep ==
  ASSUME SelInv, NEW r \in Requests, Ask(r)
  PROVE  SelInv'
  <1>1. /\ stage = "idle" /\ frozen = {} /\ shown = {}
        /\ frozen' = {} /\ shown' = {} /\ request' = r /\ UNCHANGED world
        /\ seen' = repo /\ stable' = repo /\ newest' = NewestWanted(r, repo)
        /\ stage' \in {"select", "answered"}
        /\ code' \in {code, "invalid_argument", "not_allowed"}
        /\ stage' = "select" => ~Malformed(r) /\ ~Refused(r)
    BY DEF Ask, Answer, SelInv, Untouched
  <1>2. UNCHANGED <<policy, about, repo, gone, kept>>  BY <1>1 DEF world
  <1>3. NewestNow' = NewestWanted(r, repo)
    BY <1>1, <1>2 DEF NewestNow, NewestWanted, LastOf, Wanted, Visible, In, Scope
  <1>4. NewestWanted(r, repo) \subseteq Snapshots
    BY DEF NewestWanted, LastOf, Wanted
  <1>5. TypeOK'
    <2>1. request' \in Optional(Requests) /\ request' # None
      BY <1>1, RequestsGiven DEF Optional
    <2>2. code' \in Codes  BY <1>1 DEF SelInv, TypeOK, Codes
    <2> QED  BY <1>1, <1>2, <1>4, <2>1, <2>2 DEF SelInv, TypeOK, Stages
  <1>6. Untouched'  BY <1>1 DEF Untouched
  <1>7. Watched'  BY <1>1, <1>2, <1>3 DEF Watched
  <1>8. ArgumentsGood'
    <2>1. stage' = "select" => Granted'
      BY <1>1, <1>2 DEF Granted, Malformed, Refused, ScopeMissing, Scope
    <2> QED  BY <1>1, <2>1 DEF ArgumentsGood, Pending
  <1>9. WellChosen'  BY <1>1 DEF WellChosen
  <1>10. ReadsLive'  BY <1>1 DEF ReadsLive
  <1> QED  BY <1>5, <1>6, <1>7, <1>8, <1>9, <1>10 DEF SelInv

(* Steps that only move the handler on. *)
LEMMA QuietStep ==
  ASSUME SelInv, UNCHANGED <<policy, about, repo, gone, request, frozen, shown, stable, newest>>,
         Pending, code' \in Codes, kept' \in BOOLEAN, seen' \in {seen, repo},
         \/ stage' = "answered" /\ (code' # "ok" \/ request.tool = "stats")
         \/ stage' = "read" /\ stage = "recheck" /\ frozen \subseteq seen'
  PROVE  SelInv'
  <1>1. stage # "idle" /\ stage' \notin {"idle", "select"}  BY DEF Pending
  <1>2. repo \subseteq seen' /\ stable \subseteq repo  BY DEF SelInv, Watched
  <1>3. TypeOK'  BY <1>1, <1>2 DEF SelInv, TypeOK, Stages
  <1>4. Untouched'  BY <1>1 DEF Untouched
  <1>5. NewestNow' = NewestNow  BY FixedNewest
  <1>6. Watched'  BY <1>2, <1>5 DEF SelInv, Watched, Pending
  <1>7. WantedNow' = WantedNow /\ Granted' = Granted  BY Fixed
  <1>8. ArgumentsGood'  BY <1>7 DEF SelInv, ArgumentsGood
  <1>9. WellChosen'  BY <1>7 DEF SelInv, WellChosen, StatsSnapshotAllowed, IsAllowed
  <1>10. ReadsLive'  BY DEF SelInv, ReadsLive, Watched, Answered
  <1> QED  BY <1>3, <1>4, <1>6, <1>8, <1>9, <1>10 DEF SelInv

(* What is said of a step under UNCHANGED, when nothing is seen or kept. *)
LEMMA Unseen ==
  ASSUME SelInv, UNCHANGED <<world, request, frozen, shown, observers>>
  PROVE  /\ UNCHANGED <<policy, about, repo, gone, request, frozen, shown, stable, newest>>
         /\ kept' \in BOOLEAN /\ seen' \in {seen, repo} /\ seen' = seen /\ kept' = kept
  BY DEF SelInv, TypeOK, world, observers

(* Choices that freeze a selection S. *)
LEMMA FreezeStep ==
  ASSUME SelInv, NEW tool \in {"list", "get", "browse", "find", "stats"}, Choice(tool),
         NEW S, S \subseteq Chosen(Found), frozen' = S,
         tool = "stats" => \A s \in S : StatsSnapshotAllowed(policy, about[s]),
         tool # "stats" => S = Chosen(Found), kept' \in BOOLEAN,
         shown' \subseteq S \X Paths,
         stage' \in {"recheck", "read", "answered"}, code' \in Codes,
         stage' # "answered" /\ tool \in {"find", "stats"} =>
           Cardinality(S) \in 1..MaxSnapshots
  PROVE  SelInv'
  <1>1. /\ request.tool = tool /\ stage = "select" /\ Pending
        /\ UNCHANGED <<policy, about, repo, gone, request, seen, stable, newest>>
    BY DEF Choice, observers, Pending
  <1>2. /\ request # None /\ Granted /\ repo \subseteq Snapshots
        /\ repo \subseteq seen /\ NewestNow \subseteq newest /\ stable \subseteq repo
    BY <1>1 DEF SelInv, TypeOK, ArgumentsGood, Watched
  <1>3. S \subseteq WantedNow \cap repo  BY ChoiceGood
  <1>4. TypeOK'
    BY <1>1, <1>2, <1>3 DEF SelInv, TypeOK, Stages
  <1>5. Untouched'  BY DEF Untouched
  <1>6. NewestNow' = NewestNow  BY <1>1, FixedNewest
  <1>7. Watched'  BY <1>1, <1>2, <1>6 DEF Watched
  <1>8. WantedNow' = WantedNow /\ Granted' = Granted  BY <1>1, Fixed
  <1>9. ArgumentsGood'  BY <1>2, <1>8 DEF ArgumentsGood
  <1>10. WellChosen'
    <2>1. request.id = Latest => S \subseteq newest  BY <1>2, ChoiceGood
    <2>2. ASSUME S # {}, request.id \notin {None, Latest}
          PROVE  stable \cap WantedNow \subseteq S
      <3>1. \A x, y \in WantedNow \cap repo : x = y  BY <2>2, ChoiceGood
      <3> QED  BY <1>2, <1>3, <2>2, <3>1
    <2>3. tool = "stats" => (\A s \in S : StatsSnapshotAllowed(policy, about[s]))'
      BY <1>1 DEF StatsSnapshotAllowed, IsAllowed
    <2> QED  BY <1>1, <1>3, <1>8, <2>1, <2>2, <2>3 DEF WellChosen
  <1>11. ReadsLive'  BY <1>1, <1>2, <1>3 DEF ReadsLive
  <1> QED  BY <1>4, <1>5, <1>7, <1>9, <1>10, <1>11 DEF SelInv

(* Pages only add to what is shown. *)
LEMMA PageStep ==
  ASSUME SelInv, stage = "read", NEW entries, entries \subseteq frozen \X Paths,
         NEW more \in BOOLEAN, Page(entries, more)
  PROVE  SelInv'
  <1>1. /\ UNCHANGED <<policy, about, repo, gone, kept, request, frozen, seen, stable, newest>>
        /\ shown' = shown \cup entries /\ code' = "ok" /\ stage' \in {"holding", "answered"}
    BY DEF Page, world, observers
  <1>2. TypeOK'
    <2>1. shown' \subseteq frozen' \X Paths  BY <1>1 DEF SelInv, TypeOK
    <2> QED  BY <1>1, <2>1 DEF SelInv, TypeOK, Stages, Codes
  <1>3. Untouched'  BY <1>1 DEF Untouched
  <1>4. NewestNow' = NewestNow  BY <1>1, FixedNewest
  <1>5. Watched'  BY <1>1, <1>4 DEF SelInv, Watched, Pending
  <1>6. WantedNow' = WantedNow /\ Granted' = Granted  BY <1>1, Fixed
  <1>7. ArgumentsGood'  BY <1>1, <1>6 DEF SelInv, ArgumentsGood, Pending
  <1>8. WellChosen'  BY <1>1, <1>6 DEF SelInv, WellChosen, StatsSnapshotAllowed, IsAllowed
  <1>9. ReadsLive'  BY <1>1 DEF SelInv, ReadsLive
  <1> QED  BY <1>2, <1>3, <1>5, <1>7, <1>8, <1>9 DEF SelInv

LEMMA ContinueStep == ASSUME SelInv, Continue PROVE SelInv'
  <1>1. /\ UNCHANGED <<policy, about, repo, gone, kept, request, frozen, shown, code, stable, newest>>
        /\ stage = "holding" /\ stage' = "recheck" /\ seen' = (IF kept THEN seen ELSE repo)
    BY DEF Continue, world
  <1>2. TypeOK'  BY <1>1 DEF SelInv, TypeOK, Stages, Watched
  <1>3. Untouched'  BY <1>1 DEF Untouched
  <1>4. NewestNow' = NewestNow  BY <1>1, FixedNewest
  <1>5. Watched'  BY <1>1, <1>4 DEF SelInv, Watched, Pending
  <1>6. WantedNow' = WantedNow /\ Granted' = Granted  BY <1>1, Fixed
  <1>7. ArgumentsGood'  BY <1>1, <1>6 DEF SelInv, ArgumentsGood, Pending
  <1>8. WellChosen'  BY <1>1, <1>6 DEF SelInv, WellChosen, StatsSnapshotAllowed, IsAllowed
  <1>9. ReadsLive'  BY <1>1 DEF SelInv, ReadsLive, Answered
  <1> QED  BY <1>2, <1>3, <1>5, <1>7, <1>8, <1>9 DEF SelInv

(* An entry of the cache is made or expires. *)
LEMMA CacheStep ==
  ASSUME SelInv,
         UNCHANGED <<policy, about, repo, gone, request, stage, code, frozen, shown, stable, newest>>,
         kept' \in BOOLEAN,
         \/ ~kept' /\ seen' = seen
         \/ stage = "holding" /\ seen' = repo /\ frozen \subseteq repo
  PROVE  SelInv'
  <1>1. TypeOK'  BY DEF SelInv, TypeOK, Watched
  <1>2. Untouched'  BY DEF SelInv, Untouched
  <1>3. NewestNow' = NewestNow  BY FixedNewest
  <1>4. Watched'  BY <1>3 DEF SelInv, Watched, Pending
  <1>5. WantedNow' = WantedNow /\ Granted' = Granted  BY Fixed
  <1>6. ArgumentsGood'  BY <1>5 DEF SelInv, ArgumentsGood, Pending
  <1>7. WellChosen'  BY <1>5 DEF SelInv, WellChosen, StatsSnapshotAllowed, IsAllowed
  <1>8. ReadsLive'  BY DEF SelInv, ReadsLive, Answered
  <1> QED  BY <1>1, <1>2, <1>4, <1>6, <1>7, <1>8 DEF SelInv

(* A snapshot comes or goes. *)
LEMMA WorldStep ==
  ASSUME SelInv, Pending, Observe, repo' \subseteq Snapshots, gone' \subseteq Snapshots \ repo',
         UNCHANGED <<policy, about, kept, request, stage, code, frozen, shown>>
  PROVE  SelInv'
  <1>1. NewestNow' = NewestWanted(request, repo')
    BY DEF NewestNow, NewestWanted, LastOf, Wanted, Visible, In, Scope
  <1>2. /\ seen' = seen \cup repo' /\ stable' = stable \cap repo'
        /\ newest' = newest \cup NewestWanted(request, repo')
    BY DEF Observe
  <1>3. TypeOK'
    <2>1. NewestWanted(request, repo') \subseteq Snapshots  BY DEF NewestWanted, LastOf, Wanted
    <2> QED  BY <1>2, <2>1 DEF SelInv, TypeOK
  <1>4. Untouched'  BY DEF SelInv, Untouched
  <1>5. Watched'  BY <1>1, <1>2 DEF Watched
  <1>6. WantedNow' = WantedNow /\ Granted' = Granted  BY Fixed
  <1>7. ArgumentsGood'  BY <1>6 DEF SelInv, ArgumentsGood, Pending
  <1>8. WellChosen'  BY <1>2, <1>6 DEF SelInv, WellChosen, StatsSnapshotAllowed, IsAllowed
  <1>9. ReadsLive'  BY <1>2 DEF SelInv, ReadsLive, Answered
  <1> QED  BY <1>3, <1>4, <1>5, <1>7, <1>8, <1>9 DEF SelInv

LEMMA StutterStep == ASSUME SelInv, UNCHANGED vars PROVE SelInv'
  <1>1. UNCHANGED <<policy, about, repo, gone, kept, request, stage, code, frozen, shown, seen,
                    stable, newest>>
    BY DEF vars, world, observers
  <1>2. TypeOK'  BY <1>1 DEF SelInv, TypeOK
  <1>3. Untouched'  BY <1>1 DEF SelInv, Untouched
  <1>4. NewestNow' = NewestNow  BY <1>1, FixedNewest
  <1>5. Watched'  BY <1>1, <1>4 DEF SelInv, Watched, Pending
  <1>6. WantedNow' = WantedNow /\ Granted' = Granted  BY <1>1, Fixed
  <1>7. ArgumentsGood'  BY <1>1, <1>6 DEF SelInv, ArgumentsGood, Pending
  <1>8. WellChosen'  BY <1>1, <1>6 DEF SelInv, WellChosen, StatsSnapshotAllowed, IsAllowed
  <1>9. ReadsLive'  BY <1>1 DEF SelInv, ReadsLive, Answered
  <1> QED  BY <1>2, <1>3, <1>5, <1>7, <1>8, <1>9 DEF SelInv

-----------------------------------------------------------------------------
(* What is found and not too much fits the limit. *)
LEMMA FitsLimit ==
  ASSUME NEW S, IsFiniteSet(S), S # {}, ~TooMany(S)
  PROVE  Cardinality(S) \in 1..MaxSnapshots
  <1>1. Cardinality(S) \in Nat /\ Cardinality(S) # 0  BY FS_CardinalityType, FS_EmptySet
  <1> QED  BY <1>1, LimitPositive DEF TooMany

LEMMA FindStep == ASSUME SelInv, FindChooses PROVE SelInv'
  <1>1. Choice("find") /\ UNCHANGED shown  BY DEF FindChooses
  <1>2. /\ stage = "select" /\ frozen = {} /\ shown = {} /\ request.tool = "find" /\ Pending
        /\ UNCHANGED <<policy, about, repo, gone, request, seen, stable, newest>>
        /\ kept' \in BOOLEAN
    BY <1>1 DEF FindChooses, MayBeKept, Choice, SelInv, Untouched, Pending, observers
  <1>3. CASE Answer("invalid_argument") /\ UNCHANGED frozen
    <2>1. code' \in Codes /\ code' # "ok" /\ stage' = "answered"  BY <1>3 DEF Answer, Codes
    <2> QED  BY <1>1, <1>2, <1>3, <2>1, QuietStep
  <1>4. CASE Found = {} /\ Answer("ok") /\ UNCHANGED frozen
    <2>1. Chosen(Found) = {}  BY <1>4 DEF Chosen, LastOf
    <2>2. code' \in Codes /\ stage' = "answered"  BY <1>4 DEF Answer, Codes
    <2> QED  BY <1>1, <1>2, <1>4, <2>1, <2>2, FreezeStep
  <1>5. CASE /\ Found # {} /\ ~TooMany(Chosen(Found))
             /\ frozen' = Chosen(Found) /\ stage' = "read" /\ UNCHANGED code
    <2>1. request.id # Latest
      <3>1. Granted  BY <1>1, ChoiceGood
      <3> QED  BY <1>2, <3>1 DEF Granted, Malformed, Refused
    <2>2. Chosen(Found) = Found
      BY <1>1, <2>1, ChoiceGood DEF Chosen
    <2>3. Cardinality(Chosen(Found)) \in 1..MaxSnapshots
      BY <1>1, <1>5, <2>2, ChoiceGood, FitsLimit
    <2>4. code' \in Codes  BY <1>5 DEF SelInv, TypeOK
    <2> QED  BY <1>1, <1>2, <1>5, <2>3, <2>4, FreezeStep
  <1> QED  BY <1>3, <1>4, <1>5 DEF FindChooses

LEMMA StatsStep == ASSUME SelInv, StatsChooses PROVE SelInv'
  <1> DEFINE eligible == {s \in Chosen(Found) : StatsSnapshotAllowed(policy, about[s])}
  <1>1. Choice("stats") /\ UNCHANGED shown  BY DEF StatsChooses
  <1>2. /\ stage = "select" /\ frozen = {} /\ shown = {} /\ request.tool = "stats" /\ Pending
        /\ UNCHANGED <<policy, about, repo, gone, request, seen, stable, newest>>
        /\ kept' \in BOOLEAN
    BY <1>1 DEF StatsChooses, Choice, SelInv, TypeOK, Untouched, Pending, observers
  <1>3. ASSUME NEW c \in {"snapshot_not_found", "not_allowed", "invalid_argument"},
               Answer(c), UNCHANGED frozen
        PROVE  SelInv'
    <2>1. code' \in Codes /\ code' # "ok" /\ stage' = "answered"  BY <1>3 DEF Answer, Codes
    <2> QED  BY <1>1, <1>2, <1>3, <2>1, QuietStep
  <1>4. CASE /\ eligible # {} /\ ~TooMany(eligible)
             /\ frozen' = eligible /\ stage' = "read" /\ UNCHANGED code
    <2>1. IsFiniteSet(eligible)
      <3>1. eligible \subseteq Found  BY DEF Chosen, LastOf
      <3> QED  BY <1>1, <3>1, ChoiceGood, FS_Subset
    <2>2. Cardinality(eligible) \in 1..MaxSnapshots  BY <1>4, <2>1, FitsLimit
    <2>3. code' \in Codes  BY <1>4 DEF SelInv, TypeOK
    <2> HIDE DEF eligible
    <2>4. eligible \subseteq Chosen(Found) /\ \A s \in eligible : StatsSnapshotAllowed(policy, about[s])
      BY DEF eligible
    <2> QED  BY <1>1, <1>2, <1>4, <2>2, <2>3, <2>4, FreezeStep
  <1> QED  BY <1>3, <1>4 DEF StatsChooses

LEMMA PagedEntries ==
  ASSUME NEW T, T \subseteq frozen
  PROVE  UNION {{s} \X Displayed(s) : s \in T} \subseteq frozen \X Paths
  BY DEF Displayed

LEMMA StepInv == SelInv /\ [Next]_vars => SelInv'
  <1> SUFFICES ASSUME SelInv, [Next]_vars PROVE SelInv'
    OBVIOUS
  <1>1. ASSUME NEW r \in Requests, Ask(r) PROVE SelInv'  BY <1>1, AskStep
  <1>2. ASSUME NEW at \in {"select", "recheck", "read"}, Fails(at) PROVE SelInv'
    BY <1>2, Unseen, QuietStep DEF Fails, Answer, Pending, Codes
  <1>3. CASE NoneFound  BY <1>3, Unseen, QuietStep DEF NoneFound, Answer, Pending, Codes
  <1>4. CASE Ambiguous  BY <1>4, Unseen, QuietStep DEF Ambiguous, Answer, Pending, Codes
  <1>5. CASE GetAnswers \/ ListAnswers
    <2>1. PICK tool \in {"list", "get"} :
            /\ Choice(tool) /\ frozen' = Chosen(Found) /\ stage' = "answered" /\ code' = "ok"
            /\ kept' = kept
      BY <1>5 DEF GetAnswers, ListAnswers, Answer
    <2>2. shown' \subseteq Chosen(Found) \X Paths
      BY <1>5, <2>1 DEF GetAnswers, ListAnswers, Told
    <2>3. kept' \in BOOLEAN  BY <2>1 DEF SelInv, TypeOK
    <2> QED  BY <2>1, <2>2, <2>3, FreezeStep DEF Codes
  <1>6. CASE BrowseChooses
    <2>1. /\ Choice("browse") /\ frozen' = Chosen(Found) /\ stage' = "recheck"
          /\ UNCHANGED <<code, shown>> /\ kept' \in BOOLEAN
      BY <1>6 DEF BrowseChooses, MayBeKept
    <2>2. shown = {} /\ code \in Codes  BY <2>1 DEF Choice, SelInv, Untouched, TypeOK
    <2> QED  BY <2>1, <2>2, FreezeStep
  <1>7. CASE FindChooses  BY <1>7, FindStep
  <1>8. CASE StatsChooses  BY <1>8, StatsStep
  <1>9. CASE Recheck \/ RecheckKept
    <2>1. /\ stage = "recheck" /\ code \in Codes /\ kept \in BOOLEAN
          /\ UNCHANGED <<policy, about, repo, gone, request, frozen, shown, stable, newest>>
      BY <1>9 DEF Recheck, RecheckKept, world, observers, SelInv, TypeOK
    <2>2. CASE Recheck /\ StillThere
      <3>1. frozen \subseteq repo  BY <2>2 DEF StillThere
      <3>2. stage' = "read" /\ code' = code /\ kept' \in BOOLEAN /\ seen' = repo
        BY <2>2 DEF Recheck, MayBeKept
      <3> QED  BY <2>1, <3>1, <3>2, QuietStep DEF Pending
    <2>3. CASE Recheck /\ ~StillThere
      BY <2>1, <2>3, QuietStep DEF Recheck, Answer, Pending, Codes
    <2>4. CASE RecheckKept
      <3>1. frozen \subseteq seen  BY <2>4 DEF RecheckKept, SelInv, ReadsLive
      <3>2. stage' = "read" /\ code' = code /\ kept' = kept /\ seen' = seen
        BY <2>4 DEF RecheckKept, world, observers
      <3> QED  BY <2>1, <3>1, <3>2, QuietStep DEF Pending
    <2> QED  BY <1>9, <2>2, <2>3, <2>4
  <1>10. CASE BrowsePage
    <2> DEFINE left == (UNION {{s} \X Displayed(s) : s \in frozen}) \ shown
    <2>1. PICK page \in SUBSET left : Page(page, page # left)  BY <1>10 DEF BrowsePage
    <2>2. page \subseteq frozen \X Paths  BY PagedEntries
    <2> QED  BY <1>10, <2>1, <2>2, PageStep DEF BrowsePage
  <1>11. CASE StatsAnswers  BY <1>11, Unseen, QuietStep DEF StatsAnswers, Answer, Pending, Codes
  <1>12. ASSUME NEW limit \in 1..MaxSnapshots, FindPage(limit) PROVE SelInv'
    <2> DEFINE groups == {s \in frozen \cap repo : Displayed(s) # {}}
               position(s) == Cardinality({t \in groups : t < s})
               offset == Cardinality({s \in frozen : \E x \in Paths : <<s, x>> \in shown})
               page == {s \in groups : position(s) \in offset..(offset + limit - 1)}
               entries == UNION {{s} \X Displayed(s) : s \in page}
               more == Cardinality(groups) > offset + limit
    <2>1. stage = "read" /\ Page(entries, more)  BY <1>12 DEF FindPage
    <2>2. page \subseteq frozen /\ more \in BOOLEAN  OBVIOUS
    <2>3. entries \subseteq frozen \X Paths  BY <2>2, PagedEntries
    <2> HIDE DEF entries, more
    <2> QED  BY <2>1, <2>2, <2>3, PageStep
  <1>13. CASE Continue  BY <1>13, ContinueStep
  <1>14. ASSUME NEW s \in Snapshots, AddSnapshot(s) PROVE SelInv'
    <2>1. repo' \subseteq Snapshots /\ gone' \subseteq Snapshots \ repo'
      BY <1>14 DEF AddSnapshot, SelInv, TypeOK
    <2> QED  BY <1>14, <2>1, WorldStep DEF AddSnapshot
  <1>15. ASSUME NEW s \in Snapshots, RemoveSnapshot(s) PROVE SelInv'
    <2>1. repo' \subseteq Snapshots /\ gone' \subseteq Snapshots \ repo'
      BY <1>15 DEF RemoveSnapshot, SelInv, TypeOK
    <2> QED  BY <1>15, <2>1, WorldStep DEF RemoveSnapshot
  <1>16. CASE KeptByAnother \/ CacheExpires
    BY <1>16, CacheStep DEF KeptByAnother, CacheExpires, StillThere, observers
  <1>17. CASE UNCHANGED vars  BY <1>17, StutterStep
  <1> QED
    BY <1>1, <1>2, <1>3, <1>4, <1>5, <1>6, <1>7, <1>8, <1>9, <1>10, <1>11, <1>12, <1>13,
       <1>14, <1>15, <1>16, <1>17 DEF Next

(* SelInv is inductive, and the typing of Selection part of it. *)
THEOREM SelectionInvariant == Spec => []SelInv
  BY InitInv, StepInv, PTL DEF Spec

THEOREM Typing == Spec => []TypeOK
  <1>1. SelInv => TypeOK  BY DEF SelInv
  <1> QED  BY <1>1, SelectionInvariant, PTL

(* "latest" names a snapshot that was the newest wanted one at some moment  *)
(* of the request, whatever is added or removed meanwhile.                  *)
THEOREM LatestIsNewest == Spec => []LatestWasNewest
  <1>1. SelInv => LatestWasNewest  BY DEF SelInv, WellChosen, LatestWasNewest
  <1> QED  BY <1>1, SelectionInvariant, PTL

(* A page is cut from snapshots that were there when it was asked for, or at the *)
(* look the cache holds.                                                         *)
THEOREM LiveSelection == Spec => []PagesFromLiveSelection
  <1>1. SelInv => PagesFromLiveSelection
    BY DEF SelInv, ReadsLive, PagesFromLiveSelection
  <1> QED  BY <1>1, SelectionInvariant, PTL

(* A prefix of several visible ids is never resolved to one of them. *)
THEOREM PrefixesAreDecided == Spec => []NoSilentChoice
  <1>1. SelInv => NoSilentChoice  BY DEF SelInv, WellChosen, NoSilentChoice, WantedNow
  <1> QED  BY <1>1, SelectionInvariant, PTL

(* repository_stats counts only snapshots the policy shows as a whole. *)
THEOREM StatsAreWithinPolicy == Spec => []StatsWithinPolicy
  <1>1. ASSUME SelInv PROVE StatsWithinPolicy
    <2> SUFFICES ASSUME stage # "idle", request.tool = "stats", NEW s \in frozen
                 PROVE  Visible(s) /\ \A x \in Paths : In(s, x) => IsAllowed(policy, x)
      BY DEF StatsWithinPolicy
    <2>1. /\ s \in WantedNow /\ StatsSnapshotAllowed(policy, about[s])
          /\ policy \in Policies /\ about \in Catalogues /\ s \in Snapshots
      BY <1>1 DEF SelInv, WellChosen, TypeOK
    <2>2. /\ policy.paths \subseteq Seq(STRING) /\ about[s].roots \subseteq Seq(STRING)
          /\ Paths \subseteq Seq(STRING)
      BY <2>1, PathsKnown
    <2>3. \A x \in Paths : In(s, x) => IsAllowed(policy, x)
      BY <2>1, <2>2, StatsAllowedIsWhole DEF In
    <2> QED  BY <2>1, <2>3 DEF WantedNow, Wanted
  <1> QED  BY <1>1, SelectionInvariant, PTL

(* Every selected snapshot has something that the policy shows in the scope  *)
(* asked for: the longer of the scope and the overlapping root.              *)
THEOREM SelectionIsMeaningful == Spec => []SelectedHasVisiblePath
  <1>1. ASSUME SelInv PROVE SelectedHasVisiblePath
    <2> SUFFICES ASSUME NEW s \in frozen, policy.paths # {} \/ Scope(request) # None
                 PROVE  \E x \in Paths : In(s, x) /\ IsAllowed(policy, x) /\ InScope(request, x)
      BY DEF SelectedHasVisiblePath
    <2>1. s \in WantedNow /\ Granted /\ s \in Snapshots /\ request # None
      BY <1>1 DEF SelInv, WellChosen, ArgumentsGood, TypeOK, Untouched
    <2>2. CASE Scope(request) = None
      BY <2>1, <2>2 DEF WantedNow, Wanted, Visible, InScope
    <2>3. CASE Scope(request) # None
      <3>1. PICK x \in Paths : In(s, x) /\ Under(x, Scope(request))
        BY <2>1, <2>3 DEF WantedNow, Wanted
      <3>2. Scope(request) \in Paths /\ policy \in Policies
        BY <1>1, <2>1, <2>3, ScopeIsPath DEF SelInv, TypeOK, Optional
      <3>3. IsAllowed(policy, Scope(request))
        BY <2>1, <2>3 DEF Granted, Refused, PathGranted
      <3>4. IsAllowed(policy, x)  BY <3>1, <3>2, <3>3, PathsKnown, GrantedScope
      <3> QED  BY <3>1, <3>4 DEF InScope
    <2> QED  BY <2>2, <2>3
  <1> QED  BY <1>1, SelectionInvariant, PTL

-----------------------------------------------------------------------------
(* What is shown. *)

Showable(e) == Visible(e[1]) /\ IsAllowed(policy, e[2])
               /\ (request.tool \notin {"list", "get"} => InScope(request, e[2]))

LEMMA ShownGrows ==
  ASSUME ShownWithinPolicy, UNCHANGED <<policy, about, request>>,
         NEW entries, shown' = shown \cup entries, \A e \in entries : Showable(e)
  PROVE  ShownWithinPolicy'
  BY DEF ShownWithinPolicy, Showable, Visible, In, InScope, Scope, IsAllowed

LEMMA PageShowable ==
  ASSUME SelInv, NEW T, T \subseteq frozen, NEW e \in UNION {{s} \X Displayed(s) : s \in T}
  PROVE  Showable(e)
  <1>1. PICK s \in T : e \in {s} \X Displayed(s)  OBVIOUS
  <1>2. e[1] = s /\ e[2] \in Displayed(s)  BY <1>1
  <1>3. Visible(s)  BY <1>1 DEF SelInv, WellChosen, WantedNow, Wanted
  <1> QED  BY <1>2, <1>3 DEF Showable, Displayed

LEMMA ShownStep ==
  ASSUME SelInv, ShownWithinPolicy, [Next]_vars PROVE ShownWithinPolicy'
  <1>1. CASE UNCHANGED <<policy, about, request, shown>>
    BY <1>1 DEF ShownWithinPolicy, Visible, In, InScope, Scope, IsAllowed
  <1>2. CASE GetAnswers \/ ListAnswers
    <2>1. PICK tool \in {"list", "get"} :
            /\ Choice(tool) /\ frozen' = Chosen(Found) /\ request.tool = tool /\ shown = {}
            /\ UNCHANGED <<policy, about, request>>
      BY <1>2 DEF GetAnswers, ListAnswers, Choice, world, SelInv, Untouched
    <2> DEFINE entries == UNION {{s} \X Told(s) : s \in Chosen(Found)}
    <2>2. shown' = shown \cup entries  BY <1>2, <2>1 DEF GetAnswers, ListAnswers
    <2>3. ASSUME NEW e \in entries PROVE Showable(e)
      <3>1. PICK s \in Chosen(Found) : e \in {s} \X Told(s)  OBVIOUS
      <3>2. e[1] = s /\ e[2] \in Told(s)  BY <3>1
      <3>3. s \in WantedNow  BY <2>1, <3>1, ChoiceGood
      <3>4. Visible(s) /\ s \in Snapshots  BY <3>3 DEF WantedNow, Wanted
      <3>5. /\ policy.paths \subseteq Seq(STRING) /\ about[s].roots \subseteq Seq(STRING)
            /\ Paths \subseteq Seq(STRING)
        BY <3>4, PathsKnown DEF SelInv, TypeOK
      <3>6. /\ e[2] \in Paths
            /\ \E p \in FilterPaths(policy, about[s].roots) : Under(e[2], p)
        BY <3>2, <3>4, RootsPublished DEF Told
      <3>7. IsAllowed(policy, e[2])  BY <3>5, <3>6, FilterPathsExact
      <3> QED  BY <2>1, <3>2, <3>4, <3>7 DEF Showable
    <2> HIDE DEF entries
    <2> QED  BY <2>1, <2>2, <2>3, ShownGrows
  <1>3. CASE BrowsePage
    <2> DEFINE left == (UNION {{s} \X Displayed(s) : s \in frozen}) \ shown
    <2>1. PICK page \in SUBSET left : Page(page, page # left)  BY <1>3 DEF BrowsePage
    <2>2. \A e \in page : Showable(e)  BY PageShowable
    <2>3. shown' = shown \cup page /\ UNCHANGED <<policy, about, request>>
      BY <2>1 DEF Page, world
    <2> QED  BY <2>2, <2>3, ShownGrows
  <1>4. ASSUME NEW limit \in 1..MaxSnapshots, FindPage(limit) PROVE ShownWithinPolicy'
    <2> DEFINE groups == {s \in frozen \cap repo : Displayed(s) # {}}
               position(s) == Cardinality({t \in groups : t < s})
               offset == Cardinality({s \in frozen : \E x \in Paths : <<s, x>> \in shown})
               page == {s \in groups : position(s) \in offset..(offset + limit - 1)}
               entries == UNION {{s} \X Displayed(s) : s \in page}
    <2>1. shown' = shown \cup entries /\ UNCHANGED <<policy, about, request>>
      BY <1>4 DEF FindPage, Page, world
    <2>2. page \subseteq frozen  OBVIOUS
    <2>3. \A e \in entries : Showable(e)  BY <2>2, PageShowable
    <2> HIDE DEF entries
    <2> QED  BY <2>1, <2>3, ShownGrows
  <1>5. ASSUME NEW r \in Requests, Ask(r) PROVE ShownWithinPolicy'
    <2>1. shown' = {}  BY <1>5 DEF Ask, SelInv, Untouched
    <2> QED  BY <2>1 DEF ShownWithinPolicy
  <1> QED
    BY <1>1, <1>2, <1>3, <1>4, <1>5
    DEF Next, Fails, NoneFound, Ambiguous, Choice, BrowseChooses, FindChooses, StatsChooses,
        Recheck, RecheckKept, KeptByAnother, CacheExpires, StatsAnswers, Continue, AddSnapshot,
        RemoveSnapshot, vars, world

(* No answer shows anything outside the policy or the scope asked for. *)
THEOREM ShownIsWithinPolicy == Spec => []ShownWithinPolicy
  <1>1. Init => ShownWithinPolicy  BY DEF Init, ShownWithinPolicy
  <1>2. SelInv /\ ShownWithinPolicy /\ [Next]_vars => ShownWithinPolicy'  BY ShownStep
  <1> QED  BY <1>1, <1>2, SelectionInvariant, PTL DEF Spec

-----------------------------------------------------------------------------
LEMMA NotFoundStep == ASSUME SelInv, NotFoundIsTrue, [Next]_vars PROVE NotFoundIsTrue'
  <1>1. CASE UNCHANGED <<stage, code, stable, request, policy, about>>
    <2>1. WantedNow' = WantedNow  BY <1>1, Fixed
    <2> QED  BY <1>1, <2>1 DEF NotFoundIsTrue, WantedNow
  <1>2. CASE stage' # "answered" \/ code' # "snapshot_not_found"  BY <1>2 DEF NotFoundIsTrue
  <1>3. CASE /\ stage = "select" /\ Found = {}
             /\ UNCHANGED <<policy, about, request, stable>>
    <2>1. request # None /\ stable \subseteq repo  BY <1>3 DEF SelInv, TypeOK, Watched
    <2>2. WantedNow \cap repo = {}  BY <1>3, <2>1, FoundIsWanted DEF SelInv
    <2>3. WantedNow' = WantedNow  BY <1>3, Fixed
    <2> QED  BY <1>3, <2>1, <2>2, <2>3 DEF NotFoundIsTrue, WantedNow
  <1>4. ASSUME NEW r \in Requests, Ask(r) PROVE NotFoundIsTrue'
    BY <1>2, <1>4 DEF Ask, Answer
  <1>5. CASE NoneFound  BY <1>3, <1>5 DEF NoneFound, world, observers
  <1>6. CASE StatsChooses
    BY <1>2, <1>3, <1>6 DEF StatsChooses, Choice, Answer, observers
  <1>7. CASE ListAnswers \/ GetAnswers \/ FindChooses \/ BrowseChooses \/ Ambiguous
    BY <1>2, <1>7 DEF ListAnswers, GetAnswers, FindChooses, BrowseChooses, Ambiguous, Answer
  <1>8. ASSUME NEW at \in {"select", "recheck", "read"}, Fails(at) PROVE NotFoundIsTrue'
    BY <1>2, <1>8 DEF Fails, Answer
  <1>9. CASE Recheck \/ RecheckKept \/ StatsAnswers \/ Continue
    BY <1>2, <1>9 DEF Recheck, RecheckKept, StatsAnswers, Continue, Answer
  <1>10. CASE BrowsePage \/ \E limit \in 1..MaxSnapshots : FindPage(limit)
    BY <1>2, <1>10 DEF BrowsePage, FindPage, Page
  <1>11. ASSUME NEW s \in Snapshots, AddSnapshot(s) \/ RemoveSnapshot(s) PROVE NotFoundIsTrue'
    BY <1>2, <1>11 DEF AddSnapshot, RemoveSnapshot, Pending
  <1>12. CASE KeptByAnother \/ CacheExpires \/ UNCHANGED vars
    BY <1>1, <1>12 DEF KeptByAnother, CacheExpires, vars, world, observers
  <1> QED
    BY <1>4, <1>5, <1>6, <1>7, <1>8, <1>9, <1>10, <1>11, <1>12 DEF Next

(* "snapshot_not_found" is true of everything that was there throughout. *)
THEOREM NotFoundIsHonest == Spec => []NotFoundIsTrue
  <1>1. Init => NotFoundIsTrue  BY DEF Init, NotFoundIsTrue
  <1>2. SelInv /\ NotFoundIsTrue /\ [Next]_vars => NotFoundIsTrue'  BY NotFoundStep
  <1> QED  BY <1>1, <1>2, SelectionInvariant, PTL DEF Spec

-----------------------------------------------------------------------------
(* Freshness. *)

(* A finite set of numbers has a last one: a number with the fewest above it. *)
LEMMA FiniteHasLast ==
  ASSUME NEW S, S \subseteq Int, IsFiniteSet(S), S # {}
  PROVE  \E s \in S : \A t \in S : t <= s
  <1> DEFINE above(s) == {t \in S : s < t}
             family == {above(s) : s \in S}
  <1>1. family \subseteq FiniteSubsetsOf(S) /\ family # {}
    <2>1. ASSUME NEW s \in S PROVE above(s) \in FiniteSubsetsOf(S)
      <3>1. above(s) \in SUBSET S  OBVIOUS
      <3> HIDE DEF above
      <3>2. IsFiniteSet(above(s))  BY <3>1, FS_Subset
      <3> QED  BY <3>1, <3>2 DEF FiniteSubsetsOf
    <2> QED  BY <2>1
  <1>2. PICK x \in family : \A y \in family : ~(<<y, x>> \in StrictSubsetOrdering(S))
    BY <1>1, WFMin, FS_StrictSubsetOrderingWellFounded
  <1>3. PICK s \in S : x = above(s)  OBVIOUS
  <1>4. ASSUME NEW t \in S, s < t PROVE FALSE
    <2>1. above(t) \subseteq above(s) /\ above(t) # above(s)
      <3>1. s \in Int /\ t \in Int  OBVIOUS
      <3>2. \A u \in S : t < u => s < u  BY <1>4, <3>1
      <3>3. t \in above(s) /\ t \notin above(t)  BY <1>4, <3>1
      <3> QED  BY <3>2, <3>3
    <2>2. above(t) \subseteq S /\ above(s) \subseteq S /\ above(t) \in family  OBVIOUS
    <2>3. <<above(t), above(s)>> \in StrictSubsetOrdering(S)
      BY <2>1, <2>2 DEF StrictSubsetOrdering
    <2> QED  BY <1>2, <1>3, <2>2, <2>3
  <1> QED  BY <1>4

(* What list_snapshots shows is what was wanted when it chose. *)
Listed ==
  Answered({"list"}) => stable \cap WantedNow \subseteq frozen /\ frozen \subseteq seen

LEMMA ListedStep == ASSUME SelInv, Listed, [Next]_vars PROVE Listed'
  <1>1. CASE stage' # "answered" \/ code' # "ok" \/ request'.tool # "list"
    BY <1>1 DEF Listed, Answered
  <1>2. CASE UNCHANGED <<policy, about, request, stage, code, frozen, stable, seen>>
    <2>1. WantedNow' = WantedNow  BY <1>2, Fixed
    <2> QED  BY <1>2, <2>1 DEF Listed, Answered
  <1>3. CASE ListAnswers
    <2>1. /\ Choice("list") /\ frozen' = Chosen(Found) /\ stage = "select"
          /\ UNCHANGED <<policy, about, request, stable, seen>> /\ request.tool = "list"
      BY <1>3 DEF ListAnswers, Choice, observers
    <2>2. request.id = None
      <3>1. request \in Requests  BY <2>1, ChoiceGood
      <3> QED  BY <2>1, <3>1 DEF Requests, Calls
    <2>3. frozen' = WantedNow \cap repo  BY <2>1, <2>2, ChoiceGood
    <2>4. stable \subseteq repo /\ repo \subseteq seen
      BY <2>1 DEF SelInv, Watched, Pending
    <2>5. WantedNow' = WantedNow  BY <2>1, Fixed
    <2> QED  BY <2>1, <2>3, <2>4, <2>5 DEF Listed
  <1>4. CASE GetAnswers \/ BrowseChooses \/ FindChooses \/ StatsChooses
    BY <1>1, <1>4
    DEF GetAnswers, BrowseChooses, FindChooses, StatsChooses, Choice
  <1>5. CASE BrowsePage \/ StatsAnswers \/ \E limit \in 1..MaxSnapshots : FindPage(limit)
    BY <1>1, <1>5 DEF BrowsePage, StatsAnswers, FindPage, Page
  <1>6. ASSUME NEW r \in Requests, Ask(r) PROVE Listed'
    BY <1>1, <1>6 DEF Ask, Answer
  <1>7. CASE NoneFound \/ Ambiguous \/ \E at \in {"select", "recheck", "read"} : Fails(at)
    BY <1>1, <1>7 DEF NoneFound, Ambiguous, Fails, Answer
  <1>8. CASE Recheck \/ RecheckKept \/ KeptByAnother \/ Continue
    BY <1>1, <1>8 DEF Recheck, RecheckKept, KeptByAnother, Continue, Answer
  <1>9. ASSUME NEW s \in Snapshots, AddSnapshot(s) \/ RemoveSnapshot(s) PROVE Listed'
    BY <1>1, <1>9 DEF AddSnapshot, RemoveSnapshot, Pending
  <1>10. CASE CacheExpires \/ UNCHANGED vars
    BY <1>2, <1>10 DEF CacheExpires, vars, world, observers
  <1> QED
    BY <1>3, <1>4, <1>5, <1>6, <1>7, <1>8, <1>9, <1>10 DEF Next

(* What the words of the summary mean of the listing it is made of. *)
Status(now, cadence, mode) == Judgement(Groups(Published, frozen, mode), cadence, now)
SeenTags(s) == {t \in about[s].tags : policy.tags # {} => t \in policy.tags}
SeenKey(mode, s) == IF mode = "host" THEN Named(about[s].host)
                    ELSE Spelled(about[s].host, SeenTags(s))
Alike(mode, s, t) == SeenKey(mode, t) = SeenKey(mode, s)
GroupOf(mode, s) == {t \in frozen : Alike(mode, s, t)}

SummaryTrue(now, cadence, mode) ==
  /\ Status(now, cadence, mode) = "no_visible_snapshots" => stable \cap Wanted(request) = {}
  /\ Status(now, cadence, mode) = "within_cadence" =>
       \A s \in stable \cap Wanted(request) :
         \E t \in seen \cap Wanted(request) : Alike(mode, s, t) /\ now - t <= cadence
  /\ Status(now, cadence, mode) = "overdue" =>
       \E s \in seen \cap Wanted(request) :
         \A t \in (stable \cap Wanted(request)) \cup {s} :
           Alike(mode, s, t) => now - t > cadence

\* The code's key, which is made of what publicSnapshot has left of the tags.
LEMMA KeyIsSeen == ASSUME NEW mode, NEW s \in Snapshots
                   PROVE  GroupKey(mode, Published[s]) = SeenKey(mode, s)
  <1>1. FilterTags(policy, about[s].tags) = SeenTags(s)  BY DEF FilterTags, SeenTags
  <1>2. /\ Published[s].host = about[s].host
        /\ Published[s].tags = FilterTags(policy, about[s].tags)
    BY DEF Published, PublicSnapshot
  <1> QED  BY <1>1, <1>2, Zenon DEF GroupKey, SeenKey

LEMMA GroupsByKey == ASSUME NEW mode, frozen \subseteq Snapshots
                     PROVE Groups(Published, frozen, mode) = {GroupOf(mode, s) : s \in frozen}
  <1>1. \A s \in frozen : GroupKey(mode, Published[s]) = SeenKey(mode, s)  BY KeyIsSeen
  <1>2. \A s \in frozen :
          {t \in frozen : GroupKey(mode, Published[t]) = GroupKey(mode, Published[s])}
            = GroupOf(mode, s)
    BY <1>1 DEF GroupOf, Alike
  <1> QED  BY <1>2, Zenon DEF Groups

LEMMA NoneJudged ==
  ASSUME frozen \subseteq Snapshots, NEW now, NEW cadence, NEW mode,
         Status(now, cadence, mode) = "no_visible_snapshots"
  PROVE  frozen = {}
  <1>1. Groups(Published, frozen, mode) = {}  BY DEF Status, Judgement
  <1> QED  BY <1>1, GroupsByKey

LEMMA WithinJudged ==
  ASSUME frozen \subseteq Snapshots, IsFiniteSet(frozen), NEW now \in Int,
         NEW cadence \in Nat \cup {None}, NEW mode,
         Status(now, cadence, mode) = "within_cadence", NEW s \in frozen
  PROVE  \E t \in frozen : Alike(mode, s, t) /\ now - t <= cadence
  <1>1. GroupOf(mode, s) \in Groups(Published, frozen, mode)  BY GroupsByKey
  <1>2. cadence \in Nat /\ ~Overdue(GroupOf(mode, s), cadence, now)
    BY <1>1 DEF Status, Judgement
  <1>3. GroupOf(mode, s) \in SUBSET frozen /\ s \in GroupOf(mode, s)  BY DEF GroupOf, Alike
  <1>4. GroupOf(mode, s) \subseteq Int /\ IsFiniteSet(GroupOf(mode, s))
    <2>1. IsFiniteSet(GroupOf(mode, s))  BY <1>3, FS_Subset
    <2>2. Snapshots \subseteq Int  BY SnapshotsOrdered
    <2> QED  BY <1>3, <2>1, <2>2
  <1>5. PICK t \in GroupOf(mode, s) : \A u \in GroupOf(mode, s) : u <= t
    BY <1>3, <1>4, FiniteHasLast
  <1>6. ~(Age(t, now) > cadence)  BY <1>2, <1>5 DEF Overdue, Newest
  <1>7. now - t <= cadence  BY <1>2, <1>4, <1>6 DEF Age
  <1>8. t \in frozen /\ Alike(mode, s, t)  BY <1>5 DEF GroupOf
  <1> QED  BY <1>7, <1>8

LEMMA OverdueJudged ==
  ASSUME frozen \subseteq Snapshots, NEW now \in Int, NEW cadence \in Nat \cup {None}, NEW mode,
         Status(now, cadence, mode) = "overdue"
  PROVE  \E s \in frozen : \A t \in frozen : Alike(mode, s, t) => now - t > cadence
  <1>1. cadence \in Nat /\ \E g \in Groups(Published, frozen, mode) : Overdue(g, cadence, now)
    BY DEF Status, Judgement
  <1>2. PICK s \in frozen : Overdue(GroupOf(mode, s), cadence, now)  BY <1>1, GroupsByKey
  <1>3. PICK u \in GroupOf(mode, s) :
          (\A t \in GroupOf(mode, s) : t <= u) /\ Age(u, now) > cadence
    BY <1>2 DEF Overdue, Newest
  <1>4. frozen \subseteq Int /\ u \in Int  BY <1>3, SnapshotsOrdered DEF GroupOf
  <1>5. ASSUME NEW t \in frozen, Alike(mode, s, t) PROVE now - t > cadence
    <2>1. t \in GroupOf(mode, s)  BY <1>5 DEF GroupOf
    <2>2. t \in Int /\ t <= u  BY <1>3, <1>4, <2>1
    <2> QED  BY <1>1, <1>3, <1>4, <2>2 DEF Age
  <1> QED  BY <1>5

(* The freshness summary of list_snapshots is true of the repository, for    *)
(* every clock and cadence and whatever is added or removed meanwhile.       *)
THEOREM FreshnessHolds == Spec => []FreshnessIsTrue
  <1>1. Init => Listed  BY DEF Init, Listed, Answered
  <1>2. SelInv /\ Listed /\ [Next]_vars => Listed'  BY ListedStep
  <1>3. ASSUME SelInv, Listed, Answered({"list"}),
               NEW now \in Moments, NEW cadence \in Cadences, NEW mode \in GroupModes
        PROVE  SummaryTrue(now, cadence, mode)
    <2>1. now \in Int /\ cadence \in Nat \cup {None}  BY JudgedInTime
    <2>2. frozen \subseteq Snapshots /\ IsFiniteSet(frozen)
      <3>1. frozen \in SUBSET Snapshots  BY <1>3 DEF SelInv, TypeOK
      <3> QED  BY <3>1, SnapshotsOrdered, FS_Subset
    <2>3. stable \cap Wanted(request) \subseteq frozen  BY <1>3 DEF Listed, WantedNow
    <2>4. frozen \subseteq seen \cap Wanted(request)
      BY <1>3 DEF SelInv, WellChosen, Listed, WantedNow
    <2>5. Status(now, cadence, mode) = "no_visible_snapshots" =>
            stable \cap Wanted(request) = {}
      BY <2>2, <2>3, NoneJudged
    <2>6. ASSUME Status(now, cadence, mode) = "within_cadence",
                 NEW s \in stable \cap Wanted(request)
          PROVE  \E t \in seen \cap Wanted(request) : Alike(mode, s, t) /\ now - t <= cadence
      <3>1. s \in frozen  BY <2>3, <2>6
      <3>2. \E t \in frozen : Alike(mode, s, t) /\ now - t <= cadence
        BY ONLY <2>1, <2>2, <2>6, <3>1, WithinJudged
      <3> QED  BY ONLY <2>4, <3>2
    <2>7. ASSUME Status(now, cadence, mode) = "overdue"
          PROVE  \E s \in seen \cap Wanted(request) :
                   \A t \in (stable \cap Wanted(request)) \cup {s} :
                     Alike(mode, s, t) => now - t > cadence
      <3>1. PICK s \in frozen : \A t \in frozen : Alike(mode, s, t) => now - t > cadence
        BY ONLY <2>1, <2>2, <2>7, OverdueJudged
      <3> QED  BY ONLY <2>3, <2>4, <3>1
    <2> QED  BY <2>5, <2>6, <2>7 DEF SummaryTrue
  <1>4. ASSUME SelInv, Listed PROVE FreshnessIsTrue
    <2>1. ASSUME Answered({"list"}),
                 NEW now \in Moments, NEW cadence \in Cadences, NEW mode \in GroupModes
          PROVE  SummaryTrue(now, cadence, mode)
      BY <1>3, <1>4, <2>1
    <2> QED  BY <2>1 DEF FreshnessIsTrue, SummaryTrue, Status, Alike, SeenKey, SeenTags
  <1> QED  BY <1>1, <1>2, <1>4, SelectionInvariant, PTL DEF Spec

-----------------------------------------------------------------------------
(* Nothing stable is overlooked.  A page of find_files begins after as many    *)
(* groups as have been shown, so that it has to be the next ones: what has     *)
(* been shown is always an initial part of the groups.                         *)

Position(G, s) == Cardinality({t \in G : t < s})
Initial(D, G) == \A s \in D, t \in G : t < s => t \in D

LEMMA SomeSnapshots ==
  ASSUME NEW G \in SUBSET Snapshots
  PROVE  IsFiniteSet(G) /\ Cardinality(G) \in Nat /\ G \subseteq Int
  <1>1. IsFiniteSet(G)  BY SnapshotsOrdered, FS_Subset
  <1>2. Cardinality(G) \in Nat  BY <1>1, FS_CardinalityType
  <1>3. G \subseteq Int  BY SnapshotsOrdered
  <1> QED  BY <1>1, <1>2, <1>3

LEMMA PositionsGrow ==
  ASSUME NEW G \in SUBSET Snapshots, NEW s \in G
  PROVE  /\ IsFiniteSet(G) /\ Cardinality(G) \in Nat
         /\ Position(G, s) \in Nat /\ Position(G, s) < Cardinality(G)
         /\ \A t \in G : s < t => Position(G, s) < Position(G, t)
  <1>1. IsFiniteSet(G) /\ Cardinality(G) \in Nat /\ G \subseteq Int  BY SomeSnapshots
  <1>2. ASSUME NEW B \in SUBSET G, s \in B, \A t \in G : t < s => t \in B
        PROVE  Position(G, s) \in Nat /\ Cardinality(B) \in Nat /\ Position(G, s) < Cardinality(B)
    <2> DEFINE C == {t \in G : t < s}
    <2>1. IsFiniteSet(B) /\ Cardinality(B) \in Nat  BY <1>1, FS_Subset, FS_CardinalityType
    <2>2. /\ IsFiniteSet(B \ {s}) /\ Cardinality(B \ {s}) = Cardinality(B) - 1
          /\ Cardinality(B \ {s}) \in Nat
      BY <1>2, <2>1, FS_RemoveElement, FS_CardinalityType
    <2>3. C \in SUBSET (B \ {s})
      <3>1. ASSUME NEW t \in C PROVE t \in B /\ t # s  BY <1>1, <1>2, <3>1
      <3> QED  BY <3>1
    <2>4. IsFiniteSet(C) /\ Cardinality(C) <= Cardinality(B \ {s})  BY <2>2, <2>3, FS_Subset
    <2>5. Cardinality(C) \in Nat  BY <2>4, FS_CardinalityType
    <2> QED  BY <2>1, <2>2, <2>4, <2>5 DEF Position
  <1>3. Position(G, s) \in Nat /\ Position(G, s) < Cardinality(G)  BY <1>2
  <1>4. ASSUME NEW t \in G, s < t PROVE Position(G, s) < Position(G, t)
    <2> DEFINE B == {u \in G : u < t}
    <2>1. B \in SUBSET G /\ s \in B /\ \A u \in G : u < s => u \in B  BY <1>1, <1>4
    <2>2. Position(G, s) < Cardinality(B)  BY <1>2, <2>1
    <2> QED  BY <2>2 DEF Position
  <1> QED  BY <1>1, <1>3, <1>4

LEMMA NextInOrder ==
  ASSUME NEW G \in SUBSET Snapshots, NEW D \in SUBSET G, Initial(D, G), NEW limit \in Nat,
         NEW P, P = {s \in G : Position(G, s) \in Cardinality(D)..(Cardinality(D) + limit - 1)}
  PROVE  Initial(D \cup P, G) /\ (~(Cardinality(G) > Cardinality(D) + limit) => D \cup P = G)
  <1>1. IsFiniteSet(G) /\ G \subseteq Int  BY SomeSnapshots
  <1>2. Cardinality(G) \in Nat /\ Cardinality(D) \in Nat
    BY <1>1, FS_Subset, FS_CardinalityType
  <1>3. ASSUME NEW s \in G, s \notin D
        PROVE  /\ Cardinality(D) <= Position(G, s)
               /\ Position(G, s) \in Nat /\ Position(G, s) < Cardinality(G)
    <2> DEFINE C == {t \in G : t < s}
    <2>1. D \in SUBSET C  BY <1>1, <1>3 DEF Initial
    <2>2. IsFiniteSet(C)
      <3>1. C \in SUBSET G  OBVIOUS
      <3> QED  BY <1>1, <3>1, FS_Subset
    <2>3. Cardinality(D) <= Cardinality(C)  BY <2>1, <2>2, FS_Subset
    <2> QED  BY <2>3, PositionsGrow DEF Position
  <1>4. ASSUME NEW s \in D \cup P, NEW t \in G, t < s PROVE t \in D \cup P
    <2>1. CASE t \in D  BY <2>1
    <2>2. CASE s \in D  BY <1>4, <2>2 DEF Initial
    <2>3. CASE t \notin D /\ s \in P
      <3>1. Position(G, t) < Position(G, s)  BY <1>4, <2>3, PositionsGrow
      <3>2. Position(G, s) \in Cardinality(D)..(Cardinality(D) + limit - 1)  BY <2>3
      <3> QED  BY <1>2, <1>3, <2>3, <3>1, <3>2
    <2> QED  BY <2>1, <2>2, <2>3
  <1>5. ASSUME ~(Cardinality(G) > Cardinality(D) + limit), NEW s \in G PROVE s \in D \cup P
    BY <1>2, <1>3, <1>5
  <1> QED  BY <1>4, <1>5 DEF Initial

Whole(s) == {s} \X Displayed(s) \subseteq shown
Begun == {s \in frozen : \E x \in Paths : <<s, x>> \in shown}
GroupsOf == {s \in frozen : Displayed(s) # {}}

Going == stage \in {"recheck", "read", "holding"} \/ (stage = "answered" /\ code = "ok")

(* What the tools account for: everything wanted is chosen, a listing tells    *)
(* all, the last page of browse_snapshot the rest, and find_files goes group   *)
(* by group.                                                                   *)
AllChosen ==
  Going /\ request.tool \in {"list", "find"} /\ request.id = None =>
    stable \cap WantedNow \subseteq frozen

AllTold ==
  /\ Answered({"list", "get"}) => \A s \in frozen : {s} \X Told(s) \subseteq shown
  /\ Answered({"browse"}) => \A s \in frozen : Whole(s)

GroupByGroup ==
  Going /\ request.tool = "find" /\ frozen \subseteq stable =>
    /\ Begun \subseteq GroupsOf /\ Initial(Begun, GroupsOf)
    /\ \A s \in Begun : Whole(s)
    /\ stage = "answered" => \A s \in frozen : Whole(s)

Accounted == AllChosen /\ AllTold /\ GroupByGroup

LEMMA FixedDisplay ==
  ASSUME UNCHANGED <<policy, about, request>>
  PROVE  \A s : Displayed(s)' = Displayed(s) /\ Told(s)' = Told(s)
  BY DEF Displayed, Told, Published, InTree, InScope, Scope

LEMMA NotGoing == (~Going => Accounted) /\ (~Going' => Accounted')
  BY DEF Going, Accounted, AllChosen, AllTold, GroupByGroup, Answered

(* Steps that neither choose nor show anything, and do not end the request. *)
LEMMA QuietAccounts ==
  ASSUME Accounted, UNCHANGED <<policy, about, request, frozen, shown>>, stable' \subseteq stable,
         Going' => Going, Going' /\ stage' = "answered" => stage = "answered"
  PROVE  Accounted'
  <1>1. WantedNow' = WantedNow  BY Fixed
  <1>2. AllChosen'  BY <1>1 DEF Accounted, AllChosen
  <1>3. \A s : Whole(s)' <=> Whole(s)  BY FixedDisplay DEF Whole
  <1>4. AllTold'  BY <1>3, FixedDisplay DEF Accounted, AllTold, Answered, Going
  <1>5. Begun' = Begun /\ GroupsOf' = GroupsOf  BY FixedDisplay DEF Begun, GroupsOf
  <1>6. GroupByGroup'  BY <1>3, <1>5 DEF Accounted, GroupByGroup, Initial
  <1> QED  BY <1>2, <1>4, <1>6 DEF Accounted

LEMMA ChoiceAccounts ==
  ASSUME SelInv, ListAnswers \/ GetAnswers
  PROVE  Accounted'
  <1>1. PICK tool \in {"list", "get"} : Choice(tool)  BY DEF ListAnswers, GetAnswers
  <1>2. /\ frozen' = Chosen(Found) /\ shown' = UNION {{s} \X Told(s) : s \in frozen'}
        /\ UNCHANGED <<policy, about, request, stable>> /\ request.tool \in {"list", "get"}
    BY <1>1 DEF ListAnswers, GetAnswers, Choice, observers
  <1>3. stable \subseteq repo  BY DEF SelInv, Watched
  <1>4. AllChosen'
    <2>1. request.id = None => frozen' = WantedNow \cap repo  BY <1>1, <1>2, ChoiceGood
    <2>2. WantedNow' = WantedNow  BY <1>2, Fixed
    <2> QED  BY <1>2, <1>3, <2>1, <2>2 DEF AllChosen
  <1>5. \A s \in frozen' : {s} \X Told(s)' \subseteq shown'  BY <1>2, FixedDisplay
  <1> QED  BY <1>2, <1>4, <1>5 DEF Accounted, AllTold, GroupByGroup, Answered

LEMMA FindAccounts == ASSUME SelInv, FindChooses PROVE Accounted'
  <1>1. /\ Choice("find") /\ stage = "select" /\ request.tool = "find" /\ frozen = {} /\ shown = {}
        /\ shown' = {} /\ UNCHANGED <<policy, about, request, stable>>
    BY DEF FindChooses, Choice, SelInv, Untouched, observers
  <1>2. CASE TooMany(Chosen(Found)) /\ Answer("invalid_argument")
    <2>1. ~Going'  BY <1>2 DEF Answer, Going
    <2> QED  BY <2>1, NotGoing
  <1>3. CASE frozen' = Chosen(Found) /\ (Found # {} \/ frozen' = {})
    <2>1. stable \subseteq repo  BY DEF SelInv, Watched
    <2>2. AllChosen'
      <3>1. request.id = None => frozen' = WantedNow \cap repo  BY <1>1, <1>3, ChoiceGood
      <3>2. WantedNow' = WantedNow  BY <1>1, Fixed
      <3> QED  BY <1>1, <2>1, <3>1, <3>2 DEF AllChosen
    <2>3. Begun' = {}  BY <1>1 DEF Begun
    <2>4. stage' = "answered" => frozen' = {}
      BY <1>1, <1>2, <1>3 DEF FindChooses
    <2>5. GroupByGroup'  BY <2>3, <2>4 DEF GroupByGroup, Initial
    <2> QED  BY <1>1, <2>2, <2>5 DEF Accounted, AllTold, Answered
  <1>4. Found = {} => Chosen(Found) = {}  BY DEF Chosen, LastOf
  <1> QED  BY <1>1, <1>2, <1>3, <1>4 DEF FindChooses

LEMMA BrowseAccounts == ASSUME SelInv, BrowsePage PROVE Accounted'
  <1> DEFINE left == (UNION {{s} \X Displayed(s) : s \in frozen}) \ shown
  <1>1. PICK page \in SUBSET left : Page(page, page # left)  BY DEF BrowsePage
  <1>2. /\ UNCHANGED <<policy, about, request, frozen>> /\ shown' = shown \cup page
        /\ request.tool = "browse" /\ (stage' = "answered" => page = left)
    BY <1>1 DEF BrowsePage, Page, world
  <1>3. ASSUME stage' = "answered", NEW s \in frozen PROVE Whole(s)'
    <2>1. shown' = shown \cup left  BY <1>2, <1>3
    <2>2. {s} \X Displayed(s) \subseteq shown'  BY <2>1
    <2> QED  BY <1>2, <2>2, FixedDisplay DEF Whole
  <1> QED  BY <1>2, <1>3 DEF Accounted, AllChosen, AllTold, GroupByGroup, Answered

LEMMA FindPageAccounts ==
  ASSUME SelInv, Accounted, NEW limit \in 1..MaxSnapshots, FindPage(limit)
  PROVE  Accounted'
  <1> DEFINE groups == {s \in frozen \cap repo : Displayed(s) # {}}
             page == {s \in groups : Position(groups, s) \in
                        Cardinality(Begun)..(Cardinality(Begun) + limit - 1)}
             entries == UNION {{s} \X Displayed(s) : s \in page}
             more == Cardinality(groups) > Cardinality(Begun) + limit
  <1>1. Page(entries, more) /\ stage = "read" /\ request.tool = "find"
    BY DEF FindPage, Begun, Position
  <1>2. /\ UNCHANGED <<policy, about, request, frozen, stable>> /\ shown' = shown \cup entries
        /\ (stage' = "answered" => ~more)
    BY <1>1 DEF Page, world, observers
  <1>3. AllChosen'
    <2>1. WantedNow' = WantedNow  BY <1>2, Fixed
    <2> QED  BY <1>1, <1>2, <2>1 DEF Accounted, AllChosen, Going
  <1>4. AllTold'  BY <1>1, <1>2 DEF AllTold, Answered
  <1>5. ASSUME frozen \subseteq stable
        PROVE  /\ Begun' \subseteq GroupsOf' /\ Initial(Begun', GroupsOf')
               /\ \A s \in Begun' : Whole(s)'
               /\ stage' = "answered" => \A s \in frozen : Whole(s)'
    <2>1. groups = GroupsOf /\ GroupsOf' = GroupsOf
      <3>1. stable \subseteq repo  BY <1>1 DEF SelInv, Watched, Pending
      <3> QED  BY <1>2, <1>5, <3>1, FixedDisplay DEF GroupsOf
    <2>2. /\ Begun \subseteq GroupsOf /\ Initial(Begun, GroupsOf)
          /\ \A s \in Begun : Whole(s)
      BY <1>1, <1>5 DEF Accounted, GroupByGroup, Going
    <2>3. GroupsOf \in SUBSET Snapshots /\ limit \in Nat
      BY LimitPositive DEF SelInv, TypeOK, GroupsOf
    <2>4. page \subseteq GroupsOf  BY <2>1
    <2>5. /\ Initial(Begun \cup page, GroupsOf)
          /\ ~more => Begun \cup page = GroupsOf
      <3>1. page = {s \in GroupsOf : Position(GroupsOf, s) \in
                      Cardinality(Begun)..(Cardinality(Begun) + limit - 1)}
        BY <2>1
      <3>2. Begun \in SUBSET GroupsOf /\ Initial(Begun, GroupsOf)  BY <2>2
      <3>3. more <=> Cardinality(GroupsOf) > Cardinality(Begun) + limit  BY <2>1
      <3> HIDE DEF page, more, groups
      <3> QED  BY <2>3, <3>1, <3>2, <3>3, NextInOrder
    <2> HIDE DEF page
    <2>6. Begun' = Begun \cup page
      <3>1. ASSUME NEW s \in page PROVE \E x \in Paths : <<s, x>> \in entries
        <4>1. PICK x \in Displayed(s) : TRUE  BY <2>4, <3>1 DEF GroupsOf
        <4>2. x \in Paths  BY <4>1 DEF Displayed
        <4>3. <<s, x>> \in {s} \X Displayed(s)  BY <4>1
        <4> QED  BY <3>1, <4>2, <4>3
      <3>2. \A s, x : <<s, x>> \in entries => s \in page  OBVIOUS
      <3>3. page \subseteq frozen  BY <2>4 DEF GroupsOf
      <3> HIDE DEF entries
      <3> QED  BY <1>2, <3>1, <3>2, <3>3 DEF Begun
    <2>7. ASSUME NEW s \in Begun \cup page PROVE Whole(s)'
      <3>1. CASE s \in Begun  BY <1>2, <2>2, <3>1, FixedDisplay DEF Whole
      <3>2. CASE s \in page
        <4>1. {s} \X Displayed(s) \subseteq entries  BY <3>2
        <4> QED  BY <1>2, <4>1, FixedDisplay DEF Whole
      <3> QED  BY <2>7, <3>1, <3>2
    <2>8. ASSUME NEW s \in frozen, s \notin GroupsOf PROVE Whole(s)'
      <3>1. Displayed(s)' = {}  BY <1>2, <2>8, FixedDisplay DEF GroupsOf
      <3> QED  BY <3>1 DEF Whole
    <2> QED  BY <1>2, <2>1, <2>2, <2>4, <2>5, <2>6, <2>7, <2>8
  <1>6. GroupByGroup'  BY <1>2, <1>5 DEF GroupByGroup
  <1> QED  BY <1>3, <1>4, <1>6 DEF Accounted

LEMMA AccountedStep == ASSUME SelInv, Accounted, [Next]_vars PROVE Accounted'
  <1>1. ASSUME NEW r \in Requests, Ask(r) PROVE Accounted'
    <2>1. ~Going'  BY <1>1 DEF Ask, Answer, Going
    <2> QED  BY <2>1, NotGoing
  <1>2. CASE NoneFound \/ Ambiguous \/ \E at \in {"select", "recheck", "read"} : Fails(at)
    <2>1. ~Going'  BY <1>2 DEF NoneFound, Ambiguous, Fails, Answer, Going
    <2> QED  BY <2>1, NotGoing
  <1>3. CASE ListAnswers \/ GetAnswers  BY <1>3, ChoiceAccounts
  <1>4. CASE FindChooses  BY <1>4, FindAccounts
  <1>5. CASE BrowseChooses
    <2>1. request' = request /\ request.tool = "browse" /\ stage' = "recheck"
      BY <1>5 DEF BrowseChooses, Choice
    <2> QED  BY <2>1 DEF Accounted, AllChosen, AllTold, GroupByGroup, Answered
  <1>6. CASE StatsChooses
    <2>1. request' = request /\ request.tool = "stats"  BY <1>6 DEF StatsChooses, Choice
    <2> QED  BY <2>1 DEF Accounted, AllChosen, AllTold, GroupByGroup, Answered
  <1>7. CASE StatsAnswers
    <2>1. request' = request /\ request.tool = "stats"  BY <1>7 DEF StatsAnswers
    <2> QED  BY <2>1 DEF Accounted, AllChosen, AllTold, GroupByGroup, Answered
  <1>8. CASE BrowsePage  BY <1>8, BrowseAccounts
  <1>9. ASSUME NEW limit \in 1..MaxSnapshots, FindPage(limit) PROVE Accounted'
    BY <1>9, FindPageAccounts
  <1>10. CASE Recheck
    <2>1. CASE Answer("stale_selection")
      <3>1. ~Going'  BY <2>1 DEF Answer, Going
      <3> QED  BY <3>1, NotGoing
    <2>2. CASE stage' = "read"
      BY <1>10, <2>2, QuietAccounts DEF Recheck, Going
    <2> QED  BY <1>10, <2>1, <2>2 DEF Recheck
  <1>11. CASE RecheckKept \/ KeptByAnother \/ CacheExpires \/ Continue
    <2>1. /\ UNCHANGED <<policy, about, request, frozen, shown, stable>>
          /\ Going' => Going
          /\ stage' = "answered" => stage = "answered"
      BY <1>11 DEF RecheckKept, KeptByAnother, CacheExpires, Continue, Going, world, observers
    <2> QED  BY <2>1, QuietAccounts
  <1>12. ASSUME NEW s \in Snapshots, AddSnapshot(s) \/ RemoveSnapshot(s) PROVE Accounted'
    <2>1. /\ UNCHANGED <<policy, about, request, stage, code, frozen, shown>>
          /\ stable' \subseteq stable
      BY <1>12 DEF AddSnapshot, RemoveSnapshot, Observe
    <2> QED  BY <2>1, QuietAccounts DEF Going
  <1>13. CASE UNCHANGED vars
    BY <1>13, QuietAccounts DEF vars, world, observers, Going
  <1> QED
    BY <1>1, <1>2, <1>3, <1>4, <1>5, <1>6, <1>7, <1>8, <1>9, <1>10, <1>11, <1>12, <1>13
    DEF Next

(* An answer that claims to be complete leaves out nothing that stayed in the *)
(* repository: for every page size, wherever find_files divides its groups.   *)
THEOREM NothingOverlooked == Spec => []NothingStableOverlooked
  <1>1. Init => Accounted  BY NotGoing DEF Init, Going
  <1>2. SelInv /\ Accounted /\ [Next]_vars => Accounted'  BY AccountedStep
  <1>3. ASSUME SelInv, Accounted PROVE NothingStableOverlooked
    <2>1. Answered({"list", "find"}) /\ request.id = None =>
            stable \cap Wanted(request) \subseteq frozen
      BY <1>3 DEF Accounted, AllChosen, Answered, Going, WantedNow
    <2>2. ASSUME Answered({"browse", "find"}), frozen \subseteq stable,
                 NEW s \in frozen, NEW x \in Paths,
                 In(s, x), IsAllowed(policy, x), InScope(request, x)
          PROVE  <<s, x>> \in shown
      <3>1. Whole(s)
        BY <1>3, <2>2 DEF Accounted, AllTold, GroupByGroup, Answered, Going
      <3>2. x \in Displayed(s)  BY <2>2 DEF Displayed, InTree, In
      <3> QED  BY <3>1, <3>2 DEF Whole
    <2>3. ASSUME Answered({"list", "get"}), NEW s \in frozen, NEW x \in Paths,
                 In(s, x), IsAllowed(policy, x)
          PROVE  <<s, x>> \in shown
      <3>1. x \in Told(s)
        <4>1. /\ policy \in Policies /\ about \in Catalogues /\ s \in Snapshots
          BY <1>3, <2>3 DEF SelInv, TypeOK
        <4>2. /\ policy.paths \subseteq Seq(STRING) /\ about[s].roots \subseteq Seq(STRING)
              /\ x \in Seq(STRING)
          BY <4>1, PathsKnown
        <4> QED  BY <2>3, <4>1, <4>2, RootsPublished, FilterPathsExact DEF Told, In
      <3>2. {s} \X Told(s) \subseteq shown  BY <1>3, <2>3 DEF Accounted, AllTold
      <3> QED  BY <3>1, <3>2
    <2> QED  BY <2>1, <2>2, <2>3 DEF NothingStableOverlooked
  <1> QED  BY <1>1, <1>2, <1>3, SelectionInvariant, PTL DEF Spec

-----------------------------------------------------------------------------
(* Command lines: sequences, and how the builders append to them. *)

(* Induction up to n, about a set. *)
LEMMA UpTo ==
  ASSUME NEW n \in Nat, NEW T, \A i \in 1..n : 1..(i - 1) \subseteq T => i \in T
  PROVE  1..n \subseteq T
  <1> DEFINE prefix == {i \in 0..n : 1..i \subseteq T}
  <1> SUFFICES ASSUME NEW b \in 1..n, b \notin T PROVE FALSE  OBVIOUS
  <1>1. 0 \in prefix
    <2>1. 0 \in 0..n /\ 1..0 = {}  OBVIOUS
    <2> QED  BY <2>1
  <1>2. prefix \subseteq 0..n /\ prefix \subseteq Int  OBVIOUS
  <1>3. IsFiniteSet(prefix)
    <2>1. IsFiniteSet(0..n)  BY FS_Interval
    <2> QED  BY <1>2, <2>1, FS_Subset
  <1>4. PICK l \in prefix : \A t \in prefix : t <= l
    <2> HIDE DEF prefix
    <2> QED  BY <1>1, <1>2, <1>3, FiniteHasLast
  <1>5. l \in 0..n /\ 1..l \subseteq T  BY <1>4
  <1>6. l < b  BY <1>5
  <1>7. l + 1 \in 1..n /\ (l + 1) - 1 = l /\ 1..(l + 1) = (1..l) \cup {l + 1}  BY <1>5, <1>6
  <1>8. 1..((l + 1) - 1) \subseteq T  BY <1>5, <1>7
  <1>9. l + 1 \in T  BY <1>7, <1>8
  <1>10. l + 1 \in prefix  BY <1>5, <1>7, <1>9
  <1> QED  BY <1>4, <1>5, <1>10

-----------------------------------------------------------------------------
(* How restic reads a command line. *)

(* There is one way to read a command line: roles that follow the rule are it. *)
LEMMA RolesAre ==
  ASSUME NEW argv, Len(argv) \in Nat, NEW f, f = [i \in 1..Len(argv) |-> RoleOf(argv, f, i)]
  PROVE  Roles(argv) = f
  <1> DEFINE n == Len(argv)
             g == Roles(argv)
             agreed == {i \in 1..n : g[i] = f[i]}
  <1>1. g = [i \in 1..n |-> RoleOf(argv, g, i)]
    <2>1. g = CHOOSE role : role = [i \in 1..n |-> RoleOf(argv, role, i)]  BY DEF Roles
    <2> HIDE DEF g
    <2> QED  BY <2>1
  <1> HIDE DEF g
  <1>2. ASSUME NEW i \in 1..n, \A j \in 1..(i - 1) : g[j] = f[j]
        PROVE  g[i] = f[i]
    <2>1. g[i] = RoleOf(argv, g, i) /\ f[i] = RoleOf(argv, f, i)  BY <1>1
    <2>2. i > 1 => g[i - 1] = f[i - 1]
      <3>1. i > 1 => i - 1 \in 1..(i - 1)  OBVIOUS
      <3> QED  BY <1>2, <3>1
    <2>3. (\E j \in 2..(i - 1) : g[j] = "end") <=> (\E j \in 2..(i - 1) : f[j] = "end")
      <3>1. \A j \in 2..(i - 1) : j \in 1..(i - 1)  OBVIOUS
      <3> QED  BY <1>2, <3>1
    <2>4. RoleOf(argv, g, i) = RoleOf(argv, f, i)
      <3>1. CASE i = 1  BY <3>1 DEF RoleOf
      <3>2. CASE i > 1  BY <2>2, <2>3, <3>2 DEF RoleOf
      <3> QED  BY <3>1, <3>2
    <2> QED  BY <2>1, <2>4
  <1>3. 1..n \subseteq agreed
    <2>1. \A i \in 1..n : 1..(i - 1) \subseteq agreed => i \in agreed  BY <1>2
    <2> HIDE DEF agreed
    <2> QED  BY <2>1, UpTo
  <1>4. f = [i \in 1..n |-> f[i]] /\ g = [i \in 1..n |-> g[i]]  BY <1>1
  <1>5. g = f  BY <1>3, <1>4
  <1> QED  BY <1>5 DEF g

(* What is appended one after another. *)
LEMMA FlattenIs ==
  ASSUME NEW s, Len(s) \in Nat \ {0}, NEW f,
         f = [i \in 1..Len(s) |-> IF i = 1 THEN s[i] ELSE f[i - 1] \o s[i]]
  PROVE  Ext!FlattenSeq(s) = f[Len(s)]
  <1> DEFINE n == Len(s)
             g == CHOOSE h : h = [i \in 1..Len(s) |-> IF i = 1 THEN s[i] ELSE h[i - 1] \o s[i]]
             agreed == {i \in 1..n : g[i] = f[i]}
  <1>1. g = [i \in 1..n |-> IF i = 1 THEN s[i] ELSE g[i - 1] \o s[i]]  OBVIOUS
  <1>2. Ext!FlattenSeq(s) = g[n]
    BY DEF Ext!FlattenSeq
  <1> HIDE DEF g
  <1>3. \A i \in 1..n : 1..(i - 1) \subseteq agreed => i \in agreed
    <2> SUFFICES ASSUME NEW i \in 1..n, 1..(i - 1) \subseteq agreed PROVE g[i] = f[i]  OBVIOUS
    <2>0. f[i] = IF i = 1 THEN s[i] ELSE f[i - 1] \o s[i]  OBVIOUS
    <2>1. CASE i = 1  BY <1>1, <2>0, <2>1
    <2>2. CASE i # 1
      <3>1. i - 1 \in 1..(i - 1)  BY <2>2
      <3>2. g[i - 1] = f[i - 1]  BY <3>1
      <3> QED  BY <1>1, <2>0, <2>2, <3>2
    <2> QED  BY <2>1, <2>2
  <1>4. n \in 1..n /\ n \in Nat  OBVIOUS
  <1>5. 1..n \subseteq agreed
    <2> HIDE DEF agreed, n
    <2> QED  BY <1>3, <1>4, UpTo
  <1>6. g[n] = f[n]  BY <1>4, <1>5
  <1> QED  BY <1>2, <1>6

-----------------------------------------------------------------------------
(* The words of command lines.  (That a literal is a string is more than the *)
(* provers know.)                                                           *)
AnyWord == STRING \cup Valued \cup Switches
             \cup {"--", "snapshots", "ls", "find", "stats", "restore-size"}

LEMMA AnyOfString == \A l \in Seq(STRING) : l \in Seq(AnyWord)
  BY DEF AnyWord

LEMMA SingleIs ==
  ASSUME NEW S, NEW a \in S
  PROVE  <<a>> \in Seq(S) /\ Len(<<a>>) = 1
  OBVIOUS

LEMMA PairIs ==
  ASSUME NEW S, NEW a \in S, NEW b \in S
  PROVE  <<a, b>> \in Seq(S) /\ Len(<<a, b>>) = 2
  OBVIOUS

LEMMA TwoMore ==
  ASSUME NEW S, NEW s \in Seq(S), NEW n \in Nat, n + 2 <= Len(s)
  PROVE  SubSeq(s, 1, n + 2) = SubSeq(s, 1, n) \o <<s[n + 1], s[n + 2]>>
  <1> DEFINE t == SubSeq(s, 1, n)
             u == SubSeq(s, 1, n + 2)
             v == <<s[n + 1], s[n + 2]>>
  <1>1. t \in Seq(S) /\ Len(t) = n /\ \A i \in 1..n : t[i] = s[i]
    <2>1. \A i \in 1..n : s[i] \in S  OBVIOUS
    <2>2. CASE n = 0  BY <2>2, SubSeqProperties
    <2>3. CASE n > 0  BY <2>1, <2>3, SubSeqProperties
    <2> QED  BY <2>2, <2>3
  <1>2. u \in Seq(S) /\ Len(u) = n + 2 /\ \A i \in 1..(n + 2) : u[i] = s[i]
    <2>1. \A i \in 1..(n + 2) : s[i] \in S  OBVIOUS
    <2> QED  BY <2>1, SubSeqProperties
  <1>3. v \in Seq(S) /\ Len(v) = 2 /\ v[1] = s[n + 1] /\ v[2] = s[n + 2]
    <2>1. s[n + 1] \in S /\ s[n + 2] \in S  OBVIOUS
    <2> QED  BY <2>1
  <1> HIDE DEF t, u, v
  <1>4. /\ t \o v \in Seq(S) /\ Len(t \o v) = n + 2
        /\ \A i \in 1..(n + 2) : (t \o v)[i] = IF i <= n THEN t[i] ELSE v[i - n]
    <2>1. Len(t) + Len(v) = n + 2  BY <1>1, <1>3
    <2>2. /\ t \o v \in Seq(S) /\ Len(t \o v) = Len(t) + Len(v)
          /\ \A i \in 1..(Len(t) + Len(v)) :
               (t \o v)[i] = IF i <= Len(t) THEN t[i] ELSE v[i - Len(t)]
      <3>1. t \in Seq(S) /\ v \in Seq(S)  BY <1>1, <1>3
      <3> QED  BY <3>1, ConcatProperties
    <2> QED  BY <1>1, <2>1, <2>2
  <1>5. ASSUME NEW i \in 1..(n + 2) PROVE u[i] = (t \o v)[i]
    <2>1. CASE i <= n  BY <1>1, <1>2, <1>4, <2>1
    <2>2. CASE i = n + 1
      <3>1. i - n = 1 /\ ~(i <= n)  BY <2>2
      <3> QED  BY <1>2, <1>3, <1>4, <2>2, <3>1
    <2>3. CASE i = n + 2
      <3>1. i - n = 2 /\ ~(i <= n)  BY <2>3
      <3> QED  BY <1>2, <1>3, <1>4, <2>3, <3>1
    <2>4. i <= n \/ i = n + 1 \/ i = n + 2  OBVIOUS
    <2> QED  BY <2>1, <2>2, <2>3, <2>4
  <1>6. u = t \o v  BY <1>2, <1>4, <1>5, SeqEqual
  <1> QED  BY <1>6 DEF t, u, v

LEMMA FlaggedIs ==
  ASSUME NEW o \in AnyWord, NEW l \in Seq(AnyWord)
  PROVE  /\ Flagged(o, l) \in Seq(AnyWord)
         /\ Len(Flagged(o, l)) = 2 * Len(l)
         /\ \A k \in 1..Len(l) : Flagged(o, l)[2 * k - 1] = o /\ Flagged(o, l)[2 * k] = l[k]
  <1> DEFINE s == [i \in DOMAIN l |-> <<o, l[i]>>]
             n == Len(l)
             at(j) == CHOOSE k \in 1..n : j = 2 * k
             word(j) == IF \E k \in 1..n : j = 2 * k THEN l[at(j)] ELSE o
             line == [j \in 1..(2 * n) |-> word(j)]
             f == [i \in 1..n |-> SubSeq(line, 1, 2 * i)]
  <1>1. Flagged(o, l) = Ext!FlattenSeq(s)  BY DEF Flagged
  <1>2. n \in Nat /\ Len(s) = n /\ s = [i \in 1..n |-> <<o, l[i]>>]  OBVIOUS
  <1>3. line \in Seq(AnyWord) /\ Len(line) = 2 * n
    <2>1. \A j \in 1..(2 * n) : word(j) \in AnyWord
      <3> SUFFICES ASSUME NEW j \in 1..(2 * n), \E k \in 1..n : j = 2 * k PROVE word(j) \in AnyWord
        OBVIOUS
      <3>1. at(j) \in 1..n  OBVIOUS
      <3> HIDE DEF at
      <3>2. l[at(j)] \in AnyWord  BY <3>1
      <3> QED  BY <3>2
    <2> HIDE DEF word
    <2>2. line \in [1..(2 * n) -> AnyWord]  BY <2>1
    <2> QED  BY <1>2, <2>2
  <1>4. ASSUME NEW k \in 1..n PROVE line[2 * k - 1] = o /\ line[2 * k] = l[k]
    <2>1. 2 * k - 1 \in 1..(2 * n) /\ 2 * k \in 1..(2 * n)  BY <1>2
    <2>2. \A h \in 1..n : 2 * k - 1 # 2 * h /\ (2 * k = 2 * h => h = k)  BY <1>2
    <2>3. word(2 * k - 1) = o  BY <2>2
    <2>4. word(2 * k) = l[k]
      <3>1. at(2 * k) = k  BY <2>2
      <3> HIDE DEF at
      <3> QED  BY <3>1
    <2> HIDE DEF word
    <2> QED  BY <2>1, <2>3, <2>4
  <1> HIDE DEF line
  <1>5. CASE n = 0
    <2>1. Ext!FlattenSeq(s) = s  BY <1>2, <1>5 DEF Ext!FlattenSeq
    <2>2. s = <<>>  BY <1>2, <1>5
    <2>3. <<>> \in Seq(AnyWord) /\ Len(<<>>) = 0  OBVIOUS
    <2>4. Flagged(o, l) = <<>>  BY <1>1, <2>1, <2>2
    <2> HIDE DEF s, n
    <2>5. \A k \in 1..n : FALSE  BY <1>5
    <2>6. Len(l) = n  BY DEF n
    <2> QED  BY <1>5, <2>3, <2>4, <2>5, <2>6
  <1>6. CASE n # 0
    <2>2. ASSUME NEW i \in 1..n PROVE f[i] = IF i = 1 THEN s[i] ELSE f[i - 1] \o s[i]
      <3>1. s[i] = <<o, l[i]>> /\ line[2 * i - 1] = o /\ line[2 * i] = l[i]  BY <1>2, <1>4
      <3>2. 2 * i \in 1..(2 * n) /\ 2 * i - 1 \in 1..(2 * n)  BY <1>2
      <3>3. SubSeq(line, 1, 2 * i) = SubSeq(line, 1, 2 * (i - 1)) \o <<o, l[i]>>
        <4> DEFINE m == 2 * (i - 1)
        <4>1. m \in Nat /\ m + 2 = 2 * i /\ m + 1 = 2 * i - 1  OBVIOUS
        <4> HIDE DEF m
        <4>2. SubSeq(line, 1, m + 2) = SubSeq(line, 1, m) \o <<line[m + 1], line[m + 2]>>
          <5>1. m + 2 <= Len(line)  BY <1>2, <1>3, <4>1
          <5> QED  BY <1>3, <4>1, <5>1, TwoMore
        <4> QED  BY <3>1, <4>1, <4>2 DEF m
      <3>4. CASE i = 1
        <4>1. SubSeq(line, 1, 2 * (i - 1)) = <<>>
          <5>1. 2 * (i - 1) = 0  BY <3>4
          <5> QED  BY <5>1, SubSeqEmpty
        <4>2. <<o, l[i]>> \in Seq(AnyWord)
          <5>1. l[i] \in AnyWord  BY <1>2
          <5> QED  BY <5>1, PairIs
        <4>3. <<>> \o <<o, l[i]>> = <<o, l[i]>>  BY <4>2, ConcatEmptySeq
        <4> QED  BY <3>1, <3>3, <3>4, <4>1, <4>3
      <3>5. CASE i # 1
        <4>1. i - 1 \in 1..n /\ f[i - 1] = SubSeq(line, 1, 2 * (i - 1))  BY <3>5
        <4> QED  BY <3>1, <3>3, <3>5, <4>1
      <3> QED  BY <3>4, <3>5
    <2>3. f = [i \in 1..Len(s) |-> IF i = 1 THEN s[i] ELSE f[i - 1] \o s[i]]
      <3>1. f = [i \in 1..n |-> f[i]]  OBVIOUS
      <3> HIDE DEF f
      <3> QED  BY <1>2, <2>2, <3>1
    <2>4. Len(s) \in Nat \ {0}  BY <1>2, <1>6
    <2>5. Ext!FlattenSeq(s) = f[n]
      <3> HIDE DEF f, s
      <3> QED  BY <1>2, <2>3, <2>4, FlattenIs
    <2>6. f[n] = line
      <3>1. n \in 1..n  BY <1>2, <1>6
      <3>2. SubSeq(line, 1, 2 * n) = line  BY <1>3
      <3> QED  BY <3>1, <3>2
    <2> HIDE DEF f, s
    <2> QED  BY <1>1, <1>3, <1>4, <2>5, <2>6
  <1> QED  BY <1>2, <1>5, <1>6

(* The key of a line without a NUL is its repository and its words. *)
LEMMA KeyIs ==
  ASSUME NEW r, NEW argv \in Seq(AnyWord), argv # <<>>,
         \A i \in DOMAIN argv : argv[i] \notin DOMAIN Pieces
  PROVE  MetadataKey(r, argv) = <<r>> \o argv
  <1> DEFINE n == Len(argv)
             s == [i \in DOMAIN argv |->
                    IF argv[i] \in DOMAIN Pieces THEN Pieces[argv[i]] ELSE <<argv[i]>>]
             f == [i \in 1..n |-> SubSeq(argv, 1, i)]
  <1>1. n \in Nat \ {0} /\ Len(s) = n /\ DOMAIN argv = 1..n  OBVIOUS
  <1>2. ASSUME NEW i \in 1..n PROVE f[i] = IF i = 1 THEN s[i] ELSE f[i - 1] \o s[i]
    <2>1. s[i] = <<argv[i]>>  BY <1>1
    <2>2. CASE i = 1
      <3>1. SubSeq(argv, 1, 1) = <<argv[1]>>
        <4>1. SubSeq(argv, 1, 1) \in Seq(AnyWord) /\ Len(SubSeq(argv, 1, 1)) = 1  BY <1>1
        <4>2. SubSeq(argv, 1, 1)[1] = argv[1]  BY <1>1
        <4>3. <<argv[1]>> \in Seq(AnyWord) /\ Len(<<argv[1]>>) = 1 /\ <<argv[1]>>[1] = argv[1]
          BY <1>1
        <4>4. \A j \in 1..1 : j = 1  OBVIOUS
        <4> QED  BY <4>1, <4>2, <4>3, <4>4, SeqEqual
      <3> QED  BY <2>1, <2>2, <3>1
    <2>3. CASE i # 1
      <3>1. i - 1 \in 1..n /\ f[i - 1] = SubSeq(argv, 1, i - 1)  BY <2>3
      <3>2. SubSeq(argv, 1, i) = SubSeq(argv, 1, i - 1) \o <<argv[i]>>  BY <1>1, <3>1
      <3> QED  BY <2>1, <2>3, <3>1, <3>2
    <2> QED  BY <2>2, <2>3
  <1>3. f = [i \in 1..Len(s) |-> IF i = 1 THEN s[i] ELSE f[i - 1] \o s[i]]
    <2>1. f = [i \in 1..n |-> f[i]]  OBVIOUS
    <2> HIDE DEF f
    <2> QED  BY <1>1, <1>2, <2>1
  <1>4. Ext!FlattenSeq(s) = f[n]
    <2> HIDE DEF f, s
    <2> QED  BY <1>1, <1>3, FlattenIs
  <1>5. f[n] = argv
    <2>1. SubSeq(argv, 1, n) = argv  BY <1>1
    <2> QED  BY <1>1, <2>1
  <1> QED  BY <1>4, <1>5 DEF MetadataKey

-----------------------------------------------------------------------------
LEMMA Parity ==
  ASSUME NEW m \in Nat, NEW j \in 1..(2 * m)
  PROVE  \E k \in 1..m : j = 2 * k - 1 \/ j = 2 * k
  <1> DEFINE T == {i \in Nat : \E k \in Nat : i = 2 * k - 1 \/ i = 2 * k}
  <1>1. \A i \in 1..(2 * m) : 1..(i - 1) \subseteq T => i \in T
    <2> SUFFICES ASSUME NEW i \in 1..(2 * m), 1..(i - 1) \subseteq T PROVE i \in T  OBVIOUS
    <2>1. CASE i = 1
      <3>1. 1 \in Nat /\ 1 = 2 * 1 - 1  OBVIOUS
      <3> QED  BY <2>1, <3>1
    <2>2. CASE i # 1
      <3>1. i - 1 \in T
        <4>1. i - 1 \in 1..(i - 1)  BY <2>2
        <4> QED  BY <4>1
      <3>2. PICK k \in Nat : i - 1 = 2 * k - 1 \/ i - 1 = 2 * k  BY <3>1
      <3>3. i = 2 * k \/ i = 2 * (k + 1) - 1  BY <3>2
      <3>4. k + 1 \in Nat /\ i \in Nat  OBVIOUS
      <3> QED  BY <3>3, <3>4
    <2> QED  BY <2>1, <2>2
  <1>2. 2 * m \in Nat  OBVIOUS
  <1>3. 1..(2 * m) \subseteq T
    <2> HIDE DEF T
    <2> QED  BY <1>1, <1>2, UpTo
  <1>4. PICK k \in Nat : j = 2 * k - 1 \/ j = 2 * k  BY <1>3
  <1>5. k \in 1..m  BY <1>4
  <1> QED  BY <1>4, <1>5

(* A line of switches, options with their values, and the rest, which begins   *)
(* with "--" or has no dash, is read as that.                                  *)
LineOf(argv, s, m, z, t) ==
  /\ argv \in Seq(AnyWord) /\ s \in Nat \ {0} /\ m \in Nat /\ z \in {0, 1} /\ t \in Seq(AnyWord)
  /\ Len(argv) = s + 2 * m + z + Len(t)
  /\ \A i \in 2..s : argv[i] \in Dashed /\ argv[i] \notin Valued /\ argv[i] # "--"
  /\ \A k \in 1..m : argv[s + 2 * k - 1] \in Valued
  /\ z = 1 => argv[s + 2 * m + 1] = "--"
  /\ \A i \in 1..Len(t) : argv[s + 2 * m + z + i] = t[i] /\ (z = 0 => t[i] \notin Dashed)

RolesOf(role, N, s, m, z) ==
  /\ role[1] = "command"
  /\ \A i \in 2..s : role[i] = "switch"
  /\ \A k \in 1..m : role[s + 2 * k - 1] = "option" /\ role[s + 2 * k] = "value"
  /\ z = 1 => role[s + 2 * m + 1] = "end"
  /\ \A i \in (s + 2 * m + z + 1)..N : role[i] = "positional"

LEMMA Places ==
  ASSUME NEW s \in Nat \ {0}, NEW m \in Nat, NEW z \in {0, 1}, NEW N \in Nat, N >= s + 2 * m + z,
         NEW i \in 1..N
  PROVE  \/ i = 1 \/ i \in 2..s
         \/ \E k \in 1..m : i = s + 2 * k - 1 \/ i = s + 2 * k
         \/ z = 1 /\ i = s + 2 * m + 1
         \/ i \in (s + 2 * m + z + 1)..N
  <1>1. CASE i \in (s + 1)..(s + 2 * m)
    <2>1. i - s \in 1..(2 * m)  BY <1>1
    <2>2. PICK k \in 1..m : i - s = 2 * k - 1 \/ i - s = 2 * k  BY <2>1, Parity
    <2>3. i = s + 2 * k - 1 \/ i = s + 2 * k  BY <2>2
    <2> QED  BY <2>3
  <1>2. CASE i \notin (s + 1)..(s + 2 * m)  BY <1>2
  <1> QED  BY <1>1, <1>2

LEMMA RolesOfLine ==
  ASSUME NEW argv, NEW s, NEW m, NEW z, NEW t, LineOf(argv, s, m, z, t)
  PROVE  RolesOf(Roles(argv), Len(argv), s, m, z)
  <1> DEFINE N == Len(argv)
             opts == {s + 2 * k - 1 : k \in 1..m}
             vals == {s + 2 * k : k \in 1..m}
             f == [i \in 1..N |-> IF i = 1 THEN "command"
                                  ELSE IF i <= s THEN "switch"
                                  ELSE IF i \in opts THEN "option"
                                  ELSE IF i \in vals THEN "value"
                                  ELSE IF z = 1 /\ i = s + 2 * m + 1 THEN "end"
                                  ELSE "positional"]
  <1>1. /\ argv \in Seq(AnyWord) /\ s \in Nat \ {0} /\ m \in Nat /\ z \in {0, 1}
        /\ t \in Seq(AnyWord)
        /\ N = s + 2 * m + z + Len(t) /\ Len(t) \in Nat /\ N \in Nat
    BY DEF LineOf
  <1> HIDE DEF N
  <1>2. RolesOf(f, N, s, m, z)
    <2>1. f[1] = "command"  BY <1>1
    <2>2. \A i \in 2..s : f[i] = "switch"  BY <1>1
    <2>3. ASSUME NEW k \in 1..m PROVE f[s + 2 * k - 1] = "option" /\ f[s + 2 * k] = "value"
      <3>1. /\ s + 2 * k - 1 \in 1..N /\ s + 2 * k \in 1..N
            /\ s + 2 * k - 1 > s /\ s + 2 * k > s /\ s + 2 * k - 1 # 1 /\ s + 2 * k # 1  BY <1>1
      <3>2. s + 2 * k \notin opts
        <4>1. \A h \in 1..m : s + 2 * k # s + 2 * h - 1  BY <1>1
        <4> QED  BY <4>1
      <3>3. s + 2 * k - 1 \in opts /\ s + 2 * k \in vals  OBVIOUS
      <3> HIDE DEF opts, vals
      <3> QED  BY <1>1, <3>1, <3>2, <3>3
    <2>4. \A i \in 1..N : i > s + 2 * m => i \notin opts /\ i \notin vals
      <3>1. \A k \in 1..m : s + 2 * k <= s + 2 * m /\ s + 2 * k - 1 <= s + 2 * m  BY <1>1
      <3> QED  BY <1>1, <3>1
    <2> HIDE DEF opts, vals
    <2>5. z = 1 => f[s + 2 * m + 1] = "end"
      <3> HAVE z = 1
      <3>1. s + 2 * m + 1 \in 1..N /\ s + 2 * m + 1 > s + 2 * m /\ ~(s + 2 * m + 1 <= s)
            /\ s + 2 * m + 1 # 1
        BY <1>1
      <3> QED  BY <2>4, <3>1
    <2>6. \A i \in (s + 2 * m + z + 1)..N : f[i] = "positional"
      <3> SUFFICES ASSUME NEW i \in (s + 2 * m + z + 1)..N PROVE f[i] = "positional"  OBVIOUS
      <3>1. /\ i \in 1..N /\ i # 1 /\ ~(i <= s) /\ i > s + 2 * m
            /\ ~(z = 1 /\ i = s + 2 * m + 1)
        BY <1>1
      <3> QED  BY <2>4, <3>1
    <2> HIDE DEF f
    <2> QED  BY <2>1, <2>2, <2>3, <2>5, <2>6 DEF RolesOf
  <1>3. f = [i \in 1..N |-> f[i]]  OBVIOUS
  <1> HIDE DEF f
  <1>4. ASSUME NEW i \in 1..N, i <= s + 2 * m + 1, NEW j \in 2..(i - 1) PROVE f[j] # "end"
    <2>1. j \in 1..N /\ N >= s + 2 * m + z  BY <1>1, <1>4
    <2>2. \/ j = 1 \/ j \in 2..s
          \/ \E k \in 1..m : j = s + 2 * k - 1 \/ j = s + 2 * k
          \/ z = 1 /\ j = s + 2 * m + 1
          \/ j \in (s + 2 * m + z + 1)..N
      BY <1>1, <2>1, Places
    <2>3. j # s + 2 * m + 1 /\ j \notin (s + 2 * m + z + 1)..N /\ j # 1  BY <1>1, <1>4
    <2> QED  BY <1>2, <2>2, <2>3 DEF RolesOf
  <1>5. ASSUME NEW i \in 1..N, i # 1, \A k \in 1..m : i # s + 2 * k PROVE f[i - 1] # "option"
    <2>1. i - 1 \in 1..N /\ N >= s + 2 * m + z  BY <1>1, <1>5
    <2>2. \/ i - 1 = 1 \/ i - 1 \in 2..s
          \/ \E k \in 1..m : i - 1 = s + 2 * k - 1 \/ i - 1 = s + 2 * k
          \/ z = 1 /\ i - 1 = s + 2 * m + 1
          \/ i - 1 \in (s + 2 * m + z + 1)..N
      BY <1>1, <2>1, Places
    <2>3. \A k \in 1..m : i - 1 # s + 2 * k - 1  BY <1>1, <1>5
    <2> QED  BY <1>2, <2>2, <2>3 DEF RolesOf
  <1>6. ASSUME NEW i \in 1..N PROVE f[i] = RoleOf(argv, f, i)
    <2>1. CASE i = 1  BY <1>2, <2>1 DEF RoleOf, RolesOf
    <2>2. CASE i \in 2..s
      <3>1. f[i - 1] # "option"
        <4>1. i # 1 /\ \A k \in 1..m : i # s + 2 * k  BY <1>1, <2>2
        <4> QED  BY <1>5, <4>1
      <3>2. ~(\E j \in 2..(i - 1) : f[j] = "end")
        <4>1. i <= s + 2 * m + 1  BY <1>1, <2>2
        <4> QED  BY <1>4, <4>1
      <3>3. argv[i] \in Dashed /\ argv[i] \notin Valued /\ argv[i] # "--"  BY <2>2 DEF LineOf
      <3>4. f[i] = "switch" /\ i > 1 /\ i # 1  BY <1>1, <1>2, <2>2 DEF RolesOf
      <3> QED  BY <3>1, <3>2, <3>3, <3>4 DEF RoleOf
    <2>3. ASSUME NEW k \in 1..m, i = s + 2 * k - 1 PROVE f[i] = RoleOf(argv, f, i)
      <3>1. f[i - 1] # "option"
        <4>1. i # 1 /\ \A h \in 1..m : i # s + 2 * h  BY <1>1, <2>3
        <4> QED  BY <1>5, <4>1
      <3>2. ~(\E j \in 2..(i - 1) : f[j] = "end")
        <4>1. i <= s + 2 * m + 1  BY <1>1, <2>3
        <4> QED  BY <1>4, <4>1
      <3>3. argv[i] \in Valued /\ argv[i] # "--"
        <4>1. argv[i] \in Valued  BY <2>3 DEF LineOf
        <4> QED  BY <4>1 DEF Valued
      <3>4. f[i] = "option" /\ i > 1 /\ i # 1  BY <1>1, <1>2, <2>3 DEF RolesOf
      <3> QED  BY <3>1, <3>2, <3>3, <3>4 DEF RoleOf
    <2>4. ASSUME NEW k \in 1..m, i = s + 2 * k PROVE f[i] = RoleOf(argv, f, i)
      <3>1. f[i - 1] = "option"
        <4>1. i - 1 = s + 2 * k - 1  BY <1>1, <2>4
        <4> QED  BY <1>2, <4>1 DEF RolesOf
      <3>2. f[i] = "value" /\ i > 1 /\ i # 1  BY <1>1, <1>2, <2>4 DEF RolesOf
      <3> QED  BY <3>1, <3>2 DEF RoleOf
    <2>5. CASE z = 1 /\ i = s + 2 * m + 1
      <3>1. f[i - 1] # "option"
        <4>1. i # 1 /\ \A h \in 1..m : i # s + 2 * h  BY <1>1, <2>5
        <4> QED  BY <1>5, <4>1
      <3>2. ~(\E j \in 2..(i - 1) : f[j] = "end")
        <4>1. i <= s + 2 * m + 1  BY <1>1, <2>5
        <4> QED  BY <1>4, <4>1
      <3>3. argv[i] = "--"  BY <2>5 DEF LineOf
      <3>4. f[i] = "end" /\ i > 1 /\ i # 1  BY <1>1, <1>2, <2>5 DEF RolesOf
      <3> QED  BY <3>1, <3>2, <3>3, <3>4 DEF RoleOf
    <2>6. CASE i \in (s + 2 * m + z + 1)..N
      <3>1. f[i - 1] # "option"
        <4>1. i # 1 /\ \A h \in 1..m : i # s + 2 * h  BY <1>1, <2>6
        <4> QED  BY <1>5, <4>1
      <3>2. f[i] = "positional" /\ i > 1 /\ i # 1  BY <1>1, <1>2, <2>6 DEF RolesOf
      <3>3. CASE z = 1
        <4>1. s + 2 * m + 1 \in 2..(i - 1)  BY <1>1, <2>6, <3>3
        <4>2. f[s + 2 * m + 1] = "end"  BY <1>2, <3>3 DEF RolesOf
        <4> QED  BY <3>1, <3>2, <4>1, <4>2 DEF RoleOf
      <3>4. CASE z = 0
        <4> DEFINE j == i - (s + 2 * m)
        <4>1. j \in 1..Len(t) /\ s + 2 * m + z + j = i  BY <1>1, <2>6, <3>4
        <4> HIDE DEF j
        <4>2. argv[i] = t[j] /\ t[j] \notin Dashed  BY <3>4, <4>1 DEF LineOf
        <4>3. argv[i] \notin Dashed /\ argv[i] \notin Valued /\ argv[i] # "--"
          BY <4>2, WordsApart
        <4> QED  BY <3>1, <3>2, <4>3 DEF RoleOf
      <3> QED  BY <1>1, <3>3, <3>4
    <2> QED
      <3>1. N >= s + 2 * m + z  BY <1>1
      <3> QED  BY <1>1, <2>1, <2>2, <2>3, <2>4, <2>5, <2>6, <3>1, Places
  <1>7. f = [i \in 1..Len(argv) |-> RoleOf(argv, f, i)]  BY <1>3, <1>6 DEF N
  <1>8. Roles(argv) = f
    <2>1. Len(argv) \in Nat  BY <1>1
    <2> QED  BY <1>7, <2>1, RolesAre
  <1> QED  BY <1>2, <1>8 DEF N

LEMMA LineRead ==
  ASSUME NEW argv, NEW s, NEW m, NEW z, NEW t, LineOf(argv, s, m, z, t)
  PROVE  Reading(argv) = [command |-> argv[1],
                          options |-> {<<argv[s + 2 * k - 1], argv[s + 2 * k]>> : k \in 1..m},
                          switches |-> {argv[i] : i \in 2..s},
                          positional |-> t]
  <1> DEFINE N == Len(argv)
             role == Roles(argv)
             at(r) == {i \in DOMAIN argv : role[i] = r}
             P == at("positional")
             rank(i) == Cardinality({j \in P : j <= i})
             b == s + 2 * m + z
  <1>1. /\ argv \in Seq(AnyWord) /\ s \in Nat \ {0} /\ m \in Nat /\ z \in {0, 1}
        /\ t \in Seq(AnyWord)
        /\ N = b + Len(t) /\ Len(t) \in Nat /\ N \in Nat /\ b \in Nat /\ DOMAIN argv = 1..N
    BY DEF LineOf
  <1>2. RolesOf(role, N, s, m, z)  BY RolesOfLine
  <1>3. Reading(argv) = [command |-> argv[1],
                         options |-> {<<argv[i], argv[i + 1]>> : i \in at("option")},
                         switches |-> {argv[i] : i \in at("switch")},
                         positional |-> [k \in 1..Cardinality(P) |->
                                           argv[CHOOSE i \in P : rank(i) = k]]]
    BY DEF Reading
  <1> HIDE DEF N, role
  <1>4. ASSUME NEW i \in 1..N
        PROVE  \/ i = 1 \/ i \in 2..s
               \/ \E k \in 1..m : i = s + 2 * k - 1 \/ i = s + 2 * k
               \/ z = 1 /\ i = s + 2 * m + 1
               \/ i \in (b + 1)..N
    <2>1. N >= s + 2 * m + z  BY <1>1
    <2> QED  BY <1>1, <2>1, Places
  <1>5. at("option") = {s + 2 * k - 1 : k \in 1..m}
    <2>1. \A k \in 1..m : s + 2 * k - 1 \in 1..N  BY <1>1
    <2>2. ASSUME NEW i \in 1..N, role[i] = "option" PROVE \E k \in 1..m : i = s + 2 * k - 1
      BY <1>2, <1>4, <2>2 DEF RolesOf
    <2>3. \A k \in 1..m : role[s + 2 * k - 1] = "option"  BY <1>2 DEF RolesOf
    <2>4. at("option") \subseteq {s + 2 * k - 1 : k \in 1..m}  BY <1>1, <2>2
    <2>5. {s + 2 * k - 1 : k \in 1..m} \subseteq at("option")  BY <1>1, <2>1, <2>3
    <2> HIDE DEF at
    <2> QED  BY <2>4, <2>5
  <1>6. at("switch") = 2..s
    <2>1. \A i \in 2..s : i \in 1..N  BY <1>1
    <2>2. ASSUME NEW i \in 1..N, role[i] = "switch" PROVE i \in 2..s
      BY <1>2, <1>4, <2>2 DEF RolesOf
    <2>3. \A i \in 2..s : role[i] = "switch"  BY <1>2 DEF RolesOf
    <2> QED  BY <1>1, <2>1, <2>2, <2>3
  <1>7. P = (b + 1)..N
    <2>1. \A i \in (b + 1)..N : i \in 1..N  BY <1>1
    <2>2. ASSUME NEW i \in 1..N, role[i] = "positional" PROVE i \in (b + 1)..N
      BY <1>2, <1>4, <2>2 DEF RolesOf
    <2>3. \A i \in (b + 1)..N : role[i] = "positional"  BY <1>2 DEF RolesOf
    <2> QED  BY <1>1, <2>1, <2>2, <2>3
  <1>8. {<<argv[i], argv[i + 1]>> : i \in at("option")}
          = {<<argv[s + 2 * k - 1], argv[s + 2 * k]>> : k \in 1..m}
    <2>1. \A k \in 1..m : (s + 2 * k - 1) + 1 = s + 2 * k  BY <1>1
    <2> HIDE DEF at
    <2> QED  BY <1>5, <2>1
  <1> HIDE DEF P, b
  <1>9. Cardinality(P) = Len(t)
    <2>1. b + 1 \in Int /\ N \in Int  BY <1>1
    <2>2. Cardinality((b + 1)..N) = IF b + 1 > N THEN 0 ELSE N - (b + 1) + 1  BY <2>1, FS_Interval
    <2> QED  BY <1>1, <1>7, <2>2
  <1>10. ASSUME NEW i \in P PROVE rank(i) = i - b
    <2>1. i \in Int /\ i >= b + 1 /\ i <= N  BY <1>1, <1>7
    <2>2. {j \in P : j <= i} = (b + 1)..i  BY <1>1, <1>7, <2>1
    <2>3. Cardinality((b + 1)..i) = IF b + 1 > i THEN 0 ELSE i - (b + 1) + 1
      <3>1. b + 1 \in Int  BY <1>1
      <3> QED  BY <2>1, <3>1, FS_Interval
    <2>4. (IF b + 1 > i THEN 0 ELSE i - (b + 1) + 1) = i - b  BY <1>1, <2>1
    <2> QED  BY <2>2, <2>3, <2>4
  <1> HIDE DEF rank
  <1>11. ASSUME NEW k \in 1..Len(t) PROVE argv[CHOOSE i \in P : rank(i) = k] = t[k]
    <2>1. b + k \in P /\ (b + k) - b = k  BY <1>1, <1>7
    <2>2. \A i \in P : i \in Int  BY <1>7
    <2>3. rank(b + k) = k /\ \A i \in P : rank(i) = k => i = b + k
      <3>1. \A i \in P : i - b = k => i = b + k  BY <1>1, <2>2
      <3> QED  BY <1>10, <2>1, <3>1
    <2>4. (CHOOSE i \in P : rank(i) = k) = b + k  BY <2>1, <2>3
    <2>5. argv[b + k] = t[k]  BY DEF LineOf, b
    <2> QED  BY <2>4, <2>5
  <1>12. [k \in 1..Cardinality(P) |-> argv[CHOOSE i \in P : rank(i) = k]] = t
    <2>1. t = [k \in 1..Len(t) |-> t[k]]  BY <1>1
    <2> QED  BY <1>9, <1>11, <2>1
  <1> HIDE DEF at
  <1> QED  BY <1>3, <1>6, <1>8, <1>12

-----------------------------------------------------------------------------
(* A line so far: a command, switches, and options with their values. *)
Opened(line, s, m, command, switches, options) ==
  /\ line \in Seq(AnyWord) /\ s \in Nat \ {0} /\ m \in Nat /\ Len(line) = s + 2 * m
  /\ line[1] = command
  /\ \A i \in 2..s : line[i] \in Dashed /\ line[i] \notin Valued /\ line[i] # "--"
  /\ switches = {line[i] : i \in 2..s}
  /\ \A k \in 1..m : line[s + 2 * k - 1] \in Valued
  /\ options = {<<line[s + 2 * k - 1], line[s + 2 * k]>> : k \in 1..m}

LEMMA Joined ==
  ASSUME NEW S, NEW x \in Seq(S), NEW y \in Seq(S)
  PROVE  /\ x \o y \in Seq(S) /\ Len(x \o y) = Len(x) + Len(y)
         /\ Len(x) \in Nat /\ Len(y) \in Nat
         /\ \A i \in 1..Len(x) : (x \o y)[i] = x[i]
         /\ \A i \in 1..Len(y) : (x \o y)[Len(x) + i] = y[i]
  <1>1. Len(x) \in Nat /\ Len(y) \in Nat  OBVIOUS
  <1>2. /\ x \o y \in Seq(S) /\ Len(x \o y) = Len(x) + Len(y)
        /\ \A i \in 1..(Len(x) + Len(y)) : (x \o y)[i] = IF i <= Len(x) THEN x[i] ELSE y[i - Len(x)]
    BY ConcatProperties
  <1>3. \A i \in 1..Len(y) : /\ Len(x) + i \in 1..(Len(x) + Len(y)) /\ ~(Len(x) + i <= Len(x))
                             /\ (Len(x) + i) - Len(x) = i
    BY <1>1
  <1>4. \A i \in 1..Len(x) : i \in 1..(Len(x) + Len(y)) /\ i <= Len(x)  BY <1>1
  <1> QED  BY <1>1, <1>2, <1>3, <1>4

LEMMA WordsJoined ==
  \A x, y \in Seq(AnyWord) :
     /\ x \o y \in Seq(AnyWord) /\ Len(x \o y) = Len(x) + Len(y)
     /\ \A i \in 1..Len(x) : (x \o y)[i] = x[i]
     /\ \A i \in 1..Len(y) : (x \o y)[Len(x) + i] = y[i]
  <1> TAKE x \in Seq(AnyWord), y \in Seq(AnyWord)
  <1> QED  BY Joined

LEMMA FlagsAdded ==
  ASSUME NEW line, NEW s, NEW m, NEW command, NEW switches, NEW options,
         Opened(line, s, m, command, switches, options),
         NEW o \in AnyWord, o \in Valued, NEW l \in Seq(AnyWord)
  PROVE  Opened(line \o Flagged(o, l), s, m + Len(l), command, switches, options \cup Given(o, l))
  <1> DEFINE f == Flagged(o, l)
             x == line \o f
             n == Len(l)
  <1>1. /\ line \in Seq(AnyWord) /\ s \in Nat \ {0} /\ m \in Nat /\ Len(line) = s + 2 * m
        /\ n \in Nat /\ m + n \in Nat /\ DOMAIN l = 1..n
    BY DEF Opened
  <1>2. /\ f \in Seq(AnyWord) /\ Len(f) = 2 * n
        /\ \A k \in 1..n : f[2 * k - 1] = o /\ f[2 * k] = l[k]
    BY FlaggedIs
  <1> HIDE DEF f
  <1>3. /\ x \in Seq(AnyWord) /\ Len(x) = Len(line) + Len(f)
        /\ \A i \in 1..Len(line) : x[i] = line[i]
        /\ \A i \in 1..Len(f) : x[Len(line) + i] = f[i]
    BY <1>1, <1>2, WordsJoined
  <1> HIDE DEF x, n
  <1>4. Len(x) = s + 2 * (m + n)  BY <1>1, <1>2, <1>3
  <1>5. x[1] = command /\ \A i \in 2..s : x[i] = line[i]
    <2>1. 1 \in 1..Len(line) /\ \A i \in 2..s : i \in 1..Len(line)  BY <1>1
    <2> QED  BY <1>3, <2>1 DEF Opened
  <1>6. \A k \in 1..m : x[s + 2 * k - 1] = line[s + 2 * k - 1] /\ x[s + 2 * k] = line[s + 2 * k]
    <2>1. \A k \in 1..m : s + 2 * k - 1 \in 1..Len(line) /\ s + 2 * k \in 1..Len(line)  BY <1>1
    <2> QED  BY <1>3, <2>1
  <1>7. ASSUME NEW k \in 1..n PROVE x[s + 2 * (m + k) - 1] = o /\ x[s + 2 * (m + k)] = l[k]
    <2>1. 2 * k - 1 \in 1..Len(f) /\ 2 * k \in 1..Len(f)  BY <1>1, <1>2
    <2>2. Len(line) + (2 * k - 1) = s + 2 * (m + k) - 1 /\ Len(line) + 2 * k = s + 2 * (m + k)
      BY <1>1
    <2>3. x[Len(line) + (2 * k - 1)] = f[2 * k - 1] /\ x[Len(line) + 2 * k] = f[2 * k]
      BY <1>3, <2>1
    <2> QED  BY <1>2, <2>2, <2>3
  <1>8. ASSUME NEW h \in 1..(m + n), h \notin 1..m PROVE \E k \in 1..n : h = m + k
    <2>1. h - m \in 1..n /\ h = m + (h - m)  BY <1>1, <1>8
    <2> QED  BY <2>1
  <1>9. \A k \in 1..(m + n) : x[s + 2 * k - 1] \in Valued
    <2>1. \A k \in 1..m : x[s + 2 * k - 1] \in Valued  BY <1>6 DEF Opened
    <2> QED  BY <1>7, <1>8, <2>1
  <1>10. options \cup Given(o, l) = {<<x[s + 2 * k - 1], x[s + 2 * k]>> : k \in 1..(m + n)}
    <2> DEFINE all == {<<x[s + 2 * k - 1], x[s + 2 * k]>> : k \in 1..(m + n)}
    <2>1. options = {<<x[s + 2 * k - 1], x[s + 2 * k]>> : k \in 1..m}  BY <1>6 DEF Opened
    <2>2. Given(o, l) = {<<x[s + 2 * (m + k) - 1], x[s + 2 * (m + k)]>> : k \in 1..n}
      BY <1>1, <1>7 DEF Given
    <2>3. \A k \in 1..m : k \in 1..(m + n)  BY <1>1
    <2>4. \A k \in 1..n : m + k \in 1..(m + n)  BY <1>1
    <2>5. options \subseteq all  BY <2>1, <2>3
    <2>6. Given(o, l) \subseteq all  BY <2>2, <2>4
    <2>7. all \subseteq options \cup Given(o, l)
      <3> SUFFICES ASSUME NEW h \in 1..(m + n)
                   PROVE  <<x[s + 2 * h - 1], x[s + 2 * h]>> \in options \cup Given(o, l)
        OBVIOUS
      <3>1. CASE h \in 1..m  BY <2>1, <3>1
      <3>2. CASE h \notin 1..m  BY <1>8, <2>2, <3>2
      <3> QED  BY <3>1, <3>2
    <2> HIDE DEF all
    <2>8. options \cup Given(o, l) = all  BY <2>5, <2>6, <2>7
    <2> QED  BY <2>8 DEF all
  <1>11. switches = {x[i] : i \in 2..s}  BY <1>5 DEF Opened
  <1>12. \A i \in 2..s : x[i] \in Dashed /\ x[i] \notin Valued /\ x[i] # "--"
    BY <1>5 DEF Opened
  <1> QED  BY <1>1, <1>3, <1>4, <1>5, <1>9, <1>10, <1>11, <1>12 DEF Opened, f, x, n

(* The rest of a line: words without a dash, or whatever is after "--". *)
RestOf(rest, t, z) ==
  /\ rest \in Seq(AnyWord) /\ t \in Seq(AnyWord) /\ z \in {0, 1}
  /\ Len(rest) = z + Len(t) /\ (z = 1 => rest[1] = "--")
  /\ \A i \in 1..Len(t) : rest[z + i] = t[i] /\ (z = 0 => t[i] \notin Dashed)

LEMMA LineClosed ==
  ASSUME NEW line, NEW s, NEW m, NEW command, NEW switches, NEW options,
         Opened(line, s, m, command, switches, options),
         NEW rest, NEW t, NEW z, RestOf(rest, t, z)
  PROVE  /\ line \o rest \in Seq(AnyWord)
         /\ Reading(line \o rest) = [command |-> command, options |-> options,
                                    switches |-> switches, positional |-> t]
  <1> DEFINE x == line \o rest
  <1>1. /\ line \in Seq(AnyWord) /\ s \in Nat \ {0} /\ m \in Nat /\ Len(line) = s + 2 * m
        /\ Len(t) \in Nat /\ rest \in Seq(AnyWord) /\ t \in Seq(AnyWord) /\ z \in {0, 1}
        /\ Len(rest) = z + Len(t) /\ (z = 1 => rest[1] = "--")
        /\ \A i \in 1..Len(t) : rest[z + i] = t[i] /\ (z = 0 => t[i] \notin Dashed)
    BY DEF Opened, RestOf
  <1>2. /\ x \in Seq(AnyWord) /\ Len(x) = Len(line) + Len(rest)
        /\ \A i \in 1..Len(line) : x[i] = line[i]
        /\ \A i \in 1..Len(rest) : x[Len(line) + i] = rest[i]
    <2>1. line \in Seq(AnyWord) /\ rest \in Seq(AnyWord)  BY <1>1
    <2> QED  BY <2>1, WordsJoined
  <1> HIDE DEF x
  <1>3. x[1] = command /\ \A i \in 2..s : x[i] = line[i]
    <2>1. 1 \in 1..Len(line) /\ \A i \in 2..s : i \in 1..Len(line)  BY <1>1
    <2> QED  BY <1>2, <2>1 DEF Opened
  <1>4. \A k \in 1..m : x[s + 2 * k - 1] = line[s + 2 * k - 1] /\ x[s + 2 * k] = line[s + 2 * k]
    <2>1. \A k \in 1..m : s + 2 * k - 1 \in 1..Len(line) /\ s + 2 * k \in 1..Len(line)  BY <1>1
    <2> QED  BY <1>2, <2>1
  <1>5. ASSUME NEW i \in 1..Len(t)
        PROVE  x[s + 2 * m + z + i] = t[i] /\ (z = 0 => t[i] \notin Dashed)
    <2>1. z + i \in 1..Len(rest) /\ Len(line) + (z + i) = s + 2 * m + z + i  BY <1>1
    <2>2. x[Len(line) + (z + i)] = rest[z + i]  BY <1>2, <2>1
    <2> QED  BY <1>1, <2>1, <2>2
  <1>6. z = 1 => x[s + 2 * m + 1] = "--"
    <2> HAVE z = 1
    <2>1. 1 \in 1..Len(rest)  BY <1>1
    <2> QED  BY <1>1, <1>2, <2>1
  <1>7. LineOf(x, s, m, z, t)
    <2>1. Len(x) = s + 2 * m + z + Len(t)  BY <1>1, <1>2
    <2> QED  BY <1>1, <1>2, <1>3, <1>4, <1>5, <1>6, <2>1 DEF LineOf, Opened
  <1>8. Reading(x) = [command |-> x[1],
                      options |-> {<<x[s + 2 * k - 1], x[s + 2 * k]>> : k \in 1..m},
                      switches |-> {x[i] : i \in 2..s}, positional |-> t]
    BY <1>7, LineRead
  <1>9. /\ {<<x[s + 2 * k - 1], x[s + 2 * k]>> : k \in 1..m} = options
        /\ {x[i] : i \in 2..s} = switches
    <2>1. {<<x[s + 2 * k - 1], x[s + 2 * k]>> : k \in 1..m}
             = {<<line[s + 2 * k - 1], line[s + 2 * k]>> : k \in 1..m}
      BY <1>4
    <2>2. {x[i] : i \in 2..s} = {line[i] : i \in 2..s}  BY <1>3
    <2> QED  BY <2>1, <2>2 DEF Opened
  <1> QED  BY <1>2, <1>3, <1>8, <1>9 DEF x

-----------------------------------------------------------------------------
LEMMA WordsClosed ==
  ASSUME NEW line, NEW s, NEW m, NEW command, NEW switches, NEW options,
         Opened(line, s, m, command, switches, options),
         NEW t \in Seq(AnyWord), \A i \in 1..Len(t) : t[i] \notin Dashed
  PROVE  /\ line \o t \in Seq(AnyWord)
         /\ Reading(line \o t) = [command |-> command, options |-> options,
                                 switches |-> switches, positional |-> t]
  <1>1. PICK z : z = 0  OBVIOUS
  <1>2. z \in {0, 1} /\ Len(t) = z + Len(t) /\ (z = 1 => t[1] = "--")  BY <1>1
  <1>3. \A i \in 1..Len(t) : t[z + i] = t[i] /\ (z = 0 => t[i] \notin Dashed)  BY <1>1
  <1>4. RestOf(t, t, z)  BY <1>2, <1>3 DEF RestOf
  <1> QED  BY <1>4, LineClosed

(* What restic reads is what was meant, command by command. *)
Understood(q) == Argv(q) \in Seq(AnyWord) /\ Reading(Argv(q)) = Meaning(q)

LEMMA RestClosed ==
  ASSUME NEW line, NEW s, NEW m, NEW command, NEW switches, NEW options,
         Opened(line, s, m, command, switches, options),
         NEW w \in AnyWord
  PROVE  /\ line \o <<"--", w>> \in Seq(AnyWord)
         /\ Reading(line \o <<"--", w>>) = [command |-> command, options |-> options,
                                           switches |-> switches, positional |-> <<w>>]
  <1> DEFINE rest == <<"--", w>>
             t == <<w>>
  <1>1. /\ rest \in Seq(AnyWord) /\ t \in Seq(AnyWord) /\ rest[1] = "--" /\ rest[2] = t[1]
        /\ Len(t) = 1 /\ Len(rest) = 2
    <2>1. "--" \in AnyWord  BY DEF AnyWord
    <2>2. rest \in Seq(AnyWord) /\ Len(rest) = 2  BY <2>1, PairIs
    <2>3. t \in Seq(AnyWord) /\ Len(t) = 1  BY SingleIs
    <2> QED  BY <2>2, <2>3
  <1> HIDE DEF rest, t
  <1>2. PICK z : z = 1  OBVIOUS
  <1>3. z \in {0, 1} /\ Len(rest) = z + Len(t) /\ (z = 1 => rest[1] = "--")  BY <1>1, <1>2
  <1>4. \A i \in 1..Len(t) : rest[z + i] = t[i] /\ (z = 0 => t[i] \notin Dashed)
    <2>1. \A i \in 1..Len(t) : i = 1 /\ z + i = 2  BY <1>1, <1>2
    <2> QED  BY <1>1, <1>2, <2>1
  <1>5. rest \in Seq(AnyWord) /\ t \in Seq(AnyWord)  BY <1>1
  <1>6. /\ line \o rest \in Seq(AnyWord)
        /\ Reading(line \o rest) = [command |-> command, options |-> options,
                                    switches |-> switches, positional |-> t]
    <2>1. RestOf(rest, t, z)  BY <1>3, <1>4, <1>5 DEF RestOf
    <2> QED  BY <2>1, LineClosed
  <1> QED  BY <1>6 DEF rest, t

LEMMA HeadOpened ==
  ASSUME NEW command \in AnyWord
  PROVE  Opened(<<command, "--json">>, 2, 0, command, {"--json"}, {})
  <1> DEFINE line == <<command, "--json">>
  <1>1. line \in Seq(AnyWord) /\ Len(line) = 2 + 2 * 0 /\ line[1] = command /\ line[2] = "--json"
    <2>1. "--json" \in AnyWord  BY DEF AnyWord, Switches
    <2>2. line \in Seq(AnyWord) /\ Len(line) = 2  BY <2>1, PairIs
    <2>3. 2 = 2 + 2 * 0  OBVIOUS
    <2> QED  BY <2>2, <2>3
  <1>2. "--json" \in Dashed /\ "--json" \notin Valued /\ "--json" # "--"
    BY WordsApart DEF Switches, Valued
  <1>3. \A i \in 2..2 : i = 2  OBVIOUS
  <1>4. {line[i] : i \in 2..2} = {"--json"}
    <2>1. 2..2 = {2}  OBVIOUS
    <2> HIDE DEF line
    <2> QED  BY <1>1, <2>1
  <1>5. 1..0 = {} /\ 2 \in Nat \ {0} /\ 0 \in Nat  OBVIOUS
  <1>6. {<<line[2 + 2 * k - 1], line[2 + 2 * k]>> : k \in 1..0} = {}  BY <1>5
  <1> HIDE DEF line
  <1>7. \A i \in 2..2 : line[i] \in Dashed /\ line[i] \notin Valued /\ line[i] # "--"
    BY <1>1, <1>2, <1>3
  <1> QED  BY <1>1, <1>4, <1>5, <1>6, <1>7 DEF Opened, line

LEMMA OneMore ==
  \A x \in Seq(AnyWord), a \in AnyWord :
     /\ x \o <<a>> \in Seq(AnyWord) /\ Len(x \o <<a>>) = Len(x) + 1
     /\ (x \o <<a>>)[Len(x) + 1] = a
     /\ \A i \in 1..Len(x) : (x \o <<a>>)[i] = x[i]
  <1> TAKE x \in Seq(AnyWord), a \in AnyWord
  <1> DEFINE y == <<a>>
  <1>1. y \in Seq(AnyWord) /\ Len(y) = 1 /\ y[1] = a /\ 1 \in 1..1  BY SingleIs
  <1> HIDE DEF y
  <1>2. /\ x \o y \in Seq(AnyWord) /\ Len(x \o y) = Len(x) + Len(y)
        /\ \A i \in 1..Len(x) : (x \o y)[i] = x[i]
        /\ \A i \in 1..Len(y) : (x \o y)[Len(x) + i] = y[i]
    BY <1>1, WordsJoined
  <1>3. /\ x \o y \in Seq(AnyWord) /\ Len(x \o y) = Len(x) + 1 /\ (x \o y)[Len(x) + 1] = a
        /\ \A i \in 1..Len(x) : (x \o y)[i] = x[i]
    BY <1>1, <1>2
  <1> QED  BY <1>3 DEF y

LEMMA TripleIs ==
  ASSUME NEW S, NEW a \in S, NEW b \in S, NEW c \in S
  PROVE  <<a, b, c>> \in Seq(S) /\ Len(<<a, b, c>>) = 3
  OBVIOUS

LEMMA QuadrupleIs ==
  ASSUME NEW S, NEW a \in S, NEW b \in S, NEW c \in S, NEW d \in S
  PROVE  <<a, b, c, d>> \in Seq(S) /\ Len(<<a, b, c, d>>) = 4
  OBVIOUS

LEMMA TwoJoined ==
  ASSUME NEW a \in AnyWord, NEW b \in AnyWord
  PROVE  <<a>> \o <<b>> = <<a, b>>
  <1> DEFINE x == <<a>>
             z == <<a, b>>
  <1>1. x \in Seq(AnyWord) /\ Len(x) = 1 /\ x[1] = a  BY SingleIs
  <1>2. z \in Seq(AnyWord) /\ Len(z) = 2 /\ z[1] = a /\ z[2] = b  BY PairIs
  <1> HIDE DEF x, z
  <1>3. /\ x \o <<b>> \in Seq(AnyWord) /\ Len(x \o <<b>>) = 2
        /\ (x \o <<b>>)[1] = a /\ (x \o <<b>>)[2] = b
    <2>1. 1 \in 1..1 /\ 1 + 1 = 2  OBVIOUS
    <2>2. /\ x \o <<b>> \in Seq(AnyWord) /\ Len(x \o <<b>>) = Len(x) + 1
          /\ (x \o <<b>>)[Len(x) + 1] = b
          /\ \A i \in 1..Len(x) : (x \o <<b>>)[i] = x[i]
      BY <1>1, OneMore
    <2> QED  BY <1>1, <2>1, <2>2
  <1>4. \A i \in 1..2 : i = 1 \/ i = 2  OBVIOUS
  <1>5. x \o <<b>> = z  BY <1>2, <1>3, <1>4, SeqEqual
  <1> QED  BY <1>5 DEF x, z

LEMMA ThreeJoined ==
  ASSUME NEW a \in AnyWord, NEW b \in AnyWord, NEW c \in AnyWord
  PROVE  <<a, b>> \o <<c>> = <<a, b, c>>
  <1> DEFINE x == <<a, b>>
             z == <<a, b, c>>
  <1>1. x \in Seq(AnyWord) /\ Len(x) = 2 /\ x[1] = a /\ x[2] = b  BY PairIs
  <1>2. z \in Seq(AnyWord) /\ Len(z) = 3 /\ z[1] = a /\ z[2] = b /\ z[3] = c  BY TripleIs
  <1> HIDE DEF x, z
  <1>3. /\ x \o <<c>> \in Seq(AnyWord) /\ Len(x \o <<c>>) = 3
        /\ (x \o <<c>>)[1] = a /\ (x \o <<c>>)[2] = b /\ (x \o <<c>>)[3] = c
    <2>1. 1 \in 1..2 /\ 2 \in 1..2 /\ 2 + 1 = 3  OBVIOUS
    <2>2. /\ x \o <<c>> \in Seq(AnyWord) /\ Len(x \o <<c>>) = Len(x) + 1
          /\ (x \o <<c>>)[Len(x) + 1] = c
          /\ \A i \in 1..Len(x) : (x \o <<c>>)[i] = x[i]
      BY <1>1, OneMore
    <2> QED  BY <1>1, <2>1, <2>2
  <1>4. \A i \in 1..3 : i = 1 \/ i = 2 \/ i = 3  OBVIOUS
  <1>5. x \o <<c>> = z  BY <1>2, <1>3, <1>4, SeqEqual
  <1> QED  BY <1>5 DEF x, z

LEMMA SwitchAdded ==
  ASSUME NEW command \in AnyWord, NEW w \in Switches
  PROVE  Opened(<<command, "--json">> \o <<w>>, 3, 0, command, {"--json", w}, {})
  <1> DEFINE line == <<command, "--json">> \o <<w>>
  <1>1. command \in AnyWord /\ w \in AnyWord /\ "--json" \in AnyWord  BY DEF AnyWord, Switches
  <1>2. line = <<command, "--json", w>>  BY <1>1, ThreeJoined
  <1>3. /\ line \in Seq(AnyWord) /\ Len(line) = 3 + 2 * 0
        /\ line[1] = command /\ line[2] = "--json" /\ line[3] = w
    <2>1. line \in Seq(AnyWord) /\ Len(line) = 3  BY <1>2, <1>1, TripleIs
    <2>2. 3 = 3 + 2 * 0  OBVIOUS
    <2> QED  BY <1>2, <2>1, <2>2
  <1> HIDE DEF line
  <1>4. \A v \in {"--json", w} : v \in Dashed /\ v \notin Valued /\ v # "--"
    BY WordsApart DEF Switches, Valued
  <1>5. 2..3 = {2, 3} /\ 1..0 = {} /\ 3 \in Nat \ {0} /\ 0 \in Nat  OBVIOUS
  <1>6. {line[i] : i \in 2..3} = {"--json", w}  BY <1>3, <1>5
  <1>7. {<<line[3 + 2 * k - 1], line[3 + 2 * k]>> : k \in 1..0} = {}  BY <1>5
  <1>8. \A i \in 2..3 : line[i] \in Dashed /\ line[i] \notin Valued /\ line[i] # "--"
    BY <1>3, <1>4, <1>5
  <1> QED  BY <1>3, <1>5, <1>6, <1>7, <1>8 DEF Opened, line

LEMMA SnapshotsUnderstood ==
  ASSUME NEW q \in Asked, q.command = "snapshots"
  PROVE  Understood(q)
  <1> DEFINE a == <<"snapshots", "--json">>
             b == a \o Flagged("--host", q.hosts)
             c == b \o Flagged("--tag", q.tags)
             d == c \o Flagged("--path", CleanAll(q.paths))
             given == Given("--host", q.hosts) \cup Given("--tag", q.tags)
                        \cup Given("--path", CleanAll(q.paths))
  <1>1. /\ q.hosts \in Seq(AnyWord) /\ q.tags \in Seq(AnyWord) /\ q.paths \in Seq(AnyWord)
        /\ q.ids \in Seq(AnyWord)
    <2>1. /\ q.hosts \in Seq(STRING) /\ q.tags \in Seq(STRING) /\ q.paths \in Seq(STRING)
          /\ q.ids \in Seq(STRING)
      BY QuestionsKnown DEF Asked
    <2> QED  BY <2>1, AnyOfString
  <1>2. RangeIn(q.paths, DOMAIN Clean) /\ RangeIn(q.ids, SnapshotIds)
    BY DEF Asked, Accepted, Buildable
  <1>3. CleanAll(q.paths) \in Seq(AnyWord)
    <2>1. \A w \in DOMAIN Clean : Clean[w] \in AnyWord  BY QuestionsKnown DEF AnyWord
    <2>2. DOMAIN q.paths = 1..Len(q.paths) /\ Len(q.paths) \in Nat  BY <1>1
    <2>3. \A i \in 1..Len(q.paths) : Clean[q.paths[i]] \in AnyWord
      BY <1>2, <2>1, <2>2 DEF RangeIn
    <2>4. CleanAll(q.paths) = [i \in 1..Len(q.paths) |-> Clean[q.paths[i]]]
      BY <2>2 DEF CleanAll
    <2> QED  BY <2>2, <2>3, <2>4
  <1>4. \A w \in {"--host", "--tag", "--path"} : w \in AnyWord /\ w \in Valued
    BY DEF Valued, AnyWord
  <1>5. Opened(a, 2, 0, "snapshots", {"--json"}, {})
    <2>1. "snapshots" \in AnyWord  BY DEF AnyWord
    <2> QED  BY <2>1, HeadOpened
  <1> HIDE DEF a
  <1>6. Opened(b, 2, 0 + Len(q.hosts), "snapshots", {"--json"}, {} \cup Given("--host", q.hosts))
    BY <1>1, <1>4, <1>5, FlagsAdded
  <1> HIDE DEF b
  <1>7. Opened(c, 2, 0 + Len(q.hosts) + Len(q.tags), "snapshots", {"--json"},
               {} \cup Given("--host", q.hosts) \cup Given("--tag", q.tags))
    BY <1>1, <1>4, <1>6, FlagsAdded
  <1> HIDE DEF c
  <1>8. Opened(d, 2, 0 + Len(q.hosts) + Len(q.tags) + Len(CleanAll(q.paths)), "snapshots",
               {"--json"},
               {} \cup Given("--host", q.hosts) \cup Given("--tag", q.tags)
                 \cup Given("--path", CleanAll(q.paths)))
    BY <1>3, <1>4, <1>7, FlagsAdded
  <1>9. {} \cup Given("--host", q.hosts) \cup Given("--tag", q.tags)
          \cup Given("--path", CleanAll(q.paths)) = given
    OBVIOUS
  <1> HIDE DEF d, given
  <1>10. \A i \in 1..Len(q.ids) : q.ids[i] \notin Dashed
    <2>1. \A i \in 1..Len(q.ids) : q.ids[i] \in SnapshotIds  BY <1>1, <1>2 DEF RangeIn
    <2> QED  BY <2>1, WordsApart
  <1>11. /\ d \o q.ids \in Seq(AnyWord)
         /\ Reading(d \o q.ids) = [command |-> "snapshots", options |-> given,
                                  switches |-> {"--json"}, positional |-> q.ids]
    <2>1. Opened(d, 2, 0 + Len(q.hosts) + Len(q.tags) + Len(CleanAll(q.paths)), "snapshots",
                 {"--json"}, given)
      BY <1>8, <1>9
    <2>2. PICK t \in Seq(AnyWord) : t = q.ids  BY <1>1
    <2>3. PICK m : m = 0 + Len(q.hosts) + Len(q.tags) + Len(CleanAll(q.paths))  OBVIOUS
    <2>4. Opened(d, 2, m, "snapshots", {"--json"}, given)  BY <2>1, <2>3
    <2>5. \A i \in 1..Len(t) : t[i] \notin Dashed  BY <1>10, <2>2
    <2>6. /\ d \o t \in Seq(AnyWord)
          /\ Reading(d \o t) = [command |-> "snapshots", options |-> given,
                                switches |-> {"--json"}, positional |-> t]
      BY <2>4, <2>5, WordsClosed
    <2> QED  BY <2>2, <2>6
  <1>12. Argv(q) = d \o q.ids  BY DEF Argv, SnapshotsArgv, a, b, c, d
  <1>13. Meaning(q) = [command |-> "snapshots", options |-> given,
                       switches |-> {"--json"}, positional |-> q.ids]
    BY DEF Meaning, given
  <1> QED  BY <1>11, <1>12, <1>13 DEF Understood

LEMMA StatsUnderstood ==
  ASSUME NEW q \in Asked, q.command = "stats"
  PROVE  Understood(q)
  <1> DEFINE mode == ModeOf(q)
             line == <<"stats", "--json", "--mode", mode>>
  <1>1. q.ids \in Seq(AnyWord) /\ q.mode \in STRING
    <2>1. q.ids \in Seq(STRING) /\ q.mode \in STRING  BY QuestionsKnown DEF Asked
    <2> QED  BY <2>1, AnyOfString
  <1>2. RangeIn(q.ids, SnapshotIds)  BY DEF Asked, Accepted, Buildable
  <1>3. mode \in AnyWord
    <2>1. "restore-size" \in AnyWord /\ q.mode \in AnyWord  BY <1>1 DEF AnyWord
    <2> QED  BY <2>1, Zenon DEF ModeOf
  <1> HIDE DEF mode
  <1>4. Opened(line, 2, 1, "stats", {"--json"}, {<<"--mode", mode>>})
    <2>1. /\ "stats" \in AnyWord /\ "--json" \in AnyWord /\ "--mode" \in AnyWord
          /\ "--mode" \in Valued
      BY DEF AnyWord, Switches, Valued
    <2>2. /\ line \in Seq(AnyWord) /\ Len(line) = 2 + 2 * 1
          /\ line[1] = "stats" /\ line[2] = "--json" /\ line[3] = "--mode" /\ line[4] = mode
      <3>1. line \in Seq(AnyWord) /\ Len(line) = 4  BY <1>3, <2>1, QuadrupleIs
      <3>2. 4 = 2 + 2 * 1  OBVIOUS
      <3> QED  BY <3>1, <3>2
    <2> HIDE DEF line
    <2>3. "--json" \in Dashed /\ "--json" \notin Valued /\ "--json" # "--"
      BY WordsApart DEF Switches, Valued
    <2>4. /\ \A i \in 2..2 : i = 2
          /\ \A k \in 1..1 : 2 + 2 * k - 1 = 3 /\ 2 + 2 * k = 4
          /\ 2..2 = {2} /\ 1..1 = {1}
      OBVIOUS
    <2>5. \A i \in 2..2 : line[i] \in Dashed /\ line[i] \notin Valued /\ line[i] # "--"
      BY <2>2, <2>3, <2>4
    <2>6. {line[i] : i \in 2..2} = {"--json"}  BY <2>2, <2>4
    <2>7. \A k \in 1..1 : line[2 + 2 * k - 1] = "--mode" /\ line[2 + 2 * k] = mode
      BY <2>2, <2>4
    <2>8. {<<line[2 + 2 * k - 1], line[2 + 2 * k]>> : k \in 1..1} = {<<"--mode", mode>>}
      <3>1. 1 \in 1..1  OBVIOUS
      <3> QED  BY <2>7, <3>1
    <2> QED  BY <2>1, <2>2, <2>5, <2>6, <2>7, <2>8 DEF Opened
  <1> HIDE DEF line
  <1>5. PICK t \in Seq(AnyWord) : t = q.ids  BY <1>1
  <1>6. \A i \in 1..Len(t) : t[i] \notin Dashed
    <2>1. \A i \in 1..Len(t) : t[i] \in SnapshotIds  BY <1>2, <1>5 DEF RangeIn
    <2> QED  BY <2>1, WordsApart
  <1>7. /\ line \o t \in Seq(AnyWord)
        /\ Reading(line \o t) = [command |-> "stats", options |-> {<<"--mode", mode>>},
                                switches |-> {"--json"}, positional |-> t]
    BY <1>4, <1>6, WordsClosed
  <1>8. Argv(q) = line \o t  BY <1>5 DEF Argv, StatsArgv, line, mode
  <1>9. Meaning(q) = [command |-> "stats", options |-> {<<"--mode", mode>>},
                      switches |-> {"--json"}, positional |-> t]
    BY <1>5 DEF Meaning, mode
  <1> QED  BY <1>7, <1>8, <1>9 DEF Understood

LEMMA FindUnderstood ==
  ASSUME NEW q \in Asked, q.command = "find"
  PROVE  Understood(q)
  <1> DEFINE a == <<"find", "--json">> \o If(q.ignoreCase, "--ignore-case")
             b == a \o Flagged("--snapshot", q.ids)
             switches == {"--json"} \cup (IF q.ignoreCase THEN {"--ignore-case"} ELSE {})
             options == Given("--snapshot", q.ids)
             t == <<q.pattern>>
             rest == <<"--", q.pattern>>
  <1>1. q.ids \in Seq(AnyWord) /\ q.pattern \in AnyWord /\ q.ignoreCase \in BOOLEAN
    <2>1. q.ids \in Seq(STRING) /\ q.pattern \in STRING /\ q.ignoreCase \in BOOLEAN
      BY QuestionsKnown DEF Asked
    <2> QED  BY <2>1, AnyOfString DEF AnyWord
  <1>2. PICK s : Opened(a, s, 0, "find", switches, {})
    <2>1. "find" \in AnyWord /\ "--json" \in AnyWord  BY DEF AnyWord, Switches
    <2>2. CASE q.ignoreCase
      <3>1. a = <<"find", "--json">> \o <<"--ignore-case">>  BY <2>2 DEF If
      <3>2. switches = {"--json", "--ignore-case"}  BY <2>2
      <3>3. "--ignore-case" \in Switches  BY DEF Switches
      <3>4. Opened(<<"find", "--json">> \o <<"--ignore-case">>, 3, 0, "find",
                   {"--json", "--ignore-case"}, {})
        BY <2>1, <3>3, SwitchAdded
      <3> QED  BY <3>1, <3>2, <3>4, Zenon
    <2>3. CASE ~q.ignoreCase
      <3>1. a = <<"find", "--json">> \o <<>>  BY <2>3 DEF If
      <3>2. <<"find", "--json">> \in Seq(AnyWord)  BY <2>1, PairIs
      <3>3. a = <<"find", "--json">>  BY <3>1, <3>2, ConcatEmptySeq
      <3>4. switches = {"--json"}  BY <2>3
      <3>5. Opened(<<"find", "--json">>, 2, 0, "find", {"--json"}, {})  BY <2>1, HeadOpened
      <3> QED  BY <3>3, <3>4, <3>5, Zenon
    <2> QED  BY <2>2, <2>3
  <1> HIDE DEF a, switches
  <1>3. PICK m : Opened(b, s, m, "find", switches, options)
    <2>1. "--snapshot" \in AnyWord /\ "--snapshot" \in Valued  BY DEF AnyWord, Valued
    <2>2. Opened(b, s, 0 + Len(q.ids), "find", switches, {} \cup Given("--snapshot", q.ids))
      BY <1>1, <1>2, <2>1, FlagsAdded
    <2>3. {} \cup Given("--snapshot", q.ids) = options  OBVIOUS
    <2> HIDE DEF b, options
    <2> QED  BY <2>2, <2>3
  <1> HIDE DEF b, options
  <1>4. /\ b \o rest \in Seq(AnyWord)
        /\ Reading(b \o rest) = [command |-> "find", options |-> options,
                                 switches |-> switches, positional |-> t]
    <2>1. PICK w \in AnyWord : w = q.pattern  BY <1>1
    <2>2. /\ b \o <<"--", w>> \in Seq(AnyWord)
          /\ Reading(b \o <<"--", w>>) = [command |-> "find", options |-> options,
                                          switches |-> switches, positional |-> <<w>>]
      BY <1>3, RestClosed
    <2> QED  BY <2>1, <2>2
  <1>5. Argv(q) = b \o rest  BY DEF Argv, FindArgv, a, b, rest
  <1>6. Meaning(q) = [command |-> "find", options |-> options,
                      switches |-> switches, positional |-> t]
    BY DEF Meaning, options, switches, t
  <1> QED  BY <1>4, <1>5, <1>6 DEF Understood

LEMMA PairCounted ==
  ASSUME NEW a, NEW b, a # b
  PROVE  Cardinality({a}) = 1 /\ Cardinality({a, b}) = 2
  <1>1. IsFiniteSet({a}) /\ Cardinality({a}) = 1  BY FS_Singleton
  <1>2. Cardinality({a} \cup {b}) = Cardinality({a}) + 1
    <2>1. b \notin {a}  OBVIOUS
    <2> QED  BY <1>1, <2>1, FS_AddElement
  <1>3. {a} \cup {b} = {a, b}  OBVIOUS
  <1> QED  BY <1>1, <1>2, <1>3

(* The line of ls with a switch after the snapshot. *)
LEMMA ListingRead ==
  ASSUME NEW x \in Seq(AnyWord), Len(x) = 5, x[1] = "ls", x[2] = "--json", x[4] = "--recursive",
         x[3] \notin Dashed, x[5] \notin Dashed
  PROVE  Reading(x) = [command |-> "ls", options |-> {}, switches |-> {"--json", "--recursive"},
                       positional |-> <<x[3], x[5]>>]
  <1> DEFINE f == [i \in 1..5 |-> IF i = 1 THEN "command"
                                  ELSE IF i \in {2, 4} THEN "switch" ELSE "positional"]
             role == Roles(x)
             at(r) == {i \in DOMAIN x : role[i] = r}
             P == at("positional")
             rank(i) == Cardinality({j \in P : j <= i})
  <1>1. /\ DOMAIN x = 1..5 /\ 1..Len(x) = 1..5
        /\ \A i \in 1..5 : i = 1 \/ i = 2 \/ i = 3 \/ i = 4 \/ i = 5
    OBVIOUS
  <1>2. /\ f[1] = "command" /\ f[2] = "switch" /\ f[3] = "positional" /\ f[4] = "switch"
        /\ f[5] = "positional" /\ f = [i \in 1..5 |-> f[i]]
    OBVIOUS
  <1> HIDE DEF f
  <1>3. Roles(x) = f
    <2>1. ASSUME NEW i \in 1..5 PROVE f[i] = RoleOf(x, f, i)
      <3>1. \A j \in 2..(i - 1) : f[j] # "end"
        <4>1. \A j \in 2..(i - 1) : j \in 1..5  OBVIOUS
        <4> QED  BY <1>1, <1>2, <4>1
      <3>2. i > 1 => f[i - 1] # "option"
        <4>1. i > 1 => i - 1 \in 1..5  OBVIOUS
        <4> QED  BY <1>1, <1>2, <4>1
      <3>3. /\ \A w \in {"--json", "--recursive"} : w # "--" /\ w \notin Valued /\ w \in Dashed
            /\ \A w : w \notin Dashed => w # "--" /\ w \notin Valued
        BY WordsApart DEF Switches, Valued
      <3>4. CASE i = 1  BY <1>2, <3>4 DEF RoleOf
      <3>5. CASE i = 2 \/ i = 4
        <4>1. /\ f[i] = "switch" /\ x[i] \in {"--json", "--recursive"} /\ i > 1 /\ i # 1
          BY <1>2, <3>5
        <4> QED  BY <3>1, <3>2, <3>3, <4>1 DEF RoleOf
      <3>6. CASE i = 3 \/ i = 5
        <4>1. /\ f[i] = "positional" /\ x[i] \notin Dashed /\ i > 1 /\ i # 1
          BY <1>2, <3>6
        <4> QED  BY <3>1, <3>2, <3>3, <4>1 DEF RoleOf
      <3> QED  BY <1>1, <3>4, <3>5, <3>6
    <2>2. f = [i \in 1..Len(x) |-> RoleOf(x, f, i)]  BY <1>1, <1>2, <2>1
    <2>3. Len(x) \in Nat  OBVIOUS
    <2> QED  BY <2>2, <2>3, RolesAre
  <1>4. Reading(x) = [command |-> x[1],
                      options |-> {<<x[i], x[i + 1]>> : i \in at("option")},
                      switches |-> {x[i] : i \in at("switch")},
                      positional |-> [k \in 1..Cardinality(P) |->
                                        x[CHOOSE i \in P : rank(i) = k]]]
    BY DEF Reading
  <1>5. at("option") = {} /\ at("switch") = {2, 4} /\ P = {3, 5}  BY <1>1, <1>2, <1>3
  <1> HIDE DEF P, at
  <1>6. Cardinality(P) = 2 /\ rank(3) = 1 /\ rank(5) = 2
    <2>1. {j \in P : j <= 3} = {3} /\ {j \in P : j <= 5} = {3, 5}  BY <1>5
    <2>2. Cardinality({3}) = 1 /\ Cardinality({3, 5}) = 2
      <3>1. 3 # 5  OBVIOUS
      <3> QED  BY <3>1, PairCounted
    <2> QED  BY <1>5, <2>1, <2>2
  <1> HIDE DEF rank
  <1>7. ASSUME NEW k \in 1..2 PROVE x[CHOOSE i \in P : rank(i) = k] = <<x[3], x[5]>>[k]
    <2>1. k = 1 \/ k = 2  OBVIOUS
    <2>2. k = 1 => (CHOOSE i \in P : rank(i) = k) = 3  BY <1>5, <1>6
    <2>3. k = 2 => (CHOOSE i \in P : rank(i) = k) = 5  BY <1>5, <1>6
    <2> DEFINE place == CHOOSE i \in P : rank(i) = k
    <2>4. (k = 1 => place = 3) /\ (k = 2 => place = 5)  BY <2>2, <2>3, Zenon
    <2> HIDE DEF place
    <2>5. x[place] = <<x[3], x[5]>>[k]  BY <2>1, <2>4
    <2> QED  BY <2>5 DEF place
  <1>8. [k \in 1..Cardinality(P) |-> x[CHOOSE i \in P : rank(i) = k]] = <<x[3], x[5]>>
    <2>1. <<x[3], x[5]>> = [k \in 1..2 |-> <<x[3], x[5]>>[k]]  OBVIOUS
    <2> QED  BY <1>6, <1>7, <2>1
  <1>9. {x[i] : i \in {2, 4}} = {"--json", "--recursive"}  OBVIOUS
  <1>10. {<<x[i], x[i + 1]>> : i \in {}} = {}  OBVIOUS
  <1> QED  BY <1>4, <1>5, <1>8, <1>9, <1>10

LEMMA LsUnderstood ==
  ASSUME NEW q \in Asked, q.command = "ls"
  PROVE  Understood(q)
  <1> DEFINE dir == Clean[q.dir]
             head == <<"ls", "--json">>
  <1>1. /\ q.id \in AnyWord /\ dir \in AnyWord /\ q.recursive \in BOOLEAN
        /\ q.id \notin Dashed /\ dir \notin Dashed
    <2>1. q.id \in STRING /\ q.recursive \in BOOLEAN  BY QuestionsKnown DEF Asked
    <2>2. q.id \in SnapshotIds /\ q.dir \in DOMAIN Clean  BY DEF Asked, Accepted, Buildable
    <2>3. dir \in STRING  BY <2>2, QuestionsKnown
    <2> QED  BY <2>1, <2>2, <2>3, WordsApart DEF AnyWord
  <1>2. "ls" \in AnyWord /\ "--json" \in AnyWord /\ "--recursive" \in AnyWord
    BY DEF AnyWord, Switches
  <1> HIDE DEF dir
  <1>3. head \in Seq(AnyWord) /\ <<q.id>> \in Seq(AnyWord) /\ <<dir>> \in Seq(AnyWord)
        /\ <<q.id, dir>> \in Seq(AnyWord) /\ <<"--recursive">> \in Seq(AnyWord)
    <2>1. head \in Seq(AnyWord) /\ <<q.id, dir>> \in Seq(AnyWord)  BY <1>1, <1>2, PairIs
    <2> QED  BY <1>1, <1>2, <2>1, SingleIs
  <1>4. head \o <<q.id>> = <<"ls", "--json", q.id>>  BY <1>1, <1>2, ThreeJoined
  <1>5. Argv(q) = ((head \o <<q.id>>) \o If(q.recursive, "--recursive")) \o <<dir>>
    BY <1>4 DEF Argv, LSArgv, dir
  <1>6. CASE q.recursive
    <2> DEFINE x == ((head \o <<q.id>>) \o <<"--recursive">>) \o <<dir>>
    <2>1. Argv(q) = x  BY <1>5, <1>6 DEF If
    <2>2. /\ x \in Seq(AnyWord) /\ Len(x) = 5 /\ x[1] = "ls" /\ x[2] = "--json" /\ x[3] = q.id
          /\ x[4] = "--recursive" /\ x[5] = dir
      <3> DEFINE y == <<"ls", "--json", q.id>>
                 w == y \o <<"--recursive">>
      <3>1. y \in Seq(AnyWord) /\ Len(y) = 3 /\ y[1] = "ls" /\ y[2] = "--json" /\ y[3] = q.id
        BY <1>1, <1>2, TripleIs
      <3> HIDE DEF y
      <3>2. /\ w \in Seq(AnyWord) /\ Len(w) = 4 /\ w[4] = "--recursive"
            /\ w[1] = y[1] /\ w[2] = y[2] /\ w[3] = y[3]
        <4>1. "--recursive" \in AnyWord /\ y \in Seq(AnyWord)  BY <1>2, <3>1
        <4>2. 1 \in 1..3 /\ 2 \in 1..3 /\ 3 \in 1..3 /\ 3 + 1 = 4  OBVIOUS
        <4>3. /\ y \o <<"--recursive">> \in Seq(AnyWord) /\ Len(y \o <<"--recursive">>) = Len(y) + 1
              /\ (y \o <<"--recursive">>)[Len(y) + 1] = "--recursive"
              /\ \A i \in 1..Len(y) : (y \o <<"--recursive">>)[i] = y[i]
          BY <4>1, OneMore
        <4> QED  BY <3>1, <4>2, <4>3
      <3> HIDE DEF w
      <3>3. /\ w \o <<dir>> \in Seq(AnyWord) /\ Len(w \o <<dir>>) = 5 /\ (w \o <<dir>>)[5] = dir
            /\ (w \o <<dir>>)[1] = w[1] /\ (w \o <<dir>>)[2] = w[2] /\ (w \o <<dir>>)[3] = w[3]
            /\ (w \o <<dir>>)[4] = w[4]
        <4>1. w \in Seq(AnyWord)  BY <3>2
        <4>2. 1 \in 1..4 /\ 2 \in 1..4 /\ 3 \in 1..4 /\ 4 \in 1..4 /\ 4 + 1 = 5  OBVIOUS
        <4>3. /\ w \o <<dir>> \in Seq(AnyWord) /\ Len(w \o <<dir>>) = Len(w) + 1
              /\ (w \o <<dir>>)[Len(w) + 1] = dir
              /\ \A i \in 1..Len(w) : (w \o <<dir>>)[i] = w[i]
          BY <1>1, <4>1, OneMore
        <4> QED  BY <3>2, <4>2, <4>3
      <3>4. x = w \o <<dir>>  BY <1>4 DEF w, y
      <3> HIDE DEF x
      <3> QED  BY <3>1, <3>2, <3>3, <3>4
    <2> HIDE DEF x
    <2>3. Reading(x) = [command |-> "ls", options |-> {}, switches |-> {"--json", "--recursive"},
                        positional |-> <<x[3], x[5]>>]
      BY <1>1, <2>2, ListingRead
    <2>4. Meaning(q) = [command |-> "ls", options |-> {}, switches |-> {"--json", "--recursive"},
                        positional |-> <<q.id, dir>>]
      BY <1>6 DEF Meaning, dir
    <2> QED  BY <2>1, <2>2, <2>3, <2>4 DEF Understood
  <1>7. CASE ~q.recursive
    <2>1. head \o <<q.id>> \in Seq(AnyWord)  BY <1>3, ConcatProperties
    <2>2. (head \o <<q.id>>) \o <<>> = head \o <<q.id>>  BY <2>1, ConcatEmptySeq
    <2>3. (head \o <<q.id>>) \o <<dir>> = head \o (<<q.id>> \o <<dir>>)
      BY <1>3, ConcatAssociative
    <2>4. <<q.id>> \o <<dir>> = <<q.id, dir>>  BY <1>1, TwoJoined
    <2>5. Argv(q) = head \o <<q.id, dir>>  BY <1>5, <1>7, <2>2, <2>3, <2>4 DEF If
    <2>6. Opened(head, 2, 0, "ls", {"--json"}, {})  BY <1>2, HeadOpened
    <2> DEFINE t == <<q.id, dir>>
    <2>7. t \in Seq(AnyWord) /\ \A i \in 1..Len(t) : t[i] \notin Dashed
      <3>1. \A i \in 1..2 : i = 1 \/ i = 2  OBVIOUS
      <3>2. Len(t) = 2 /\ t[1] = q.id /\ t[2] = dir  OBVIOUS
      <3> HIDE DEF t
      <3> QED  BY <1>1, <1>3, <3>1, <3>2 DEF t
    <2> HIDE DEF t, head
    <2>8. /\ head \o t \in Seq(AnyWord)
          /\ Reading(head \o t) = [command |-> "ls", options |-> {}, switches |-> {"--json"},
                                   positional |-> t]
      BY <2>6, <2>7, WordsClosed
    <2>9. Meaning(q) = [command |-> "ls", options |-> {}, switches |-> {"--json"},
                        positional |-> t]
      BY <1>7 DEF Meaning, dir, t
    <2> QED  BY <2>5, <2>8, <2>9 DEF Understood, t
  <1> QED  BY <1>1, <1>6, <1>7

LEMMA AllUnderstood == \A q \in Asked : Understood(q)
  <1> TAKE q \in Asked
  <1>1. q.command \in {"snapshots", "ls", "find", "stats"}  BY QuestionsKnown DEF Asked
  <1> QED  BY <1>1, SnapshotsUnderstood, LsUnderstood, FindUnderstood, StatsUnderstood

-----------------------------------------------------------------------------
(* Two lines that share a key are the same line, on the same repository: no   *)
(* word of a line that is let through has the NUL that the key joins with.    *)
LEMMA KeysApart ==
  ASSUME NEW c \in DOMAIN Keys, NEW d \in DOMAIN Keys, Keys[c] = Keys[d]
  PROVE  c[2] = d[2] /\ Argv(c[1]) = Argv(d[1])
  <1>1. ASSUME NEW e \in DOMAIN Keys
        PROVE  /\ e[1] \in Asked /\ Argv(e[1]) \in Seq(AnyWord)
               /\ Keys[e] = <<e[2]>> \o Argv(e[1])
    <2>1. e[1] \in Asked /\ Keys[e] = MetadataKey(e[2], Argv(e[1]))  BY DEF Keys
    <2>2. Argv(e[1]) \in Seq(AnyWord)  BY <2>1, AllUnderstood DEF Understood
    <2>3. AssertArgvAllowed(Argv(e[1]))  BY <2>1 DEF Asked, Accepted
    <2>4. /\ Argv(e[1]) # <<>>
          /\ \A i \in DOMAIN Argv(e[1]) : Argv(e[1])[i] \notin DOMAIN Pieces
      BY <2>3, WordsApart DEF AssertArgvAllowed
    <2> QED  BY <2>1, <2>2, <2>4, KeyIs
  <1> DEFINE a == Argv(c[1])
             b == Argv(d[1])
             S == AnyWord \cup {c[2], d[2]}
  <1>2. a \in Seq(AnyWord) /\ b \in Seq(AnyWord) /\ <<c[2]>> \o a = <<d[2]>> \o b  BY <1>1
  <1> HIDE DEF a, b
  <1>3. a \in Seq(S) /\ b \in Seq(S) /\ <<c[2]>> \in Seq(S) /\ <<d[2]>> \in Seq(S)
    <2>1. AnyWord \subseteq S /\ c[2] \in S /\ d[2] \in S  OBVIOUS
    <2> HIDE DEF S
    <2> QED  BY <1>2, <2>1, SingleIs
  <1> HIDE DEF S
  <1>4. c[2] = d[2]
    <2>1. (<<c[2]>> \o a)[1] = c[2] /\ (<<d[2]>> \o b)[1] = d[2]
      <3>1. Len(<<c[2]>>) = 1 /\ Len(<<d[2]>>) = 1 /\ 1 \in 1..1  OBVIOUS
      <3>2. <<c[2]>>[1] = c[2] /\ <<d[2]>>[1] = d[2]  OBVIOUS
      <3> QED  BY <1>3, <3>1, <3>2, Joined
    <2> QED  BY <1>2, <2>1
  <1>5. a = b
    <2>1. <<c[2]>> \o a = <<c[2]>> \o b  BY <1>2, <1>4
    <2>2. \A s, t, v \in Seq(S) : s \o t = s \o v => t = v  BY ConcatSimplifications
    <2> QED  BY <1>3, <2>1, <2>2
  <1> QED  BY <1>4, <1>5 DEF a, b

(* No question of any repository is answered as another, for every alphabet    *)
(* of names and every question: restic reads each line as it was meant, and    *)
(* the key of a shared result tells repositories and meanings apart.           *)
THEOREM NothingMisunderstood == Misunderstood = {}
  <1>1. \A q \in Asked : Reading(Argv(q)) = Meaning(q)  BY AllUnderstood DEF Understood
  <1>2. ASSUME NEW c \in DOMAIN Keys, NEW d \in DOMAIN Keys, Keys[c] = Keys[d]
        PROVE  c[2] = d[2] /\ Meaning(c[1]) = Meaning(d[1])
    <2>1. c[2] = d[2] /\ Argv(c[1]) = Argv(d[1])  BY <1>2, KeysApart
    <2>2. c[1] \in Asked /\ d[1] \in Asked  BY DEF Keys
    <2> QED  BY <1>1, <2>1, <2>2
  <1> QED  BY <1>1, <1>2 DEF Misunderstood

(* Whatever the policy permits and the client asks, the answer is of what it  *)
(* asked, in every state.                                                      *)
THEOREM AnswersAreFit == Spec => []AnswersFitQuestions
  <1>1. AnswersFitQuestions  BY NothingMisunderstood DEF AnswersFitQuestions
  <1> QED  BY <1>1, PTL
=============================================================================
