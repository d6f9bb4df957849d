----------------------------- MODULE Selection -----------------------------
(***************************************************************************)
(* How list_snapshots, get_snapshot, browse_snapshot, find_files and       *)
(* repository_stats choose the snapshots they work on (internal/mcpserver/ *)
(* selection.go and handlers.go), over a repository to which snapshots are *)
(* added and from which they are removed between any two commands.         *)
(*                                                                         *)
(* One request, and for the paged tools the traversal it begins, is        *)
(* followed from its arguments to its last answer: a first restic command  *)
(* lists the snapshots and the server chooses among them, a second one may *)
(* look the choice up again, a third reads the snapshots chosen.           *)
(*                                                                         *)
(* A snapshot is a number, in the order of creation; its attributes never  *)
(* change, since restic gives a changed snapshot another id.  Scan says    *)
(* how pages are cut at budgets: here a page is some of what is left to    *)
(* show, and a find group is never split.  Listing says how list_snapshots *)
(* goes on: here it shows all at once.                                     *)
(*                                                                         *)
(* Either look may be answered from the metadata cache.  If the first one  *)
(* is, the request is taken to begin with the observation in the cache.    *)
(***************************************************************************)
EXTENDS Freshness

CONSTANTS
  Latest,         \* the selector "latest"
  Snapshots,      \* snapshot ids in the order of their times
  Catalogues,     \* what the snapshots may look like: host, tags and roots of each
  Policies,       \* the policies a repository may be configured with
  Paths,          \* the paths of all nodes
  Abbreviations,  \* the sets of ids that a snapshot_id stands for
  Hosts, Tags, Scopes, Instants,   \* what requests may name
  Moments, Cadences,               \* when a summary may be made, and the cadence expected
  MaxSnapshots    \* max_snapshots

ASSUME SnapshotsOrdered == /\ Snapshots \subseteq Nat \ {0} /\ IsFiniteSet(Snapshots)
                           /\ Instants \subseteq Int
ASSUME JudgedInTime == Moments \subseteq Int /\ Cadences \subseteq Nat \cup {None}
ASSUME PathsKnown == /\ \A c \in Catalogues, s \in Snapshots : c[s].roots \subseteq Paths
                     /\ \A p \in Policies : p.paths \subseteq Paths
                     /\ Scopes \subseteq Paths /\ Paths \subseteq Seq(STRING)
ASSUME LimitPositive == MaxSnapshots \in Nat \ {0}
ASSUME Placeholders == None # Latest /\ {None, Latest} \cap Abbreviations = {}

VARIABLES
  policy,   \* the allowlists of the repository
  about,    \* what each snapshot looks like
  repo,     \* the snapshots in the repository
  gone,     \* the snapshots that were removed
  kept,     \* the metadata cache holds a look at the frozen ids, at which all were there
  request,  \* the arguments of the first call
  stage,    \* what the handler does next
  code,     \* the answer it gave last
  frozen,   \* the snapshots chosen: state.SnapshotIDs
  shown,    \* the nodes and paths answered so far, with their snapshots
  seen,     \* observer: in the repository at some moment since the call, or since the
            \* look at the frozen ids that it is answered from
  stable,   \* observer: in the repository all the time since the request
  newest    \* observer: of "latest", the newest one wanted at some moment since then

world == <<policy, about, repo, gone, kept>>
observers == <<seen, stable, newest>>
vars == <<world, request, stage, code, frozen, shown, observers>>

Optional(S) == S \cup {None}

Calls(tool, selectors, hosts, tags, paths) ==
  [tool : {tool}, id : selectors, host : hosts, tags : tags, path : paths,
   after : Optional(Instants), before : Optional(Instants)]

(* snapshot_id is required of get and browse, path of browse; find refuses "latest". *)
Requests ==
  LET tags == SUBSET Tags
      hosts == Optional(Hosts)
      named == Abbreviations \cup {Latest}
  IN Calls("list", {None}, hosts, tags, Optional(Scopes))
     \cup Calls("get", named, hosts, tags, Optional(Scopes))
     \cup Calls("browse", named, hosts, {{}}, Scopes)
     \cup Calls("find", Optional(named), hosts, tags, Optional(Scopes))
     \cup Calls("stats", Optional(named), hosts, tags, Optional(Scopes))

ASSUME RequestsGiven == None \notin Requests

Stages == {"idle", "select", "recheck", "read", "holding", "answered"}
Codes == {"ok", "invalid_argument", "not_allowed", "snapshot_not_found",
          "ambiguous_snapshot", "stale_selection", "failed"}

TypeOK ==
  /\ policy \in Policies /\ about \in Catalogues
  /\ repo \subseteq Snapshots /\ gone \subseteq Snapshots \ repo /\ kept \in BOOLEAN
  /\ request \in Optional(Requests) /\ (request = None <=> stage = "idle")
  /\ stage \in Stages /\ code \in Codes
  /\ frozen \subseteq Snapshots
  /\ (stage \in {"recheck", "read", "holding"} /\ request.tool \in {"find", "stats"})
       => Cardinality(frozen) \in 1..MaxSnapshots
  /\ shown \subseteq frozen \X Paths
  /\ stable \subseteq seen /\ seen \subseteq Snapshots /\ newest \subseteq Snapshots

Init ==
  /\ policy \in Policies /\ about \in Catalogues
  /\ repo \in SUBSET Snapshots /\ gone = {} /\ kept = FALSE
  /\ request = None /\ stage = "idle" /\ code = "ok"
  /\ frozen = {} /\ shown = {}
  /\ seen = {} /\ stable = {} /\ newest = {}

-----------------------------------------------------------------------------
(* What the properties compare the code with: a snapshot is visible if there *)
(* is something of it that the policy shows, and in scope if a path may be   *)
(* both in the scope and in the snapshot.                                    *)

In(s, path) == \E r \in about[s].roots : Under(path, r)

Visible(s) ==
  /\ policy.hosts = {} \/ about[s].host \in policy.hosts
  /\ policy.tags = {} \/ \E t \in policy.tags : t \in about[s].tags
  /\ policy.paths = {} \/ \E x \in Paths : In(s, x) /\ IsAllowed(policy, x)

(* The scope of a search without a path is the one allowed path, if there is one. *)
Scope(r) ==
  IF r.tool = "find" /\ r.path = None /\ Cardinality(policy.paths) = 1
  THEN CHOOSE p \in policy.paths : TRUE
  ELSE r.path

InScope(r, path) == Scope(r) = None \/ Under(path, Scope(r))

Wanted(r) ==
  {s \in Snapshots :
     /\ Visible(s)
     /\ r.id \in {None, Latest} \/ s \in r.id
     /\ r.host \in {None, about[s].host} /\ r.tags \subseteq about[s].tags
     /\ r.after = None \/ r.after <= s
     /\ r.before = None \/ s < r.before
     /\ Scope(r) = None \/ \E x \in Paths : In(s, x) /\ Under(x, Scope(r))}

LastOf(S) == {s \in S : \A t \in S : t <= s}

NewestWanted(r, present) == IF r.id = Latest THEN LastOf(Wanted(r) \cap present) ELSE {}

-----------------------------------------------------------------------------
(* The arguments.  find_files looks at the path before the id. *)

ScopeMissing(r) == r.tool = "find" /\ r.path = None /\ Cardinality(policy.paths) > 1

NoInstantIn(after, before) == after # None /\ before # None /\ ~(after < before)

Malformed(r) ==
  \/ NoInstantIn(r.after, r.before)
  \/ ScopeMissing(r)
  \/ r.id = Latest /\ r.tool = "find" /\ PathGranted(policy, Scope(r))
  \/ r.id = Latest /\ r.tool # "find" /\ ~LatestScoped(policy, r.host, r.tags, r.path)

Refused(r) == \/ ~PathGranted(policy, Scope(r)) \/ ~HostGranted(policy, r.host)
              \/ ~TagsGranted(policy, r.tags)

Answer(c) == stage' = "answered" /\ code' = c

Ask(r) ==
  /\ stage = "idle"
  /\ request' = r
  /\ \/ Malformed(r) /\ Answer("invalid_argument")
     \/ ~Malformed(r) /\ Refused(r) /\ Answer("not_allowed")
     \/ ~Malformed(r) /\ ~Refused(r) /\ stage' = "select" /\ UNCHANGED code
  /\ seen' = repo /\ stable' = repo
  /\ newest' = NewestWanted(r, repo)
  /\ UNCHANGED <<world, frozen, shown>>

-----------------------------------------------------------------------------
(* The choice: visibleSnapshots, and resolveVisibleSnapshot if an id is given. *)

\* The hosts restic is asked for: an only allowed one, if the client names none.
AskedHosts ==
  IF request.host # None THEN {request.host}
  ELSE IF Cardinality(policy.hosts) = 1 THEN policy.hosts ELSE {}

(* `restic snapshots` reports what is of one of the hosts and has one of the  *)
(* tags; given a whole id, it reports that one, which Found asks for anyway.  *)
Reported ==
  {s \in repo : /\ AskedHosts = {} \/ about[s].host \in AskedHosts
                /\ request.tags = {} \/ request.tags \cap about[s].tags # {}}

Found ==
  {s \in Reported :
     /\ SnapshotVisible(policy, about[s])
     /\ Contains(request.after, request.before, s)
     /\ MatchesFilters(about[s], request.host, request.tags, Scope(request))
     /\ request.id \in {None, Latest} \/ s \in request.id}

Undecided(found) == request.id \notin {None, Latest} /\ Cardinality(found) > 1

(* Slip: the end of the list, which is sorted newest first. *)
ChosenLast(found) ==
  IF request.id = None THEN found ELSE {s \in found : \A t \in found : s <= t}

Chosen(found) == IF request.id = None THEN found ELSE LastOf(found)

TooMany(S) == Cardinality(S) > MaxSnapshots

Fails(at) ==
  /\ stage = at
  /\ Answer("failed")
  /\ UNCHANGED <<world, request, frozen, shown, observers>>

NoneFound ==
  /\ stage = "select" /\ Found = {} /\ request.id # None
  /\ Answer("snapshot_not_found")
  /\ UNCHANGED <<world, request, frozen, shown, observers>>

Ambiguous ==
  /\ stage = "select" /\ Undecided(Found)
  /\ Answer("ambiguous_snapshot")
  /\ UNCHANGED <<world, request, frozen, shown, observers>>

Choice(tool) ==
  /\ stage = "select" /\ request.tool = tool
  /\ (request.id # None => Found # {}) /\ ~Undecided(Found)
  /\ UNCHANGED <<policy, about, repo, gone, request, observers>>

(* Another traversal may have looked at the same ids a moment ago. *)
MayBeKept == kept' \in BOOLEAN

Published == [s \in Snapshots |-> PublicSnapshot(policy, about[s])]

(* The paths that are named stand for all that is under them. *)
Told(s) == {x \in Paths : \E p \in Published[s].roots : Under(x, p)}

GetAnswers ==
  /\ Choice("get") /\ UNCHANGED kept
  /\ frozen' = Chosen(Found)
  /\ shown' = UNION {{s} \X Told(s) : s \in frozen'}
  /\ Answer("ok")

(* The total is of all that is shown here, and so is the freshness summary, *)
(* Judgement(Groups(Published, frozen, mode), cadence, now).                *)
ListAnswers ==
  /\ Choice("list") /\ UNCHANGED kept
  /\ frozen' = Chosen(Found)
  /\ shown' = UNION {{s} \X Told(s) : s \in frozen'}
  /\ Answer("ok")

BrowseChooses ==
  /\ Choice("browse") /\ MayBeKept
  /\ frozen' = Chosen(Found)
  /\ stage' = "recheck"
  /\ UNCHANGED <<code, shown>>

FindChooses ==
  /\ Choice("find") /\ MayBeKept
  /\ LET chosen == Chosen(Found) IN
       \/ Found = {} /\ Answer("ok") /\ UNCHANGED frozen
       \/ TooMany(chosen) /\ Answer("invalid_argument") /\ UNCHANGED frozen
       \/ /\ Found # {} /\ ~TooMany(chosen)
          /\ frozen' = chosen /\ stage' = "read" /\ UNCHANGED code
  /\ UNCHANGED shown

StatsChooses ==
  /\ Choice("stats") /\ UNCHANGED kept
  /\ LET chosen == Chosen(Found)
         eligible == {s \in chosen : StatsSnapshotAllowed(policy, about[s])} IN
       \/ Found = {} /\ Answer("snapshot_not_found") /\ UNCHANGED frozen
       \/ Found # {} /\ eligible = {} /\ Answer("not_allowed") /\ UNCHANGED frozen
       \/ TooMany(eligible) /\ Answer("invalid_argument") /\ UNCHANGED frozen
       \/ /\ eligible # {} /\ ~TooMany(eligible)
          /\ frozen' = eligible /\ stage' = "read" /\ UNCHANGED code
  /\ UNCHANGED shown

-----------------------------------------------------------------------------
(* The second look, at the frozen ids: snapshotsByIDs. *)

StillThere == \A s \in frozen : s \in repo /\ SnapshotVisible(policy, about[s])

(* The ids are looked at in the repository, and what is found may be cached. *)
Recheck ==
  /\ stage = "recheck"
  /\ \/ StillThere /\ stage' = "read" /\ UNCHANGED code /\ MayBeKept /\ seen' = repo
     \/ ~StillThere /\ Answer("stale_selection") /\ UNCHANGED <<kept, seen>>
  /\ UNCHANGED <<policy, about, repo, gone, request, frozen, shown, stable, newest>>

(* The look is answered from the cache. *)
RecheckKept ==
  /\ stage = "recheck" /\ kept
  /\ stage' = "read"
  /\ UNCHANGED <<world, request, code, frozen, shown, observers>>

(* Between two pages another traversal looks at the same ids. *)
KeptByAnother ==
  /\ stage = "holding" /\ StillThere
  /\ kept' = TRUE /\ seen' = repo
  /\ UNCHANGED <<policy, about, repo, gone, request, stage, code, frozen, shown, stable, newest>>

CacheExpires ==
  /\ kept /\ kept' = FALSE
  /\ UNCHANGED <<policy, about, repo, gone, request, stage, code, frozen, shown, observers>>

-----------------------------------------------------------------------------
(* Reading the snapshots.  `restic ls` of a removed snapshot fails; `find`    *)
(* and `stats` pass over it.  The tree of a snapshot holds its roots, all     *)
(* under them and the directories above.                                      *)

InTree(s, x) == \E r \in about[s].roots : Under(x, r) \/ Under(r, x)

Displayed(s) ==
  {x \in Paths : InTree(s, x) /\ IsAllowed(policy, x) /\ InScope(request, x)}

Page(entries, more) ==
  /\ shown' = shown \cup entries
  /\ code' = "ok" /\ stage' = IF more THEN "holding" ELSE "answered"
  /\ UNCHANGED <<world, request, frozen, observers>>

BrowsePage ==
  /\ stage = "read" /\ request.tool = "browse" /\ frozen \subseteq repo
  /\ LET left == (UNION {{s} \X Displayed(s) : s \in frozen}) \ shown IN
       \E page \in SUBSET left : /\ left # {} => page # {}
                                 /\ Page(page, page # left)

(* A find group has the id of its snapshot; the page begins after the groups *)
(* shown before, counted in the order of the output.                         *)
FindPage(limit) ==
  /\ stage = "read" /\ request.tool = "find"
  /\ LET groups == {s \in frozen \cap repo : Displayed(s) # {}}
         position(s) == Cardinality({t \in groups : t < s})
         offset == Cardinality({s \in frozen : \E x \in Paths : <<s, x>> \in shown})
         page == {s \in groups : position(s) \in offset..(offset + limit - 1)} IN
       Page(UNION {{s} \X Displayed(s) : s \in page}, Cardinality(groups) > offset + limit)

StatsAnswers ==
  /\ stage = "read" /\ request.tool = "stats"
  /\ Answer("ok")
  /\ UNCHANGED <<world, request, frozen, shown, observers>>

(* Slip: a cursor is proof enough that its snapshots may be read. *)
ContinueUnchecked ==
  /\ stage = "holding"
  /\ stage' = "read"
  /\ seen' = IF kept THEN seen ELSE repo
  /\ UNCHANGED <<world, request, code, frozen, shown, stable, newest>>

(* The client sends the cursor. *)
Continue ==
  /\ stage = "holding"
  /\ stage' = "recheck"
  /\ seen' = IF kept THEN seen ELSE repo
  /\ UNCHANGED <<world, request, code, frozen, shown, stable, newest>>

-----------------------------------------------------------------------------
(* Backups and `restic forget` go on meanwhile. *)

Observe ==
  /\ seen' = seen \cup repo' /\ stable' = stable \cap repo'
  /\ newest' = newest \cup NewestWanted(request, repo')

Pending == stage \in {"select", "recheck", "read", "holding"}

AddSnapshot(s) ==
  /\ Pending /\ s \notin repo \cup gone
  /\ repo' = repo \cup {s}
  /\ Observe
  /\ UNCHANGED <<policy, about, gone, kept, request, stage, code, frozen, shown>>

RemoveSnapshot(s) ==
  /\ Pending /\ s \in repo
  /\ repo' = repo \ {s} /\ gone' = gone \cup {s}
  /\ Observe
  /\ UNCHANGED <<policy, about, kept, request, stage, code, frozen, shown>>

Next ==
  \/ \E r \in Requests : Ask(r)
  \/ \E at \in {"select", "recheck", "read"} : Fails(at)
  \/ NoneFound \/ Ambiguous
  \/ ListAnswers \/ GetAnswers \/ BrowseChooses \/ FindChooses \/ StatsChooses
  \/ Recheck \/ RecheckKept \/ KeptByAnother \/ CacheExpires
  \/ BrowsePage \/ StatsAnswers \/ \E limit \in 1..MaxSnapshots : FindPage(limit)
  \/ Continue
  \/ \E s \in Snapshots : AddSnapshot(s) \/ RemoveSnapshot(s)

Spec == Init /\ [][Next]_vars

-----------------------------------------------------------------------------
Answered(tools) == stage = "answered" /\ code = "ok" /\ request.tool \in tools

(* Nothing outside the policy or the requested scope is in any answer, and   *)
(* nothing of a snapshot the policy hides: get_snapshot and list_snapshots   *)
(* name the part of a broader root that is allowed, never the root.          *)
ShownWithinPolicy ==
  \A e \in shown : Visible(e[1]) /\ IsAllowed(policy, e[2])
                   /\ (request.tool \notin {"list", "get"} => InScope(request, e[2]))

(* A snapshot that is selected has something to show in the scope asked for, *)
(* whichever of the scope, its roots and the allowed paths are the broader.  *)
SelectedHasVisiblePath ==
  \A s \in frozen : policy.paths # {} \/ Scope(request) # None =>
    \E x \in Paths : In(s, x) /\ IsAllowed(policy, x) /\ InScope(request, x)

(* An answer that claims to be complete leaves out nothing that was in the   *)
(* repository throughout: no snapshot wanted, and of the snapshots selected  *)
(* no node or path, provided that none of them was removed on the way.       *)
NothingStableOverlooked ==
  /\ Answered({"list", "find"}) /\ request.id = None => stable \cap Wanted(request) \subseteq frozen
  /\ Answered({"browse", "find"}) /\ frozen \subseteq stable =>
       \A s \in frozen, x \in Paths :
         In(s, x) /\ IsAllowed(policy, x) /\ InScope(request, x) => <<s, x>> \in shown
  /\ Answered({"list", "get"}) =>
       \A s \in frozen, x \in Paths : In(s, x) /\ IsAllowed(policy, x) => <<s, x>> \in shown

(* "snapshot_not_found" is never said of what was there, visible and wanted  *)
(* all the time.                                                             *)
NotFoundIsTrue ==
  stage = "answered" /\ code = "snapshot_not_found" => stable \cap Wanted(request) = {}

(* repository_stats, whose figures are about whole snapshots, counts only    *)
(* snapshots of which the policy shows everything.                           *)
StatsWithinPolicy ==
  stage # "idle" /\ request.tool = "stats" =>
    \A s \in frozen : Visible(s) /\ \A x \in Paths : In(s, x) => IsAllowed(policy, x)

(* "latest" is the newest snapshot wanted at some moment since the request.  *)
LatestWasNewest == stage # "idle" /\ request.id = Latest => frozen \subseteq newest

(* The freshness summary is true of the repository: "within_cadence" if of   *)
(* every group that stayed there is a snapshot no older than the cadence,    *)
(* "overdue" only if all that stayed of some group are older.  Snapshots are *)
(* of one group if the client cannot tell them apart by their hosts and, in  *)
(* host_tag mode, by those of their tags that it may see.                    *)
FreshnessIsTrue ==
  Answered({"list"}) =>
    \A now \in Moments, cadence \in Cadences, mode \in GroupModes :
      LET seenTags(s) == {t \in about[s].tags : policy.tags # {} => t \in policy.tags}
          key(s) == IF mode = "host" THEN Named(about[s].host)
                    ELSE Spelled(about[s].host, seenTags(s))
          status == Judgement(Groups(Published, frozen, mode), cadence, now)
          stayed == stable \cap Wanted(request)
          there == seen \cap Wanted(request)
      IN /\ status = "no_visible_snapshots" => stayed = {}
         /\ status = "within_cadence" =>
              \A s \in stayed : \E t \in there : key(t) = key(s) /\ now - t <= cadence
         /\ status = "overdue" =>
              \E s \in there : \A t \in stayed \cup {s} : key(t) = key(s) => now - t > cadence

(* A page is cut from snapshots each of which was still in the repository    *)
(* when the page was asked for, or at the look that the metadata cache still *)
(* holds: a snapshot that was removed before makes the selection stale.      *)
PagesFromLiveSelection ==
  stage = "holding" \/ Answered({"browse", "find"}) => frozen \subseteq seen

(* A snapshot_id that stands for several visible snapshots is never taken    *)
(* for one of them.                                                          *)
NoSilentChoice ==
  stage # "idle" /\ frozen # {} /\ request.id \notin {None, Latest} =>
    stable \cap Wanted(request) \subseteq frozen
=============================================================================
