------------------------------- MODULE Policy -------------------------------
(***************************************************************************)
(* What a repository's policy lets a client see (internal/policy/paths.go) *)
(* and which snapshots a request's filters ask for                         *)
(* (internal/mcpserver/selection.go, window.go).                           *)
(*                                                                         *)
(* A cleaned path is the sequence of its components, "/" being the empty   *)
(* one; a snapshot is what ParseSnapshots leaves of it, so that its roots  *)
(* are clean.  A policy has a set of hosts, tags and paths it allows, an   *)
(* empty one allowing all.                                                 *)
(***************************************************************************)
EXTENDS Integers, Sequences, FiniteSets

CONSTANT None   \* what an argument that was not given is

(* pathUnder: child is parent or one of its descendants. *)
Under(child, parent) ==
  /\ Len(parent) <= Len(child)
  /\ \A i \in 1..Len(parent) : child[i] = parent[i]

IsAllowed(policy, path) ==
  policy.paths = {} \/ \E allowed \in policy.paths : Under(path, allowed)

(* Slip: a root broader than an allowed path is dropped. *)
FilterPathsNarrow(policy, roots) == {r \in roots : IsAllowed(policy, r)}

(* Slip: such a root is let through whole. *)
FilterPathsWhole(policy, roots) ==
  IF policy.paths = {} THEN roots
  ELSE {r \in roots : \E a \in policy.paths : Under(r, a) \/ Under(a, r)}

(* A root inside an allowed path is visible as it is; of a root that is *)
(* broader, only the allowed paths in it are.                           *)
FilterPaths(policy, roots) ==
  IF policy.paths = {} THEN roots
  ELSE {r \in roots : \E a \in policy.paths : Under(r, a)}
       \cup {a \in policy.paths : \E r \in roots : Under(a, r)}

(* Slip: what other tags there are is told. *)
FilterTagsNot(policy, tags) == tags

(* Tags the policy does not allow are not named. *)
FilterTags(policy, tags) == IF policy.tags = {} THEN tags ELSE tags \cap policy.tags

(* publicSnapshot: what is left of a snapshot in an answer. *)
PublicSnapshot(policy, s) ==
  [host |-> s.host, tags |-> FilterTags(policy, s.tags), roots |-> FilterPaths(policy, s.roots)]

SnapshotVisible(policy, s) ==
  /\ policy.hosts = {} \/ s.host \in policy.hosts
  /\ policy.tags = {} \/ s.tags \cap policy.tags # {}
  /\ policy.paths = {} \/ FilterPaths(policy, s.roots) # {}

(* Slip: one root inside the allowed paths is enough. *)
StatsAllowedLoose(policy, s) == policy.paths = {} \/ \E r \in s.roots : IsAllowed(policy, r)

(* statsSnapshotAllowed: figures about the whole snapshot give nothing else away. *)
StatsSnapshotAllowed(policy, s) ==
  policy.paths = {} \/ (s.roots # {} /\ \A r \in s.roots : IsAllowed(policy, r))

(* timeWindow.contains: [after, before). *)
Contains(after, before, instant) ==
  /\ after = None \/ ~(instant < after)
  /\ before = None \/ instant < before

(* Slip: only the snapshots inside the scope. *)
PathsOverlapOneWay(a, b) == Under(b, a)

PathsOverlap(a, b) == Under(a, b) \/ Under(b, a)

(* matchesSnapshotFilters *)
MatchesFilters(s, host, tags, path) ==
  /\ host = None \/ s.host = host
  /\ tags \subseteq s.tags
  /\ path = None \/ \E r \in s.roots : PathsOverlap(path, r)

(* The checks on what a request names: PathPolicy.Check, HostPolicy.Check and *)
(* TagPolicy.CheckEach, each only of what was given.                          *)
PathGranted(policy, path) == path # None => IsAllowed(policy, path)
HostGranted(policy, host) == host = None \/ policy.hosts = {} \/ host \in policy.hosts
TagsGranted(policy, tags) == policy.tags = {} \/ tags \subseteq policy.tags

(* validateLatestScope: "latest" of what? *)
LatestScoped(policy, host, tags, path) ==
  host # None \/ tags # {} \/ path # None \/ Cardinality(policy.hosts) = 1
=============================================================================
