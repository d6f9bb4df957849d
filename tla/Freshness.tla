----------------------------- MODULE Freshness -----------------------------
(***************************************************************************)
(* The freshness summary of list_snapshots (internal/mcpserver/            *)
(* freshness.go): the latest visible snapshot of every group, and whether  *)
(* it is older than the cadence the client expects.                        *)
(*                                                                         *)
(* A snapshot is the number of the moment it was created at; `public` has  *)
(* what is left of its host and tags in the answer.  The handler always    *)
(* passes incomplete as false.                                             *)
(***************************************************************************)
EXTENDS Policy

CONSTANTS
  Named(_),      \* a host name as it is published: sanitized and redacted
  Spelled(_, _)  \* the key made of a host name and tags as they are published, sorted

GroupModes == {"host", "host_tag"}

(* freshnessGroupKey *)
GroupKey(groupBy, snapshot) ==
  IF groupBy = "host" THEN Named(snapshot.host) ELSE Spelled(snapshot.host, snapshot.tags)

Groups(public, listing, groupBy) ==
  {{t \in listing : GroupKey(groupBy, public[t]) = GroupKey(groupBy, public[s])} : s \in listing}

(* Slip: a later snapshot of the listing, which begins with the newest, replaces *)
(* the one that was found first.                                                 *)
NewestReplaced(group) == {s \in group : \A t \in group : s <= t}

Newest(group) == {s \in group : \A t \in group : t <= s}

(* A snapshot from the future has no age. *)
Age(s, now) == IF now < s THEN 0 ELSE now - s

Overdue(group, cadence, now) == \E s \in Newest(group) : Age(s, now) > cadence

(* buildFreshnessAt; cadence is None if the client expects none. *)
Judgement(groups, cadence, now) ==
  CASE groups = {} -> "no_visible_snapshots"
    [] groups # {} /\ cadence = None -> "recency_only"
    [] groups # {} /\ cadence # None /\ (\E g \in groups : Overdue(g, cadence, now)) -> "overdue"
    [] OTHER -> "within_cadence"
=============================================================================
