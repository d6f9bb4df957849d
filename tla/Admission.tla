------------------------------ MODULE Admission ------------------------------
(***************************************************************************)
(* What the registry promises about concurrency, with no semaphore in      *)
(* sight: at most RepoCap commands run on one repository and at most       *)
(* GlobalCap run at all; a request is either run once or turned away, and  *)
(* nothing is ever queued.                                                 *)
(***************************************************************************)
EXTENDS Integers, FiniteSets

CONSTANTS Runs, Repos, RepoCap, GlobalCap

VARIABLES
  on,        \* the runs whose command is executing, by repository
  finished   \* runs that have been answered

vars == <<on, finished>>

Running == UNION {on[p] : p \in Repos}

Init == on = [p \in Repos |-> {}] /\ finished = {}

Enter(r, p) ==
  /\ r \notin Running \cup finished
  /\ Cardinality(on[p]) < RepoCap
  /\ Cardinality(Running) < GlobalCap
  /\ on' = [on EXCEPT ![p] = @ \cup {r}]
  /\ UNCHANGED finished

Leave(r, p) ==
  /\ r \in on[p]
  /\ on' = [on EXCEPT ![p] = @ \ {r}]
  /\ finished' = finished \cup {r}

TurnAway(r) ==
  /\ r \notin Running \cup finished
  /\ finished' = finished \cup {r}
  /\ UNCHANGED on

Next == \E r \in Runs : TurnAway(r) \/ \E p \in Repos : Enter(r, p) \/ Leave(r, p)

Spec == Init /\ [][Next]_vars
=============================================================================
