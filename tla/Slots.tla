-------------------------------- MODULE Slots --------------------------------
(***************************************************************************)
(* Command admission (Registry.run, internal/repositories/registry.go).    *)
(*                                                                         *)
(* A run takes a slot of its repository, then a global slot, both buffered *)
(* channels used as semaphores, executes its command and gives the slots   *)
(* back by deferred receives, the global one first.  A full semaphore      *)
(* turns the run away at once; a done context may do so at either select.  *)
(***************************************************************************)
EXTENDS Integers, FiniteSets

CONSTANTS
  Runs,       \* calls of Registry.run
  Repos,      \* configured repositories
  NoRepo,     \* none yet
  RepoCap,    \* max_concurrent_per_repo, cap(e.sem)
  GlobalCap   \* max_concurrent_global, cap(r.global)

ASSUME RunsAssumption == IsFiniteSet(Runs) /\ NoRepo \notin Repos
\* validateLimits: at least one slot of each kind.
ASSUME CapAssumption == RepoCap \in Nat \ {0} /\ GlobalCap \in Nat \ {0}

VARIABLES
  target,      \* the repository each run is for
  pc,          \* where each run is inside run()
  ctx,         \* its context is done
  verdict,     \* what it returns
  repoSem,     \* len(e.sem)
  globalSem    \* len(r.global)

vars == <<target, pc, ctx, verdict, repoSem, globalSem>>

Verdicts == {"none", "ok", "failed", "busy", "cancelled", "interrupted"}

TypeOK ==
  /\ target \in [Runs -> Repos \cup {NoRepo}]
  /\ pc \in [Runs -> {"idle", "entry", "repo", "global", "run",
                      "dropGlobal", "dropRepo", "returned"}]
  /\ ctx \in [Runs -> BOOLEAN]
  /\ verdict \in [Runs -> Verdicts]
  /\ repoSem \in [Repos -> 0..RepoCap]
  /\ globalSem \in 0..GlobalCap
  /\ \A r \in Runs : pc[r] = "idle" <=> target[r] = NoRepo

\* The states between the deferred sends and receives.
HoldsRepo(r) == pc[r] \in {"global", "run", "dropGlobal", "dropRepo"}
HoldsGlobal(r) == pc[r] \in {"run", "dropGlobal"}

Init ==
  /\ target = [r \in Runs |-> NoRepo]
  /\ pc = [r \in Runs |-> "idle"]
  /\ ctx = [r \in Runs |-> FALSE]
  /\ verdict = [r \in Runs |-> "none"]
  /\ repoSem = [p \in Repos |-> 0]
  /\ globalSem = 0

Goto(r, there) == pc' = [pc EXCEPT ![r] = there]
Answer(r, v) == verdict' = [verdict EXCEPT ![r] = v]

-----------------------------------------------------------------------------
Call(r, p) ==
  /\ pc[r] = "idle"
  /\ target' = [target EXCEPT ![r] = p]
  /\ Goto(r, "entry")
  /\ UNCHANGED <<ctx, verdict, repoSem, globalSem>>

\* The context may end at any time, even before the call.
CancelCtx(r) ==
  /\ ~ctx[r]
  /\ ctx' = [ctx EXCEPT ![r] = TRUE]
  /\ UNCHANGED <<target, pc, verdict, repoSem, globalSem>>

\* ctx.Err(), looked at once before the slots.
CheckCtx(r) ==
  /\ pc[r] = "entry"
  /\ IF ctx[r] THEN Goto(r, "returned") /\ Answer(r, "cancelled")
     ELSE Goto(r, "repo") /\ UNCHANGED verdict
  /\ UNCHANGED <<target, ctx, repoSem, globalSem>>

TakeRepoSlot(r) ==
  /\ pc[r] = "repo"
  /\ repoSem[target[r]] < RepoCap
  /\ repoSem' = [repoSem EXCEPT ![target[r]] = @ + 1]
  /\ Goto(r, "global")
  /\ UNCHANGED <<target, ctx, verdict, globalSem>>

\* Slip: a full semaphore is reported as a cancellation.
RejectionMixedUp(r, full) == (ctx[r] \/ full) /\ Answer(r, "cancelled")

\* The select takes the context's case when it is ready, even if a slot is free
\* too, and its default only when neither is.
Rejection(r, full) ==
  \/ ctx[r] /\ Answer(r, "cancelled")
  \/ ~ctx[r] /\ full /\ Answer(r, "busy")

RejectAtRepo(r) ==
  /\ pc[r] = "repo"
  /\ Rejection(r, repoSem[target[r]] = RepoCap)
  /\ Goto(r, "returned")
  /\ UNCHANGED <<target, ctx, repoSem, globalSem>>

\* Slip: the global slot is taken without looking at how many are out.
TakeGlobalSlotUnbounded(r) ==
  /\ pc[r] = "global"
  /\ globalSem' = globalSem + 1
  /\ Goto(r, "run")
  /\ UNCHANGED <<target, ctx, verdict, repoSem>>

TakeGlobalSlot(r) ==
  /\ pc[r] = "global"
  /\ globalSem < GlobalCap
  /\ globalSem' = globalSem + 1
  /\ Goto(r, "run")
  /\ UNCHANGED <<target, ctx, verdict, repoSem>>

RejectAtGlobalTo(r, there, given) ==
  /\ pc[r] = "global"
  /\ Rejection(r, globalSem = GlobalCap)
  /\ Goto(r, there)
  /\ repoSem' = [repoSem EXCEPT ![target[r]] = @ - given]
  /\ UNCHANGED <<target, ctx, globalSem>>

\* Slips: a return without the deferred receive; a receive of its own besides
\* the deferred one.
RejectAtGlobalLeaks(r) == RejectAtGlobalTo(r, "returned", 0)
RejectAtGlobalTwice(r) == RejectAtGlobalTo(r, "dropRepo", 1)

\* The rejected run still holds its repository slot until the deferred receive.
RejectAtGlobal(r) == RejectAtGlobalTo(r, "dropRepo", 0)

\* The runner returns; it says "cancelled" only of a context that is done, and
\* "interrupted" of a child that ended with exit code 130 by itself.
CommandEnds(r, v) ==
  /\ pc[r] = "run"
  /\ v = "cancelled" => ctx[r]
  /\ Answer(r, v)
  /\ Goto(r, "dropGlobal")
  /\ UNCHANGED <<target, ctx, repoSem, globalSem>>

\* A receive from an empty channel would block.
DropGlobalSlot(r) ==
  /\ pc[r] = "dropGlobal"
  /\ globalSem > 0
  /\ globalSem' = globalSem - 1
  /\ Goto(r, "dropRepo")
  /\ UNCHANGED <<target, ctx, verdict, repoSem>>

DropRepoSlot(r) ==
  /\ pc[r] = "dropRepo"
  /\ repoSem[target[r]] > 0
  /\ repoSem' = [repoSem EXCEPT ![target[r]] = @ - 1]
  /\ Goto(r, "returned")
  /\ UNCHANGED <<target, ctx, verdict, globalSem>>

\* What the runner may report.
CommandVerdicts == {"ok", "failed", "cancelled", "interrupted"}

\* The steps of run() itself, up to its return.
RunStep(r) ==
  \/ CheckCtx(r)
  \/ TakeRepoSlot(r)
  \/ RejectAtRepo(r)
  \/ TakeGlobalSlot(r)
  \/ RejectAtGlobal(r)
  \/ \E v \in CommandVerdicts : CommandEnds(r, v)
  \/ DropGlobalSlot(r)
  \/ DropRepoSlot(r)

Next ==
  \E r \in Runs : (\E p \in Repos : Call(r, p)) \/ CancelCtx(r) \/ RunStep(r)

Spec == Init /\ [][Next]_vars

\* Goroutines are scheduled and the command timeout ends every command.
FairSpec == Spec /\ \A r \in Runs : WF_vars(RunStep(r))

-----------------------------------------------------------------------------
\* Properties.

RepoHolders(p) == {r \in Runs : target[r] = p /\ HoldsRepo(r)}
GlobalHolders == {r \in Runs : HoldsGlobal(r)}

\* No slot leaks and none is given back twice: each semaphore counts exactly
\* the runs between their send and their deferred receive, whichever select
\* turned the others away.
SlotsExact ==
  /\ \A p \in Repos : repoSem[p] = Cardinality(RepoHolders(p))
  /\ globalSem = Cardinality(GlobalHolders)

\* A run told "busy" finds every slot of its repository, or every global slot,
\* held by other runs that have not returned: never by itself, never by a run
\* that is gone.
BusyBecauseOfOthers ==
  [][\A r \in Runs : verdict'[r] # verdict[r] /\ verdict'[r] = "busy" =>
       \/ Cardinality(RepoHolders(target[r]) \ {r}) = RepoCap
       \/ Cardinality(GlobalHolders \ {r}) = GlobalCap]_vars

\* Every call of run() returns: there is no queue to wait in, and giving slots
\* back never blocks.
EveryRunReturns == \A r \in Runs : pc[r] = "entry" ~> pc[r] = "returned"

\* run() implements the admission promise: a command executes exactly while its
\* run is between the second slot and the runner's return.
Executing(p) == {r \in Runs : target[r] = p /\ pc[r] = "run"}
Answered == {r \in Runs : pc[r] \in {"dropGlobal", "dropRepo", "returned"}}
Promise == INSTANCE Admission
             WITH on <- [p \in Repos |-> Executing(p)], finished <- Answered
AdmissionPromise == Promise!Spec
=============================================================================
