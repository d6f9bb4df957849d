------------------------------- MODULE Runner -------------------------------
(***************************************************************************)
(* The lifecycle of one restic child on Unix: ExecRunner.Run and RunScan   *)
(* (internal/restic/runner.go, process_unix.go).                           *)
(*                                                                         *)
(* Three goroutines stop the child: os/exec's own watcher (Cancel, then    *)
(* WaitDelay), the runner's watcher (SIGTERM, then SIGKILL to the group)   *)
(* and the caller in Wait.  The child leads a process group whose other    *)
(* members may inherit its output pipes and outlive it.                    *)
(*                                                                         *)
(* Time advances by Tick, only when no goroutine has a step to take: the   *)
(* scheduler's delays are shorter than the second a tick stands for.       *)
(***************************************************************************)
EXTENDS Integers

CONSTANTS
  Leader,      \* the restic process
  Helpers,     \* other members of its group
  Timeout,     \* req.Timeout
  Graceful,    \* gracefulStopWindow
  WaitDelay    \* childWaitDelay

ASSUME LeaderAssumption == Leader \notin Helpers
ASSUME TimeAssumption == Timeout \in Nat /\ Graceful \in Nat /\ WaitDelay \in Nat
\* childWaitDelay = gracefulStopWindow + forcedTerminationWindow.
ASSUME DelayAssumption == Graceful < WaitDelay

VARIABLES
  mode,       \* "run" collects stdout, "scan" hands it to a consumer
  pc,         \* the calling goroutine
  alive,      \* live members of the group
  piped,      \* members that hold the output pipes open
  exit,       \* the leader's exit status
  ctx,        \* the caller's context is done
  runCtx,     \* why runCtx is done
  deadline,   \* ticks left until the timeout
  exceeded,   \* an output cap was reached
  truncated,  \* the pipes were closed on processes that held them
  stop,       \* how the consumer ended
  execw,      \* os/exec's watcher
  delay,      \* ticks left of WaitDelay
  waitErr,    \* what Wait returns
  watcher,    \* the runner's watcher
  grace,      \* ticks left of its timer
  verdict,    \* what the runner returns
  sinceTerm,  \* ticks since the group was first asked to stop
  sinceDone   \* ticks since runCtx was done

world == <<alive, piped, exit, truncated>>
watchers == <<execw, delay, watcher, grace, sinceTerm>>
timers == <<deadline, delay, grace, sinceTerm, sinceDone>>
vars == <<mode, pc, alive, piped, exit, ctx, runCtx, deadline, exceeded, truncated, stop,
          execw, delay, waitErr, watcher, grace, verdict, sinceTerm, sinceDone>>

Group == {Leader} \cup Helpers
Off == -1
Ticks(n) == {Off} \cup 0..n

TypeOK ==
  /\ mode \in {"run", "scan"}
  /\ pc \in {"start", "consume", "wait", "drain", "finished", "returned"}
  /\ alive \subseteq Group /\ piped \subseteq Group
  /\ exit \in {"none", "zero", "error", "interrupted", "killed"}
  /\ ctx \in BOOLEAN
  /\ runCtx \in {"live", "deadline", "cancelled"}
  /\ deadline \in 0..Timeout
  /\ exceeded \in BOOLEAN /\ truncated \in BOOLEAN
  /\ stop \in {"no", "enough", "bad", "eof"}
  /\ execw \in {"watch", "delay", "gone"}
  /\ delay \in Ticks(WaitDelay)
  /\ waitErr \in {"none", "start", "exit", "context", "waitDelay"}
  /\ watcher \in {"watch", "grace", "done"}
  /\ grace \in Ticks(Graceful)
  /\ verdict \in {"none", "limit", "timeout", "cancelled", "consumer", "ok",
                  "failed", "interrupted"}
  /\ sinceTerm \in Ticks(WaitDelay)
  /\ sinceDone \in Ticks(WaitDelay + 1)
  /\ Leader \in alive => exit = "none"

Init ==
  /\ mode \in {"run", "scan"}
  /\ pc = "start"
  /\ alive = {} /\ piped = {}
  /\ exit = "none"
  /\ ctx = FALSE
  /\ runCtx = "live"
  /\ deadline = Timeout
  /\ exceeded = FALSE /\ truncated = FALSE
  /\ stop = "no"
  /\ execw = "gone" /\ delay = Off
  /\ waitErr = "none"
  /\ watcher = "done" /\ grace = Off
  /\ verdict = "none"
  /\ sinceTerm = Off /\ sinceDone = Off

-----------------------------------------------------------------------------
\* Contexts and processes.

Cancelled(cause) == runCtx' = IF runCtx = "live" THEN cause ELSE runCtx
PipesOpen == alive \cap piped # {} /\ ~truncated
Reading == pc \in {"consume", "wait", "drain"} /\ ~truncated

CallerCancels ==
  /\ ~ctx /\ pc # "returned"
  /\ ctx' = TRUE
  /\ Cancelled("cancelled")
  /\ UNCHANGED <<mode, pc, world, exceeded, stop, watchers, waitErr, verdict, deadline, sinceDone>>

DeadlinePasses ==
  /\ deadline = 0 /\ runCtx = "live" /\ pc # "returned"
  /\ runCtx' = "deadline"
  /\ UNCHANGED <<mode, pc, world, ctx, exceeded, stop, watchers, waitErr, verdict, deadline,
                 sinceDone>>

\* cappedBuffer.Write: the first write beyond the cap cancels runCtx.  What was
\* written is still read after its writer has gone.
OutputExceeds ==
  /\ ~exceeded /\ Reading
  /\ exceeded' = TRUE
  /\ Cancelled("cancelled")
  /\ UNCHANGED <<mode, pc, world, ctx, stop, watchers, waitErr, verdict, deadline, sinceDone>>

\* A process ends by itself, at any time, with or without having been asked to.
ProcessExits(p) ==
  /\ p \in alive
  /\ alive' = alive \ {p}
  /\ IF p = Leader THEN exit' \in {"zero", "error", "interrupted"} ELSE exit' = exit
  /\ UNCHANGED <<mode, pc, piped, ctx, runCtx, exceeded, truncated, stop, watchers,
                 waitErr, verdict, deadline, sinceDone>>

\* Slip: the second signal is SIGTERM again.
KilledSoftly(procs) == UNCHANGED <<alive, exit>>

\* SIGKILL to some processes.
Killed(procs) ==
  /\ alive' = alive \ procs
  /\ exit' = IF Leader \in alive \cap procs THEN "killed" ELSE exit

\* SIGTERM to the group: nobody is obliged to obey it.
AskToStop == sinceTerm' = IF sinceTerm = Off THEN 0 ELSE sinceTerm

-----------------------------------------------------------------------------
\* os/exec's watcher (exec.Cmd with a context, Cancel and WaitDelay).

ExecCancels ==
  /\ execw = "watch" /\ runCtx # "live" /\ pc \in {"consume", "wait"}
  /\ AskToStop
  /\ execw' = "delay" /\ delay' = WaitDelay
  /\ UNCHANGED <<mode, pc, world, ctx, runCtx, exceeded, stop, watcher, grace, waitErr, verdict,
                 deadline, sinceDone>>

\* When WaitDelay is over, os/exec would kill the leader alone.  It never comes to
\* that (GroupKillComesFirst), so there is no action for it.

-----------------------------------------------------------------------------
\* The runner's watcher.

\* Slip: no window between the two signals.
WatcherHurries ==
  /\ watcher = "watch" /\ runCtx # "live"
  /\ AskToStop
  /\ watcher' = "grace" /\ grace' = 0
  /\ UNCHANGED <<mode, pc, world, ctx, runCtx, exceeded, stop, execw, delay, waitErr, verdict,
                 deadline, sinceDone>>

WatcherAsks ==
  /\ watcher = "watch" /\ runCtx # "live"
  /\ AskToStop
  /\ watcher' = "grace" /\ grace' = Graceful
  /\ UNCHANGED <<mode, pc, world, ctx, runCtx, exceeded, stop, execw, delay, waitErr, verdict,
                 deadline, sinceDone>>

WatcherKills(procs) ==
  /\ watcher = "grace" /\ grace = 0
  /\ Killed(procs)
  /\ watcher' = "done" /\ grace' = Off
  /\ UNCHANGED <<mode, pc, piped, ctx, runCtx, exceeded, truncated, stop, execw, delay, waitErr,
                 verdict, deadline, sinceTerm, sinceDone>>

\* Slip: the child is killed, not its group.
WatcherForcesChild == WatcherKills({Leader})

WatcherForces == WatcherKills(alive)

\* close(finished): either select may still take the other case if it is ready.
WatcherLeaves ==
  /\ pc = "finished" /\ watcher # "done"
  /\ watcher' = "done" /\ grace' = Off
  /\ UNCHANGED <<mode, pc, world, ctx, runCtx, exceeded, stop, execw, delay, waitErr, verdict,
                 deadline, sinceTerm, sinceDone>>

-----------------------------------------------------------------------------
\* The calling goroutine.

\* cmd.Start, then both watchers.  The leader may have helpers at once, some of
\* which hold its pipes.
Starts ==
  /\ pc = "start" /\ runCtx = "live"
  /\ \E helpers \in SUBSET Helpers, held \in SUBSET Helpers :
       /\ alive' = {Leader} \cup helpers
       /\ piped' = {Leader} \cup (held \cap helpers)
  /\ pc' = IF mode = "scan" THEN "consume" ELSE "wait"
  /\ execw' = "watch" /\ watcher' = "watch"
  /\ UNCHANGED <<mode, exit, ctx, runCtx, exceeded, truncated, stop, delay, waitErr, grace,
                 verdict, deadline, sinceTerm, sinceDone>>

\* Start refuses a done context, and may fail besides.
StartFails ==
  /\ pc = "start"
  /\ waitErr' = "start"
  /\ pc' = "finished"
  /\ UNCHANGED <<mode, world, ctx, runCtx, exceeded, stop, watchers, verdict, deadline,
                 sinceDone>>

\* The consumer has enough, finds the stream malformed, or reaches its end.  An
\* early end cancels runCtx.
ConsumerEnds(how) ==
  /\ pc = "consume"
  /\ how = "eof" => ~PipesOpen
  /\ stop' = how
  /\ IF how = "eof" THEN runCtx' = runCtx ELSE Cancelled("cancelled")
  /\ pc' = "wait"
  /\ UNCHANGED <<mode, world, ctx, exceeded, watchers, waitErr, verdict, deadline, sinceDone>>

\* Wait reaps the leader and takes os/exec's watcher's result and timer; a done
\* context is an error of Wait unless the exit status already is one.
WaitReaps ==
  /\ pc = "wait" /\ Leader \notin alive
  /\ waitErr' = IF exit # "zero" THEN "exit"
                ELSE IF execw = "delay" THEN "context" ELSE "none"
  /\ pc' = "drain"
  /\ delay' = IF execw = "watch" THEN WaitDelay ELSE delay
  /\ execw' = "gone"
  /\ UNCHANGED <<mode, world, ctx, runCtx, exceeded, stop, watcher, grace, verdict, deadline,
                 sinceTerm, sinceDone>>

\* awaitGoroutines: the copying ends when nobody holds the pipes.
WaitDrains ==
  /\ pc = "drain" /\ ~PipesOpen
  /\ pc' = "finished" /\ delay' = Off
  /\ UNCHANGED <<mode, world, ctx, runCtx, exceeded, stop, execw, watcher, grace, waitErr,
                 verdict, deadline, sinceTerm, sinceDone>>

PipesGivenUp(err) ==
  /\ pc = "drain" /\ PipesOpen /\ delay = 0
  /\ truncated' = TRUE
  /\ waitErr' = err
  /\ pc' = "finished" /\ delay' = Off
  /\ UNCHANGED <<mode, alive, piped, exit, ctx, runCtx, exceeded, stop, execw, watcher, grace,
                 verdict, deadline, sinceTerm, sinceDone>>

\* Slip: giving the pipes up is no error.
WaitGivesUpQuietly == PipesGivenUp(waitErr)

\* ... or when the delay is over: ErrWaitDelay, unless Wait already has an error.
WaitGivesUp == PipesGivenUp(IF waitErr = "none" THEN "waitDelay" ELSE waitErr)

\* The order in which the causes are looked at once the watchers are gone.
ExitVerdict ==
  IF waitErr \in {"start", "context", "waitDelay"} THEN "failed"
  ELSE IF waitErr = "none" THEN "ok"
  ELSE IF exit = "interrupted" THEN "interrupted" ELSE "failed"

Early == mode = "scan" /\ stop = "enough"

Classification ==
  IF mode = "scan" /\ waitErr = "start" THEN "failed"
  ELSE IF exceeded THEN "limit"
  ELSE IF ~Early /\ runCtx = "deadline" THEN "timeout"
  ELSE IF ~Early /\ ctx THEN "cancelled"
  ELSE IF stop = "bad" THEN "consumer"
  ELSE IF Early THEN "ok"
  ELSE ExitVerdict

Returns ==
  /\ pc = "finished" /\ watcher = "done"
  /\ IF waitErr = "waitDelay" THEN Killed(alive) ELSE UNCHANGED <<alive, exit>>
  /\ verdict' = Classification
  /\ pc' = "returned"
  /\ UNCHANGED <<mode, piped, ctx, runCtx, exceeded, truncated, stop, watchers, waitErr,
                 deadline, sinceDone>>

-----------------------------------------------------------------------------
GoStep ==
  \/ DeadlinePasses \/ ExecCancels
  \/ WatcherAsks \/ WatcherForces \/ WatcherLeaves
  \/ Starts \/ StartFails \/ WaitReaps \/ WaitDrains \/ WaitGivesUp \/ Returns
  \/ \E how \in {"eof", "bad"} : ConsumerEnds(how) /\ ~PipesOpen

\* Some goroutine has something to do (the guards of GoStep).
Urgent ==
  \/ runCtx = "live" /\ deadline = 0
  \/ execw = "watch" /\ runCtx # "live" /\ pc \in {"consume", "wait"}
  \/ watcher = "watch" /\ runCtx # "live"
  \/ watcher = "grace" /\ grace = 0
  \/ pc \in {"start", "finished"}
  \/ pc = "wait" /\ Leader \notin alive
  \/ pc = "drain" /\ (~PipesOpen \/ delay = 0)
  \/ pc = "consume" /\ ~PipesOpen

Down(t) == IF t > 0 THEN t - 1 ELSE t
Up(t, n) == IF t = Off \/ t = n THEN t ELSE t + 1

Tick ==
  /\ pc # "returned" /\ ~Urgent
  /\ deadline' = Down(deadline)
  /\ delay' = Down(delay)
  /\ grace' = Down(grace)
  /\ sinceTerm' = Up(sinceTerm, WaitDelay)
  /\ sinceDone' = IF runCtx = "live" THEN Off
                  ELSE IF sinceDone = Off THEN 1 ELSE Up(sinceDone, WaitDelay + 1)
  /\ UNCHANGED <<mode, pc, world, ctx, runCtx, exceeded, stop, execw, waitErr, watcher, verdict>>

Next ==
  \/ CallerCancels \/ OutputExceeds
  \/ \E p \in Group : ProcessExits(p)
  \/ \E how \in {"eof", "bad", "enough"} : ConsumerEnds(how)
  \/ DeadlinePasses \/ ExecCancels
  \/ WatcherAsks \/ WatcherForces \/ WatcherLeaves
  \/ Starts \/ StartFails \/ WaitReaps \/ WaitDrains \/ WaitGivesUp \/ Returns
  \/ Tick

Spec == Init /\ [][Next]_vars

\* Goroutines are scheduled and time passes; no process need ever exit.
FairSpec == Spec /\ WF_vars(GoStep) /\ WF_vars(Tick)

-----------------------------------------------------------------------------
\* Properties.

Survivors == alive \cap piped

\* restic is never killed before it has had the graceful window in which it
\* removes its lock, whichever goroutine asks it first and whatever happens to the
\* context meanwhile.
LeaderGetsItsGrace == [][exit' = "killed" /\ exit # "killed" => sinceTerm >= Graceful]_vars

\* os/exec's own kill, of the leader alone, is never due: by then the watcher's
\* SIGKILL to the whole group has let Wait reap the leader.
GroupKillComesFirst == execw = "delay" => delay > 0

\* Once runCtx is done, the runner returns within WaitDelay: neither a stubborn
\* child nor a descendant on its pipes holds a command slot any longer.
ReturnsInTime == pc # "returned" => sinceDone <= WaitDelay

\* A complete answer is complete: unless the consumer had enough, "ok" means that
\* the child ended well by itself and every byte it wrote was read, although
\* pipes may be closed on their writers and caps reached at the last moment.
OkIsComplete ==
  verdict = "ok" /\ ~Early => exit = "zero" /\ ~truncated /\ ~exceeded

\* A descendant on the output pipes outlives the run only of a child that failed
\* by itself: a successful child leaves none behind, nor does a group that was
\* asked to stop longer than the graceful window ago, since SIGKILL comes before
\* the pipes are given up.
SurvivorsMeanFailure ==
  pc = "returned" /\ Survivors # {} =>
    waitErr = "exit" /\ verdict # "ok" /\ sinceTerm <= Graceful

\* The runner returns, though its child never exits and its caller never cancels.
RunReturns == pc = "start" ~> pc = "returned"

-----------------------------------------------------------------------------
\* What the documentation says and the code does not keep.

\* docs/restic-compatibility.md: the runner also terminates the remaining group
\* members when inherited output pipes exceed the wait limit.  ErrWaitDelay is
\* hidden when the leader's exit status already is an error.
WaitLimitEndsGroup == pc = "returned" /\ truncated => Survivors = {}

\* SECURITY.md: cancellation sends SIGTERM, allows a two-second window, then sends
\* SIGKILL to the whole group.  The watcher leaves as soon as the leader is gone
\* and the pipes are closed.
CancellationEndsGroup == pc = "returned" /\ sinceTerm # Off => alive = {}
=============================================================================
