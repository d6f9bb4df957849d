---------------------------- MODULE RunnerProofs ----------------------------
(***************************************************************************)
(* Safety of the runner, for any group of processes and any durations of   *)
(* which the wait delay is longer than the graceful window.                *)
(*                                                                         *)
(* The timers are tied together: time passes only when no goroutine has a  *)
(* step to take, so both watchers ask the group to stop in the second in   *)
(* which runCtx is done, and what is left of either timer is counted from  *)
(* there by sinceTerm.                                                     *)
(***************************************************************************)
EXTENDS Runner, TLAPS

Elapsed == IF sinceTerm = Off THEN 0 ELSE sinceTerm
Running == pc \in {"consume", "wait", "drain"}

(* Before the child there is nothing, and after it no leader. *)
Phases ==
  /\ pc = "start" =>
       /\ alive = {} /\ exit = "none" /\ execw = "gone" /\ watcher = "done" /\ delay = Off
       /\ stop = "no" /\ ~exceeded /\ ~truncated /\ waitErr = "none"
       /\ sinceTerm = Off /\ sinceDone = Off
  /\ pc \in {"drain", "finished", "returned"} => Leader \notin alive
  /\ pc \in {"consume", "wait"} <=> execw \in {"watch", "delay"}
  /\ pc \in {"consume", "wait"} => waitErr = "none"
  /\ pc = "drain" => waitErr \in {"none", "exit", "context"}
  /\ Running => ~truncated
  /\ pc = "returned" => watcher = "done"
  /\ pc # "returned" => verdict = "none"
  /\ stop # "no" => pc # "consume"
  /\ stop \in {"enough", "bad"} => runCtx # "live"

(* What the timers show, counted from the moment of asking. *)
Timed ==
  /\ runCtx = "live" => sinceTerm = Off /\ sinceDone = Off
  /\ sinceDone = Off \/ sinceDone = sinceTerm
  /\ sinceDone = Off => sinceTerm \in {Off, 0}
  /\ watcher = "watch" => grace = Off /\ sinceTerm \in {Off, 0}
  /\ watcher = "grace" => sinceTerm \in 0..Graceful /\ grace = Graceful - sinceTerm
  /\ watcher = "done" => grace = Off
  /\ watcher = "done" /\ Running => alive = {} /\ sinceTerm # Off
  /\ execw = "watch" => delay = Off /\ sinceTerm <= Graceful /\ sinceDone = Off
  /\ execw = "delay" => sinceTerm \in 0..Graceful /\ delay = WaitDelay - sinceTerm
  /\ pc = "drain" =>
       /\ delay \in 0..WaitDelay /\ Elapsed + delay <= WaitDelay
       /\ stop \in {"enough", "bad"} \/ waitErr = "context" => Elapsed + delay = WaitDelay

(* What the result is worth. *)
Outcome ==
  /\ pc \in {"drain", "finished", "returned"} /\ waitErr \in {"none", "context"} => exit = "zero"
  /\ waitErr \in {"none", "context"} => ~truncated
  /\ waitErr = "context" => runCtx # "live"
  /\ pc \in {"finished", "returned"} /\ Survivors # {} =>
       waitErr \in {"exit", "waitDelay"} /\ ~Early /\ sinceTerm <= Graceful

Inv == TypeOK /\ Phases /\ Timed /\ Outcome /\ OkIsComplete /\ SurvivorsMeanFailure

-----------------------------------------------------------------------------
(* Every step keeps Inv.  Where it takes more than the part itself: a timer    *)
(* that runs out is an Urgent step, so that Tick cannot overtake it.           *)

LEMMA InitKeeps == Init => Inv
  <1> SUFFICES ASSUME Init PROVE Inv  OBVIOUS
  <1>1. TypeOK
    <2>1. ctx \in BOOLEAN /\ exceeded \in BOOLEAN /\ truncated \in BOOLEAN  BY DEF Init
    <2>2. /\ delay \in Ticks(WaitDelay) /\ grace \in Ticks(Graceful)
          /\ sinceTerm \in Ticks(WaitDelay) /\ sinceDone \in Ticks(WaitDelay + 1)
      BY DEF Init, Ticks, Off
    <2>3. deadline \in 0..Timeout  BY TimeAssumption DEF Init
    <2>4. mode \in {"run", "scan"} /\ alive \subseteq Group /\ piped \subseteq Group  BY DEF Init
    <2> QED  BY <2>1, <2>2, <2>3, <2>4 DEF Init, TypeOK
  <1>2. Phases  BY DEF Init, Phases
  <1>3. Timed  BY DEF Init, Timed, Running
  <1>4. Outcome  BY DEF Init, Outcome
  <1>5. OkIsComplete  BY DEF Init, OkIsComplete
  <1>6. SurvivorsMeanFailure  BY DEF Init, SurvivorsMeanFailure
  <1> QED  BY <1>1, <1>2, <1>3, <1>4, <1>5, <1>6 DEF Inv

LEMMA CallerCancelsKeeps == ASSUME Inv, CallerCancels PROVE Inv'
  <1>1. TypeOK'  BY DEF Inv, CallerCancels, Cancelled, TypeOK, world, watchers
  <1>2. Phases'  BY DEF Inv, CallerCancels, Cancelled, Phases, world, watchers, Running
  <1>3. Timed'  BY DEF Inv, CallerCancels, Cancelled, Timed, world, watchers, Running, Elapsed
  <1>4. Outcome'  BY DEF Inv, CallerCancels, Cancelled, Outcome, world, watchers, Survivors, Early
  <1>5. OkIsComplete'  BY DEF Inv, CallerCancels, OkIsComplete, world, Early
  <1>6. SurvivorsMeanFailure'  BY DEF Inv, CallerCancels, SurvivorsMeanFailure
  <1> QED  BY <1>1, <1>2, <1>3, <1>4, <1>5, <1>6 DEF Inv

LEMMA OutputExceedsKeeps == ASSUME Inv, OutputExceeds PROVE Inv'
  <1>1. TypeOK'  BY DEF Inv, OutputExceeds, Cancelled, TypeOK, world, watchers
  <1>2. Phases'  BY DEF Inv, OutputExceeds, Cancelled, Reading, Phases, world, watchers
  <1>3. Timed'  BY DEF Inv, OutputExceeds, Cancelled, Timed, world, watchers, Running, Elapsed
  <1>4. Outcome'  BY DEF Inv, OutputExceeds, Cancelled, Reading, Outcome, world
  <1>5. OkIsComplete'  BY DEF Inv, OutputExceeds, Reading, Phases, OkIsComplete
  <1>6. SurvivorsMeanFailure'  BY DEF Inv, OutputExceeds, Reading, SurvivorsMeanFailure
  <1> QED  BY <1>1, <1>2, <1>3, <1>4, <1>5, <1>6 DEF Inv

LEMMA DeadlinePassesKeeps == ASSUME Inv, DeadlinePasses PROVE Inv'
  <1>1. TypeOK'  BY DEF Inv, DeadlinePasses, TypeOK, world, watchers
  <1>2. Phases'  BY DEF Inv, DeadlinePasses, Phases, world, watchers, Running
  <1>3. Timed'  BY DEF Inv, DeadlinePasses, Timed, watchers, Running, Elapsed
  <1>4. Outcome'  BY DEF Inv, DeadlinePasses, Outcome, world, watchers, Survivors, Early
  <1>5. OkIsComplete'  BY DEF Inv, DeadlinePasses, OkIsComplete, world, Early
  <1>6. SurvivorsMeanFailure'  BY DEF Inv, DeadlinePasses, SurvivorsMeanFailure
  <1> QED  BY <1>1, <1>2, <1>3, <1>4, <1>5, <1>6 DEF Inv

LEMMA ProcessExitsKeeps == ASSUME Inv, NEW p \in Group, ProcessExits(p) PROVE Inv'
  <1>1. TypeOK'  BY DEF Inv, ProcessExits, TypeOK, watchers
  <1>2. Phases'  BY DEF Inv, ProcessExits, Phases, watchers, Running
  <1>3. Timed'  BY DEF Inv, ProcessExits, Timed, watchers, Running, Elapsed
  <1>4. Outcome'  BY DEF Inv, ProcessExits, TypeOK, Outcome, watchers, Survivors, Early
  <1>5. OkIsComplete'  BY DEF Inv, ProcessExits, TypeOK, OkIsComplete, Early
  <1>6. SurvivorsMeanFailure'  BY DEF Inv, ProcessExits, SurvivorsMeanFailure, watchers, Survivors
  <1> QED  BY <1>1, <1>2, <1>3, <1>4, <1>5, <1>6 DEF Inv

LEMMA ExecCancelsKeeps == ASSUME Inv, ExecCancels PROVE Inv'
  <1>1. TypeOK'  BY TimeAssumption DEF Inv, ExecCancels, AskToStop, TypeOK, world, Ticks
  <1>2. Phases'  BY DEF Inv, ExecCancels, Phases, world, Running
  <1>3. Timed'  BY TimeAssumption DEF Inv, ExecCancels, AskToStop, Timed, world, Running, Off
  <1>4. Outcome'  BY DEF Inv, ExecCancels, Outcome, world
  <1>5. OkIsComplete'  BY DEF Inv, ExecCancels, OkIsComplete, world, Early
  <1>6. SurvivorsMeanFailure'  BY DEF Inv, ExecCancels, SurvivorsMeanFailure
  <1> QED  BY <1>1, <1>2, <1>3, <1>4, <1>5, <1>6 DEF Inv

LEMMA WatcherAsksKeeps == ASSUME Inv, WatcherAsks PROVE Inv'
  <1>1. TypeOK'  BY TimeAssumption DEF Inv, WatcherAsks, AskToStop, TypeOK, world, Ticks
  <1>2. Phases'  BY DEF Inv, WatcherAsks, Phases, world, Running
  <1>3. Timed'  BY TimeAssumption DEF Inv, WatcherAsks, AskToStop, Timed, Elapsed, Off
  <1>4. Outcome'
    BY TimeAssumption DEF Inv, WatcherAsks, AskToStop, Outcome, world, Survivors, Early
  <1>5. OkIsComplete'  BY DEF Inv, WatcherAsks, OkIsComplete, world, Early
  <1>6. SurvivorsMeanFailure'  BY DEF Inv, WatcherAsks, Phases, SurvivorsMeanFailure
  <1> QED  BY <1>1, <1>2, <1>3, <1>4, <1>5, <1>6 DEF Inv

LEMMA WatcherForcesKeeps == ASSUME Inv, WatcherForces PROVE Inv'
  <1>1. TypeOK'  BY DEF Inv, WatcherForces, WatcherKills, Killed, TypeOK, Ticks
  <1>2. Phases'  BY DEF Inv, WatcherForces, WatcherKills, Killed, Phases, Running
  <1>3. Timed'  BY DEF Inv, WatcherForces, WatcherKills, Killed, Timed, Elapsed, Off
  <1>4. Outcome'  BY DEF Inv, WatcherForces, WatcherKills, Killed, TypeOK, Outcome, Survivors
  <1>5. OkIsComplete'
    BY DEF Inv, WatcherForces, WatcherKills, Killed, TypeOK, OkIsComplete, Early
  <1>6. SurvivorsMeanFailure'
    BY DEF Inv, WatcherForces, WatcherKills, Killed, SurvivorsMeanFailure, Survivors
  <1> QED  BY <1>1, <1>2, <1>3, <1>4, <1>5, <1>6 DEF Inv

LEMMA WatcherLeavesKeeps == ASSUME Inv, WatcherLeaves PROVE Inv'
  <1>1. TypeOK'  BY DEF Inv, WatcherLeaves, TypeOK, world, Ticks
  <1>2. Phases'  BY DEF Inv, WatcherLeaves, Phases, world, Running
  <1>3. Timed'  BY DEF Inv, WatcherLeaves, Timed, Running
  <1>4. Outcome'  BY DEF Inv, WatcherLeaves, Outcome, world, Survivors, Early
  <1>5. OkIsComplete'  BY DEF Inv, WatcherLeaves, OkIsComplete, world, Early
  <1>6. SurvivorsMeanFailure'  BY DEF Inv, WatcherLeaves, SurvivorsMeanFailure
  <1> QED  BY <1>1, <1>2, <1>3, <1>4, <1>5, <1>6 DEF Inv

LEMMA StartsKeeps == ASSUME Inv, Starts PROVE Inv'
  <1>1. TypeOK'  BY DEF Inv, Starts, TypeOK, Phases, Group
  <1>2. Phases'  BY DEF Inv, Starts, Phases
  <1>3. Timed'  BY TimeAssumption DEF Inv, Starts, Phases, Timed, Off
  <1>4. Outcome'  BY DEF Inv, Starts, Outcome
  <1>5. OkIsComplete'  BY DEF Inv, Starts, OkIsComplete, Early
  <1>6. SurvivorsMeanFailure'  BY DEF Inv, Starts, SurvivorsMeanFailure
  <1> QED  BY <1>1, <1>2, <1>3, <1>4, <1>5, <1>6 DEF Inv

LEMMA StartFailsKeeps == ASSUME Inv, StartFails PROVE Inv'
  <1>1. TypeOK'  BY DEF Inv, StartFails, TypeOK, world, watchers
  <1>2. Phases'  BY DEF Inv, StartFails, Phases, world, watchers
  <1>3. Timed'  BY DEF Inv, StartFails, Timed, watchers, Running
  <1>4. Outcome'  BY DEF Inv, StartFails, Phases, Outcome, world, Survivors
  <1>5. OkIsComplete'  BY DEF Inv, StartFails, OkIsComplete, world, Early
  <1>6. SurvivorsMeanFailure'  BY DEF Inv, StartFails, SurvivorsMeanFailure
  <1> QED  BY <1>1, <1>2, <1>3, <1>4, <1>5, <1>6 DEF Inv

LEMMA ConsumerEndsKeeps ==
  ASSUME Inv, NEW how \in {"eof", "bad", "enough"}, ConsumerEnds(how)
  PROVE  Inv'
  <1>1. TypeOK'  BY DEF Inv, ConsumerEnds, Cancelled, TypeOK, world, watchers
  <1>2. Phases'  BY DEF Inv, ConsumerEnds, Cancelled, Phases, world, watchers, Running
  <1>3. Timed'  BY DEF Inv, ConsumerEnds, Cancelled, Timed, world, watchers, Running
  <1>4. Outcome'  BY DEF Inv, ConsumerEnds, Cancelled, Outcome, world
  <1>5. OkIsComplete'  BY DEF Inv, ConsumerEnds, Phases, OkIsComplete
  <1>6. SurvivorsMeanFailure'  BY DEF Inv, ConsumerEnds, SurvivorsMeanFailure
  <1> QED  BY <1>1, <1>2, <1>3, <1>4, <1>5, <1>6 DEF Inv

LEMMA WaitReapsKeeps == ASSUME Inv, WaitReaps PROVE Inv'
  <1>1. TypeOK'  BY TimeAssumption DEF Inv, WaitReaps, TypeOK, world, Ticks
  <1>2. Phases'  BY DEF Inv, WaitReaps, Phases, world, Running
  <1>3. Timed'
    BY TimeAssumption DEF Inv, WaitReaps, TypeOK, Phases, Timed, world, Running, Elapsed, Ticks,
      Off
  <1>4. Outcome'  BY DEF Inv, WaitReaps, Phases, Timed, Outcome, world, Off
  <1>5. OkIsComplete'  BY DEF Inv, WaitReaps, OkIsComplete, world, Early
  <1>6. SurvivorsMeanFailure'  BY DEF Inv, WaitReaps, SurvivorsMeanFailure
  <1> QED  BY <1>1, <1>2, <1>3, <1>4, <1>5, <1>6 DEF Inv

LEMMA WaitDrainsKeeps == ASSUME Inv, WaitDrains PROVE Inv'
  <1>1. TypeOK'  BY DEF Inv, WaitDrains, TypeOK, world, Ticks
  <1>2. Phases'  BY DEF Inv, WaitDrains, Phases, world, Running
  <1>3. Timed'  BY DEF Inv, WaitDrains, Phases, Timed, Running
  <1>4. Outcome'  BY DEF Inv, WaitDrains, PipesOpen, Phases, Outcome, world, Running, Survivors
  <1>5. OkIsComplete'  BY DEF Inv, WaitDrains, OkIsComplete, world, Early
  <1>6. SurvivorsMeanFailure'  BY DEF Inv, WaitDrains, SurvivorsMeanFailure
  <1> QED  BY <1>1, <1>2, <1>3, <1>4, <1>5, <1>6 DEF Inv

LEMMA WaitGivesUpKeeps == ASSUME Inv, WaitGivesUp PROVE Inv'
  <1>1. TypeOK'  BY DEF Inv, WaitGivesUp, PipesGivenUp, TypeOK, Ticks
  <1>2. Phases'  BY DEF Inv, WaitGivesUp, PipesGivenUp, Phases, Running
  <1>3. Timed'  BY DEF Inv, WaitGivesUp, PipesGivenUp, Phases, Timed, Running
  <1>4. Outcome'
    BY TimeAssumption, DelayAssumption DEF Inv, WaitGivesUp, PipesGivenUp, PipesOpen, TypeOK,
      Phases, Timed, Outcome, Running, Elapsed, Early, Off
  <1>5. OkIsComplete'  BY DEF Inv, WaitGivesUp, PipesGivenUp, Phases, OkIsComplete
  <1>6. SurvivorsMeanFailure'  BY DEF Inv, WaitGivesUp, PipesGivenUp, SurvivorsMeanFailure
  <1> QED  BY <1>1, <1>2, <1>3, <1>4, <1>5, <1>6 DEF Inv

LEMMA ReturnsKeeps == ASSUME Inv, Returns PROVE Inv'
  <1>1. TypeOK'  BY DEF Inv, Returns, Killed, Classification, ExitVerdict, TypeOK, watchers
  <1>2. Phases'  BY DEF Inv, Returns, Killed, Phases, watchers, Running
  <1>3. Timed'  BY DEF Inv, Returns, Timed, watchers, Running
  <1>4. Outcome'  BY DEF Inv, Returns, Killed, Outcome, watchers, Survivors, Early
  <1>5. OkIsComplete'
    BY DEF Inv, Returns, Classification, ExitVerdict, Outcome, OkIsComplete, Early
  <1>6. SurvivorsMeanFailure'
    BY DEF Inv, Returns, Killed, Classification, ExitVerdict, Outcome, SurvivorsMeanFailure,
      watchers, Survivors
  <1> QED  BY <1>1, <1>2, <1>3, <1>4, <1>5, <1>6 DEF Inv

LEMMA TickKeeps == ASSUME Inv, Tick PROVE Inv'
  <1>1. TypeOK'  BY TimeAssumption DEF Inv, Tick, Up, Down, TypeOK, world, Ticks, Off
  <1>2. Phases'  BY DEF Inv, Tick, Urgent, Phases, world, Running
  <1>3. Timed'
    BY TimeAssumption, DelayAssumption DEF Inv, Tick, Urgent, PipesOpen, Up, Down, TypeOK,
      Phases, Timed, Outcome, Running, Elapsed, Off
  <1>4. Outcome'  BY DEF Inv, Tick, Urgent, Outcome, world
  <1>5. OkIsComplete'  BY DEF Inv, Tick, OkIsComplete, world, Early
  <1>6. SurvivorsMeanFailure'  BY DEF Inv, Tick, SurvivorsMeanFailure
  <1> QED  BY <1>1, <1>2, <1>3, <1>4, <1>5, <1>6 DEF Inv

LEMMA StutterKeeps == ASSUME Inv, UNCHANGED vars PROVE Inv'
  BY DEF Inv, vars, world, watchers, TypeOK, Phases, Timed, Outcome, OkIsComplete,
         SurvivorsMeanFailure, Running, Elapsed, Survivors, Early

-----------------------------------------------------------------------------
(* Inv is inductive: the timers are tied to each other by sinceTerm, and the   *)
(* result to what Wait has seen.                                               *)
THEOREM InvHolds == Spec => []Inv
  <1>1. Inv /\ [Next]_vars => Inv'
    <2> SUFFICES ASSUME Inv, [Next]_vars PROVE Inv'  OBVIOUS
    <2>1. ASSUME NEW p \in Group, ProcessExits(p) PROVE Inv'  BY <2>1, ProcessExitsKeeps
    <2>2. ASSUME NEW how \in {"eof", "bad", "enough"}, ConsumerEnds(how) PROVE Inv'
      BY <2>2, ConsumerEndsKeeps
    <2>3. CASE CallerCancels  BY <2>3, CallerCancelsKeeps
    <2>4. CASE OutputExceeds  BY <2>4, OutputExceedsKeeps
    <2>5. CASE DeadlinePasses  BY <2>5, DeadlinePassesKeeps
    <2>6. CASE ExecCancels  BY <2>6, ExecCancelsKeeps
    <2>7. CASE WatcherAsks  BY <2>7, WatcherAsksKeeps
    <2>8. CASE WatcherForces  BY <2>8, WatcherForcesKeeps
    <2>9. CASE WatcherLeaves  BY <2>9, WatcherLeavesKeeps
    <2>10. CASE Starts  BY <2>10, StartsKeeps
    <2>11. CASE StartFails  BY <2>11, StartFailsKeeps
    <2>12. CASE WaitReaps  BY <2>12, WaitReapsKeeps
    <2>13. CASE WaitDrains  BY <2>13, WaitDrainsKeeps
    <2>14. CASE WaitGivesUp  BY <2>14, WaitGivesUpKeeps
    <2>15. CASE Returns  BY <2>15, ReturnsKeeps
    <2>16. CASE Tick  BY <2>16, TickKeeps
    <2>17. CASE UNCHANGED vars  BY <2>17, StutterKeeps
    <2> QED
      BY <2>1, <2>2, <2>3, <2>4, <2>5, <2>6, <2>7, <2>8,
         <2>9, <2>10, <2>11, <2>12, <2>13, <2>14, <2>15, <2>16, <2>17
      DEF Next
  <1> QED  BY <1>1, InitKeeps, PTL DEF Spec

(* The types the runs check hold in every instance. *)
THEOREM Typing == Spec => []TypeOK
  <1>1. Inv => TypeOK  BY DEF Inv
  <1> QED  BY <1>1, InvHolds, PTL

(* os/exec's kill of the leader alone is never due, because the runner's own   *)
(* SIGKILL to the group comes first.                                           *)
THEOREM GroupIsKilledFirst == Spec => []GroupKillComesFirst
  <1>1. Inv => GroupKillComesFirst
    BY TimeAssumption, DelayAssumption DEF Inv, Timed, GroupKillComesFirst
  <1> QED  BY <1>1, InvHolds, PTL

(* Once runCtx is done, the runner returns within the wait delay.              *)
THEOREM ReturnsWithinDelay == Spec => []ReturnsInTime
  <1>1. Inv => ReturnsInTime
    BY TimeAssumption DEF Inv, TypeOK, Timed, ReturnsInTime, Ticks, Off
  <1> QED  BY <1>1, InvHolds, PTL

(* An answer that is called complete is complete: the child ended well, and    *)
(* all it wrote was read.                                                      *)
THEOREM OkIsHonest == Spec => []OkIsComplete
  <1>1. Inv => OkIsComplete  BY DEF Inv
  <1> QED  BY <1>1, InvHolds, PTL

(* A descendant on the pipes outlives the run only of a child that failed.     *)
THEOREM SurvivorsOfFailureOnly == Spec => []SurvivorsMeanFailure
  <1>1. Inv => SurvivorsMeanFailure  BY DEF Inv
  <1> QED  BY <1>1, InvHolds, PTL

(* restic is never sent SIGKILL before it has had the graceful window, by      *)
(* whichever goroutine and on whatever path.                                   *)
THEOREM GraceIsGiven == Spec => LeaderGetsItsGrace
  <1> DEFINE Given == exit' = "killed" /\ exit # "killed" => sinceTerm >= Graceful
  <1>1. ASSUME Inv, [Next]_vars PROVE Given
    <2>1. CASE WatcherForces
      BY <1>1, <2>1, TimeAssumption DEF WatcherForces, WatcherKills, Inv, Timed
    <2>2. CASE Returns  BY <1>1, <2>2 DEF Returns, Killed, Inv, Phases
    <2>3. ASSUME NEW p \in Group, ProcessExits(p) PROVE Given  BY <2>3 DEF ProcessExits
    <2>4. ASSUME NEW how \in {"eof", "bad", "enough"}, ConsumerEnds(how) PROVE Given
      BY <2>4 DEF ConsumerEnds, world
    <2>5. CASE \/ CallerCancels \/ OutputExceeds \/ DeadlinePasses \/ ExecCancels \/ WatcherAsks
               \/ WatcherLeaves \/ Starts \/ StartFails \/ WaitReaps \/ WaitDrains \/ WaitGivesUp
               \/ Tick
      BY <2>5 DEF CallerCancels, OutputExceeds, DeadlinePasses, ExecCancels, WatcherAsks,
         WatcherLeaves, Starts, StartFails, WaitReaps, WaitDrains, WaitGivesUp, PipesGivenUp,
         Tick, world
    <2> QED  BY <1>1, <2>1, <2>2, <2>3, <2>4, <2>5 DEF Next, vars
  <1>2. Inv /\ [Next]_vars => [Given]_vars  BY <1>1
  <1> QED  BY <1>2, InvHolds, PTL DEF Spec, LeaderGetsItsGrace
=============================================================================
