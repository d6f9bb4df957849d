--------------------------- MODULE RegistryProofs ---------------------------
(***************************************************************************)
(* Proofs about Registry: what is proved of the coalescer and of run() on  *)
(* their own holds of the two together.                                    *)
(***************************************************************************)
EXTENDS Registry, MetadataProofs

-----------------------------------------------------------------------------
\* What relates a call to the run of its command.

RunTyped ==
  /\ contentCtx \in [Contents -> BOOLEAN]
  /\ Slot!TypeOK

\* A call is started with its run, and goes on when the run has returned.
InStep ==
  \A c \in Calls :
    /\ cstate[c] = "unused" <=> pc[c] = "idle"
    /\ cstate[c] \in {"returned", "put", "ended"} => pc[c] = "returned"

\* The verdict run() returns is one the coalescer expects.
VerdictsMeant ==
  \A c \in Calls :
    /\ pc[c] \in {"dropGlobal", "returned"} => verdict[c] # "none"
    /\ pc[c] = "dropRepo" => verdict[c] # "none"
    /\ verdict[c] = "ok" => cread[c] # Never
    /\ verdict[c] = "cancelled" => shared[c]

RegistryInv == TypeInv /\ RunTyped /\ InStep /\ VerdictsMeant

LEMMA RegistryStarts == RegistryInit => RegistryInv
<1> SUFFICES ASSUME RegistryInit PROVE RegistryInv
  OBVIOUS
<1>1. TypeInv
  BY TypeInit DEF RegistryInit
<1>2. ctxOf \in [Commands -> BOOLEAN]
  BY DEF RegistryInit, Init, ctxOf, Commands
<1>3. RunTyped
  BY <1>2, SlotCapAssumption DEF RegistryInit, RunTyped, Slot!Init, Slot!TypeOK, Slot!Verdicts
<1>4. InStep /\ VerdictsMeant
  BY DEF RegistryInit, Init, Slot!Init, InStep, VerdictsMeant, Commands
<1> QED BY <1>1, <1>3, <1>4 DEF RegistryInv

\* With the verdicts meant, handing one to the goroutine is what RunReturns says.
LEMMA RegistryIsMetadata == RegistryInv /\ [RegistryNext]_registryVars => [Next]_vars
<1> SUFFICES ASSUME RegistryInv, [RegistryNext]_registryVars PROVE [Next]_vars
  OBVIOUS
<1>1. ASSUME NEW r \in Requests, CallerStep(r) PROVE Next
  BY <1>1 DEF CallerStep, Next, RequestStep
<1>2. ASSUME NEW r \in Requests, NEW c \in Calls, LeadAndRun(r, c) PROVE Next
  BY <1>2 DEF LeadAndRun, Next, RequestStep
<1>3. ASSUME NEW x \in Commands, CommandGoesOn(x) PROVE UNCHANGED vars
  BY <1>3 DEF CommandGoesOn, SlotStep, CommandEnds
<1>4. ASSUME NEW c \in Calls, CommandReads(c) PROVE Next
  BY <1>4 DEF CommandReads, Next, CallStep
<1>5. ASSUME NEW c \in Calls, Deliver(c) PROVE Next
  <2>1. verdict[c] \in Outcomes
    BY <1>5 DEF Deliver, RegistryInv, RunTyped, VerdictsMeant, Slot!TypeOK, Slot!Verdicts,
       Outcomes, Commands
  <2>2. RunReturns(c, verdict[c])
    BY <1>5 DEF Deliver, RunReturns, RegistryInv, VerdictsMeant
  <2> QED BY <2>1, <2>2 DEF Next, CallStep
<1>6. ASSUME NEW c \in Calls, FinishCall(c) PROVE Next
  BY <1>6 DEF FinishCall, Next, CallStep
<1>7. ASSUME NEW x \in Contents, ContentCancelled(x) \/ \E p \in Repos : StartContent(x, p)
      PROVE  UNCHANGED vars
  BY <1>7 DEF ContentCancelled, StartContent
<1>8. CASE Passes
  BY <1>8 DEF Passes, Next
<1>9. CASE UNCHANGED registryVars
  BY <1>9 DEF registryVars
<1> QED
  BY <1>1, <1>2, <1>3, <1>4, <1>5, <1>6, <1>7, <1>8, <1>9 DEF RegistryNext, CallGoesOn

\* Contexts are only ever cancelled.
LEMMA ContextsMove ==
  ASSUME RegistryInv, [RegistryNext]_registryVars
  PROVE  \A c \in Calls : shared[c] => shared'[c]
<1>1. CASE UNCHANGED shared
  BY <1>1
<1>2. ASSUME NEW r \in Requests, GiveUp(r) PROVE \A c \in Calls : shared[c] => shared'[c]
  BY <1>2 DEF GiveUp, Leave, RegistryInv, TypeInv, TypeOK
<1>3. ASSUME NEW c \in Calls, Finish(c) PROVE \A d \in Calls : shared[d] => shared'[d]
  BY <1>3 DEF Finish, FinishWith, RegistryInv, TypeInv, TypeOK
<1> QED
  BY <1>1, <1>2, <1>3 DEF RegistryNext, CallerStep, LeadAndRun, CommandGoesOn, SlotStep,
     CommandEnds, CommandReads, CallGoesOn, Deliver, FinishCall, ContentCancelled,
     StartContent, Passes, registryVars, vars, callVars, Refuse, Arrive, ClientCancels,
     CacheGet, Join, JoinCounting, TakeResult, Lead, LeadNew, ReadRepository, Returned,
     CachePut, Tick

-----------------------------------------------------------------------------
\* RegistryInv is inductive.

LEMMA ContextTyped == TypeInv /\ contentCtx \in [Contents -> BOOLEAN] => ctxOf \in [Commands -> BOOLEAN]
  BY DEF ctxOf, Commands, TypeInv, TypeOK

\* The part of run()'s types that does not speak of contexts.
RunVars ==
  /\ target \in [Commands -> Repos \cup {NoRepo}]
  /\ pc \in [Commands -> {"idle", "entry", "repo", "global", "run",
                          "dropGlobal", "dropRepo", "returned"}]
  /\ verdict \in [Commands -> Slot!Verdicts]
  /\ repoSem \in [Repos -> 0..RepoCap]
  /\ globalSem \in 0..GlobalCap
  /\ \A r \in Commands : pc[r] = "idle" <=> target[r] = NoRepo

LEMMA RunVarsTyped ==
  TypeInv /\ contentCtx \in [Contents -> BOOLEAN] => (RunVars <=> Slot!TypeOK)
  BY ContextTyped DEF RunVars, Slot!TypeOK

LEMMA StepCaller ==
  ASSUME RegistryInv, NEW r \in Requests, CallerStep(r), TypeInv'
  PROVE  RegistryInv'
<1>1. RunVars /\ contentCtx \in [Contents -> BOOLEAN]
  BY RunVarsTyped DEF RegistryInv, RunTyped
<1>2. RunVars' /\ (contentCtx \in [Contents -> BOOLEAN])'
  BY <1>1 DEF CallerStep, slotVars, RunVars, Slot!Verdicts
<1>3. RunTyped'
  BY <1>2, RunVarsTyped, PTL DEF RunTyped
<1>4. InStep' /\ VerdictsMeant'
  <2>1. UNCHANGED <<cstate, cread, pc, verdict>>
    BY DEF CallerStep, slotVars, callVars, Refuse, Arrive, ClientCancels, CacheGet, Join,
       JoinCounting, TakeResult, GiveUp, Leave
  <2>2. \A c \in Calls : shared[c] => shared'[c]
    BY ContextsMove DEF RegistryNext
  <2> QED BY <2>1, <2>2 DEF RegistryInv, InStep, VerdictsMeant
<1> QED BY <1>3, <1>4 DEF RegistryInv

LEMMA StepLead ==
  ASSUME RegistryInv, NEW r \in Requests, NEW c \in Calls, LeadAndRun(r, c), TypeInv'
  PROVE  RegistryInv'
<1>1. RunVars /\ contentCtx \in [Contents -> BOOLEAN]
  BY RunVarsTyped DEF RegistryInv, RunTyped
<1>2. c \in Commands /\ RepoOf[rkey[r]] \in Repos
  BY RepoOfAssumption DEF Commands, LeadAndRun, Lead, RegistryInv, TypeInv, Placed
<1>3. RunVars' /\ (contentCtx \in [Contents -> BOOLEAN])'
  BY <1>1, <1>2, ContentsAssumption DEF LeadAndRun, Slot!Call, Slot!Goto, RunVars, Slot!Verdicts
<1>4. RunTyped'
  BY <1>3, RunVarsTyped, PTL DEF RunTyped
<1>5. InStep'
  BY <1>1, <1>2 DEF LeadAndRun, Lead, LeadNew, Slot!Call, Slot!Goto, RunVars, Commands,
     RegistryInv, InStep, TypeInv, TypeOK
<1>6. VerdictsMeant'
  BY <1>1, <1>2 DEF LeadAndRun, Lead, LeadNew, Slot!Call, Slot!Goto, RunVars, Commands,
     RegistryInv, VerdictsMeant
<1> QED BY <1>4, <1>5, <1>6 DEF RegistryInv

\* run() turns a call away with "cancelled" only if its context is done.
LEMMA StepRun ==
  ASSUME RegistryInv, NEW x \in Commands, CommandGoesOn(x), TypeInv'
  PROVE  RegistryInv'
<1>1. RunVars /\ contentCtx \in [Contents -> BOOLEAN]
  BY RunVarsTyped DEF RegistryInv, RunTyped
<1>2. UNCHANGED <<vars, contentCtx, target>>
  BY DEF CommandGoesOn, SlotStep, CommandEnds, Slot!CheckCtx, Slot!TakeRepoSlot,
     Slot!RejectAtRepo, Slot!TakeGlobalSlot, Slot!RejectAtGlobal, Slot!RejectAtGlobalTo,
     Slot!DropGlobalSlot, Slot!DropRepoSlot, Slot!CommandEnds
<1>3. pc[x] \notin {"idle", "returned"}
  BY DEF CommandGoesOn, SlotStep, CommandEnds, Slot!CheckCtx, Slot!TakeRepoSlot,
     Slot!RejectAtRepo, Slot!TakeGlobalSlot, Slot!RejectAtGlobal, Slot!RejectAtGlobalTo,
     Slot!DropGlobalSlot, Slot!DropRepoSlot, Slot!CommandEnds
<1>4. PICK there \in {"repo", "global", "run", "dropGlobal", "dropRepo", "returned"} :
        pc' = [pc EXCEPT ![x] = there]
  BY DEF CommandGoesOn, SlotStep, CommandEnds, Slot!CheckCtx, Slot!TakeRepoSlot,
     Slot!RejectAtRepo, Slot!TakeGlobalSlot, Slot!RejectAtGlobal, Slot!RejectAtGlobalTo,
     Slot!DropGlobalSlot, Slot!DropRepoSlot, Slot!CommandEnds, Slot!Goto
<1>5. repoSem' \in [Repos -> 0..RepoCap] /\ globalSem' \in 0..GlobalCap
  BY <1>1, SlotCapAssumption DEF RunVars, CommandGoesOn, SlotStep, CommandEnds,
     Slot!CheckCtx, Slot!TakeRepoSlot, Slot!RejectAtRepo, Slot!TakeGlobalSlot,
     Slot!RejectAtGlobal, Slot!RejectAtGlobalTo, Slot!DropGlobalSlot, Slot!DropRepoSlot,
     Slot!CommandEnds
<1>6. PICK v \in Slot!Verdicts :
        /\ verdict' = [verdict EXCEPT ![x] = v]
        /\ x \in Calls /\ there \in {"dropGlobal", "dropRepo", "returned"} => v # "none"
        /\ v = "cancelled" => ctxOf[x] \/ verdict[x] = "cancelled"
        /\ x \in Calls /\ v = "ok" => cread[x] # Never
  BY <1>1, <1>2, <1>3, <1>4 DEF RunVars, CommandGoesOn, SlotStep, CommandEnds,
     Slot!CheckCtx, Slot!TakeRepoSlot, Slot!RejectAtRepo, Slot!TakeGlobalSlot,
     Slot!RejectAtGlobal, Slot!RejectAtGlobalTo, Slot!Rejection, Slot!DropGlobalSlot,
     Slot!DropRepoSlot, Slot!CommandEnds, Slot!CommandVerdicts, Slot!Goto, Slot!Answer,
     Slot!Verdicts, RegistryInv, VerdictsMeant
<1>7. RunVars' /\ (contentCtx \in [Contents -> BOOLEAN])'
  <2>1. \A y \in Commands : pc'[y] = "idle" <=> target'[y] = NoRepo
    BY <1>1, <1>2, <1>3, <1>4 DEF RunVars
  <2> QED BY <1>1, <1>2, <1>4, <1>5, <1>6, <2>1 DEF RunVars, Slot!Verdicts
<1>8. RunTyped'
  BY <1>7, RunVarsTyped, PTL DEF RunTyped
<1>9. InStep'
  BY <1>1, <1>2, <1>3, <1>4 DEF RunVars, RegistryInv, InStep, Commands, vars, callVars
<1>10. VerdictsMeant'
  <2>1. UNCHANGED <<cread, shared>>
    BY <1>2 DEF vars, callVars
  <2>2. x \in Calls => ctxOf[x] = shared[x]
    BY DEF ctxOf, Commands
  <2> QED BY <1>1, <1>4, <1>6, <2>1, <2>2 DEF RunVars, RegistryInv, VerdictsMeant, Commands
<1> QED BY <1>8, <1>9, <1>10 DEF RegistryInv

LEMMA StepElse ==
  ASSUME RegistryInv, TypeInv',
         \/ \E c \in Calls : CommandReads(c) \/ CallGoesOn(c)
         \/ \E x \in Contents : ContentCancelled(x) \/ \E p \in Repos : StartContent(x, p)
         \/ Passes
         \/ UNCHANGED registryVars
  PROVE  RegistryInv'
<1>1. RunVars /\ contentCtx \in [Contents -> BOOLEAN]
  BY RunVarsTyped DEF RegistryInv, RunTyped
<1>2. ASSUME NEW c \in Calls, CommandReads(c) \/ CallGoesOn(c) PROVE RegistryInv'
  <2>1. UNCHANGED <<contentCtx, slotVars>>
    BY <1>2 DEF CommandReads, CallGoesOn, Deliver, FinishCall
  <2>2. RunVars' /\ (contentCtx \in [Contents -> BOOLEAN])'
    BY <1>1, <2>1 DEF RunVars, slotVars, Slot!Verdicts
  <2>3. RunTyped'
    BY <2>2, RunVarsTyped, PTL DEF RunTyped
  <2>4. InStep'
    BY <1>2, <2>1 DEF slotVars, RegistryInv, InStep, TypeInv, TypeOK, CommandReads,
       ReadRepository, CallGoesOn, Deliver, Returned, FinishCall, Finish, FinishWith, CachePut
  <2>5. \A d \in Calls : shared[d] => shared'[d]
    BY <1>2, ContextsMove DEF RegistryNext
  <2>6. \A d \in Calls : cread[d] # Never => cread'[d] # Never
    BY <1>2 DEF RegistryInv, TypeInv, TypeOK, Never, CommandReads, ReadRepository,
       CallGoesOn, Deliver, Returned, FinishCall, Finish, FinishWith, CachePut
  <2>7. VerdictsMeant'
    BY <2>1, <2>5, <2>6 DEF slotVars, RegistryInv, VerdictsMeant
  <2> QED BY <2>3, <2>4, <2>7 DEF RegistryInv
<1>3. ASSUME NEW x \in Contents, NEW p \in Repos, StartContent(x, p) PROVE RegistryInv'
  <2>1. x \in Commands /\ x \notin Calls
    BY ContentsAssumption DEF Commands
  <2>2. RunVars' /\ (contentCtx \in [Contents -> BOOLEAN])'
    BY <1>1, <1>3, <2>1, ContentsAssumption DEF StartContent, Slot!Call, Slot!Goto, RunVars,
       Slot!Verdicts
  <2>3. RunTyped'
    BY <2>2, RunVarsTyped, PTL DEF RunTyped
  <2>4. InStep' /\ VerdictsMeant'
    BY <1>1, <1>3, <2>1 DEF StartContent, Slot!Call, Slot!Goto, RunVars, Commands, vars,
       callVars, RegistryInv, InStep, VerdictsMeant
  <2> QED BY <2>3, <2>4 DEF RegistryInv
<1>4. ASSUME UNCHANGED <<slotVars, callVars>>, (contentCtx \in [Contents -> BOOLEAN])'
      PROVE  RegistryInv'
  <2>1. RunVars'
    BY <1>1, <1>4 DEF RunVars, slotVars, Slot!Verdicts
  <2>2. RunTyped'
    BY <1>4, <2>1, RunVarsTyped, PTL DEF RunTyped
  <2> QED BY <1>4, <2>2 DEF RegistryInv, InStep, VerdictsMeant, slotVars, callVars
<1>5. ASSUME NEW x \in Contents, ContentCancelled(x) PROVE RegistryInv'
  BY <1>1, <1>4, <1>5 DEF ContentCancelled, vars, callVars
<1>6. CASE Passes \/ UNCHANGED registryVars
  BY <1>1, <1>4, <1>6 DEF Passes, Tick, registryVars, vars, callVars
<1> QED BY <1>2, <1>3, <1>5, <1>6

LEMMA RegistryInvHolds == RegistrySpec => []RegistryInv
<1>1. RegistryInv /\ [RegistryNext]_registryVars => RegistryInv'
  <2> SUFFICES ASSUME RegistryInv, [RegistryNext]_registryVars PROVE RegistryInv'
    OBVIOUS
  <2>1. TypeInv'
    BY RegistryIsMetadata, TypeNext DEF RegistryInv
  <2> QED BY <2>1, StepCaller, StepLead, StepRun, StepElse DEF RegistryNext
<1> QED BY <1>1, RegistryStarts, PTL DEF RegistrySpec

-----------------------------------------------------------------------------
\* The composed system implements the coalescer.

\* Whatever run() answers through its slots is an answer the coalescer allows
\* for, so every theorem about Metadata holds of the registry.
THEOREM CoalescerWorks == RegistrySpec => CoalescerUnderSlots
<1>1. RegistryInit => Init
  BY DEF RegistryInit
<1> QED
  BY <1>1, RegistryIsMetadata, RegistryInvHolds, PTL DEF RegistrySpec, Spec, CoalescerUnderSlots

\* Nobody, in the composed system, waits on a command cancelled by another's
\* departure.
THEOREM IsolationThroughSlots == RegistrySpec => []CancellationIsolated
<1> QED BY CoalescerWorks, Isolation, PTL DEF CoalescerUnderSlots

-----------------------------------------------------------------------------
\* Slots and callers.

\* A published result means free slots: the deferred receives of run come before
\* finish.
THEOREM AnswerFreesSlots == RegistrySpec => []AnsweredCommandsHoldNoSlot
<1>1. RegistryInv => AnsweredCommandsHoldNoSlot
  BY DEF RegistryInv, InStep, AnsweredCommandsHoldNoSlot, Done, Slot!HoldsRepo, Slot!HoldsGlobal
<1> QED BY <1>1, RegistryInvHolds, PTL

LEMMA HoldersInFlight ==
  ASSUME RegistryInv, NEW c \in Calls, pc[c] \notin {"idle", "returned"}
  PROVE  InFlight(c)
  BY DEF RegistryInv, InStep, InFlight, TypeInv, TypeOK

\* A slot is never kept for a command that nobody wants and nobody has stopped.
THEOREM SlotsAreWanted == RegistrySpec => []SlotsServeSomeone
<1>1. RegistryInv /\ AbandonedCommandsAreCancelled => SlotsServeSomeone
  BY HoldersInFlight DEF AbandonedCommandsAreCancelled, SlotsServeSomeone, Slot!HoldsRepo
<1> QED BY <1>1, RegistryInvHolds, CoalescerWorks, NoZombies, PTL DEF CoalescerUnderSlots

LEMMA WhoTurnsBusy ==
  ASSUME RegistryInv, [RegistryNext]_registryVars, NEW c \in Calls,
         verdict'[c] # verdict[c]
  PROVE  pc[c] \notin {"idle", "returned"}
<1>1. RunVars /\ c \in Commands
  BY RunVarsTyped DEF RegistryInv, RunTyped, Commands
<1>2. PICK x \in Commands : CommandGoesOn(x)
  BY DEF RegistryNext, CallerStep, LeadAndRun, Slot!Call, CommandReads, CallGoesOn, Deliver,
     FinishCall, ContentCancelled, StartContent, Passes, registryVars, slotVars
<1>3. pc[x] \notin {"idle", "returned"}
  BY <1>2 DEF CommandGoesOn, SlotStep, CommandEnds, Slot!CheckCtx, Slot!TakeRepoSlot,
     Slot!RejectAtRepo, Slot!TakeGlobalSlot, Slot!RejectAtGlobal, Slot!RejectAtGlobalTo,
     Slot!DropGlobalSlot, Slot!DropRepoSlot, Slot!CommandEnds
<1>4. PICK v : verdict' = [verdict EXCEPT ![x] = v] \/ verdict' = verdict
  BY <1>2 DEF CommandGoesOn, SlotStep, CommandEnds, Slot!CheckCtx, Slot!TakeRepoSlot,
     Slot!RejectAtRepo, Slot!TakeGlobalSlot, Slot!RejectAtGlobal, Slot!RejectAtGlobalTo,
     Slot!Rejection, Slot!DropGlobalSlot, Slot!DropRepoSlot, Slot!CommandEnds, Slot!Answer
<1> QED BY <1>1, <1>3, <1>4 DEF RunVars

\* While every client is patient, the slot a metadata command is refused is not
\* held by a command for the same key: coalescing keeps identical commands out of
\* each other's way even at a capacity of one.
THEOREM IdenticalNotInTheWay == RegistrySpec => NeverBusyByItself
<1>1. RegistryInv /\ SingleFlightWhilePatient /\ [RegistryNext]_registryVars =>
        [\A c \in Calls :
           verdict'[c] = "busy" /\ verdict[c] # "busy" /\ (\A r \in Requests : ~ctxDone[r]) =>
             \A d \in Calls \ {c} : ckey[d] = ckey[c] => ~Slot!HoldsRepo(d)]_registryVars
  <2> SUFFICES ASSUME RegistryInv, SingleFlightWhilePatient, [RegistryNext]_registryVars,
                      NEW c \in Calls, verdict'[c] # verdict[c],
                      \A r \in Requests : ~ctxDone[r],
                      NEW d \in Calls \ {c}, ckey[d] = ckey[c], Slot!HoldsRepo(d)
               PROVE  FALSE
    OBVIOUS
  <2>1. InFlight(c)
    BY WhoTurnsBusy, HoldersInFlight
  <2>2. InFlight(d)
    BY HoldersInFlight DEF Slot!HoldsRepo
  <2> QED BY <2>1, <2>2 DEF SingleFlightWhilePatient
<1> QED
  BY <1>1, RegistryInvHolds, CoalescerWorks, Coalescing, PTL
     DEF RegistrySpec, NeverBusyByItself, CoalescerUnderSlots

-----------------------------------------------------------------------------
\* The composed system uses run() as run() allows.

LEMMA ContextStep ==
  ASSUME RegistryInv, NEW c \in Calls, shared' = [shared EXCEPT ![c] = TRUE],
         UNCHANGED <<contentCtx, slotVars>>
  PROVE  [Slot!Next]_(Slot!vars)
<1>1. c \in Commands
  BY DEF Commands
<1>2. ctxOf' = [ctxOf EXCEPT ![c] = TRUE]
  BY <1>1 DEF ctxOf, RegistryInv, TypeInv, TypeOK
<1>3. CASE ctxOf[c]
  <2>1. ctxOf' = ctxOf
    BY <1>1, <1>2, <1>3, ContextTyped DEF ctxOf, RegistryInv, TypeInv, TypeOK
  <2> QED BY <2>1 DEF slotVars, Slot!vars
<1>4. CASE ~ctxOf[c]
  <2>1. Slot!CancelCtx(c)
    BY <1>1, <1>2, <1>4 DEF Slot!CancelCtx, slotVars
  <2> QED BY <1>1, <2>1 DEF Slot!Next
<1> QED BY <1>3, <1>4

LEMMA RegistryIsSlots == RegistryInv /\ [RegistryNext]_registryVars => [Slot!Next]_(Slot!vars)
<1> SUFFICES ASSUME RegistryInv, [RegistryNext]_registryVars PROVE [Slot!Next]_(Slot!vars)
  OBVIOUS
<1>1. ASSUME UNCHANGED <<shared, contentCtx, slotVars>> PROVE [Slot!Next]_(Slot!vars)
  BY <1>1 DEF ctxOf, slotVars, Slot!vars
<1>2. ASSUME NEW r \in Requests, CallerStep(r) PROVE [Slot!Next]_(Slot!vars)
  <2>1. CASE GiveUp(r)
    <3>1. PICK c \in Calls : c = joined[r]
      BY <2>1 DEF GiveUp, Leave, RegistryInv, TypeInv, Placed
    <3>2. CASE shared' = [shared EXCEPT ![c] = TRUE]
      BY <1>2, <3>2, ContextStep DEF CallerStep
    <3>3. CASE shared' = [shared EXCEPT ![c] = @]
      <4>1. shared' = shared
        BY <3>3 DEF RegistryInv, TypeInv, TypeOK
      <4> QED BY <1>1, <1>2, <4>1 DEF CallerStep
    <3>4. shared' = [shared EXCEPT ![c] = @ \/ LastToLeave(c)]
      BY <2>1, <3>1 DEF GiveUp, Leave
    <3>5. LastToLeave(c) \in BOOLEAN
      BY DEF LastToLeave
    <3>6. shared' = [shared EXCEPT ![c] = TRUE] \/ shared' = [shared EXCEPT ![c] = @]
      BY <3>4, <3>5 DEF RegistryInv, TypeInv, TypeOK
    <3> QED BY <3>2, <3>3, <3>6
  <2>2. CASE ~GiveUp(r)
    BY <1>1, <1>2, <2>2 DEF CallerStep, callVars, Refuse, Arrive, ClientCancels, CacheGet,
       Join, JoinCounting, TakeResult
  <2> QED BY <2>1, <2>2
<1>3. ASSUME NEW r \in Requests, NEW c \in Calls, LeadAndRun(r, c) PROVE [Slot!Next]_(Slot!vars)
  BY <1>3, RepoOfAssumption DEF LeadAndRun, Lead, RegistryInv, TypeInv, Placed, Slot!Next, Commands
<1>4. ASSUME NEW x \in Commands, CommandGoesOn(x) PROVE [Slot!Next]_(Slot!vars)
  BY <1>4 DEF CommandGoesOn, SlotStep, CommandEnds, Slot!Next, Slot!RunStep
<1>5. ASSUME NEW c \in Calls, CommandReads(c) \/ Deliver(c) PROVE [Slot!Next]_(Slot!vars)
  BY <1>1, <1>5 DEF CommandReads, ReadRepository, Deliver, Returned
<1>6. ASSUME NEW c \in Calls, FinishCall(c) PROVE [Slot!Next]_(Slot!vars)
  <2>1. CASE Finish(c)
    BY <1>6, <2>1, ContextStep DEF FinishCall, Finish, FinishWith
  <2>2. CASE CachePut(c)
    BY <1>1, <1>6, <2>2 DEF FinishCall, CachePut
  <2> QED BY <1>6, <2>1, <2>2 DEF FinishCall
<1>7. ASSUME NEW x \in Contents, NEW p \in Repos, StartContent(x, p)
      PROVE  [Slot!Next]_(Slot!vars)
  BY <1>7 DEF StartContent, Slot!Next, Commands
<1>8. ASSUME NEW x \in Contents, ContentCancelled(x) PROVE [Slot!Next]_(Slot!vars)
  <2>1. x \in Commands /\ x \notin Calls /\ ~ctxOf[x]
    BY <1>8, ContentsAssumption DEF ContentCancelled, Commands, ctxOf
  <2>2. ctxOf' = [ctxOf EXCEPT ![x] = TRUE]
    <3>1. contentCtx' = [contentCtx EXCEPT ![x] = TRUE] /\ shared' = shared
      BY <1>8 DEF ContentCancelled, vars, callVars
    <3>2. contentCtx \in [Contents -> BOOLEAN]
      BY DEF RegistryInv, RunTyped
    <3>3. ctxOf' = [y \in Commands |-> IF y \in Calls THEN shared[y] ELSE contentCtx'[y]]
      BY <3>1 DEF ctxOf
    <3>4. \A y \in Commands \ Calls : contentCtx'[y] = IF y = x THEN TRUE ELSE contentCtx[y]
      BY <3>1, <3>2 DEF Commands
    <3> QED BY <2>1, <3>3, <3>4 DEF ctxOf
  <2>3. Slot!CancelCtx(x)
    BY <1>8, <2>1, <2>2 DEF ContentCancelled, Slot!CancelCtx, slotVars
  <2> QED BY <2>1, <2>3 DEF Slot!Next
<1>9. CASE Passes \/ UNCHANGED registryVars
  BY <1>1, <1>9 DEF Passes, Tick, registryVars, vars, callVars
<1> QED
  BY <1>2, <1>3, <1>4, <1>5, <1>6, <1>7, <1>8, <1>9 DEF RegistryNext, CallGoesOn

\* The lemmas about Slots, for this instance of it.
SlotProof == INSTANCE SlotsProofs WITH Runs <- Commands, ctx <- ctxOf

LEMMA SameInstance ==
  /\ Slot!Init <=> SlotProof!Init
  /\ [Slot!Next]_(Slot!vars) <=> [SlotProof!Next]_(SlotProof!vars)
  /\ SlotProof!SlotInv => Slot!SlotsExact
<1>1. Slot!Init <=> SlotProof!Init
  BY DEF Slot!Init, SlotProof!Init
<1>2. Slot!vars = SlotProof!vars /\ (Slot!vars)' = (SlotProof!vars)'
  BY DEF Slot!vars, SlotProof!vars
<1>3. \A r \in Commands, p \in Repos : Slot!Call(r, p) <=> SlotProof!Call(r, p)
  BY DEF Slot!Call, SlotProof!Call, Slot!Goto, SlotProof!Goto
<1>4. \A r \in Commands : Slot!CancelCtx(r) <=> SlotProof!CancelCtx(r)
  BY DEF Slot!CancelCtx, SlotProof!CancelCtx
<1>5. \A r \in Commands : Slot!RunStep(r) <=> SlotProof!RunStep(r)
  <2> TAKE r \in Commands
  <2>1. Slot!CheckCtx(r) <=> SlotProof!CheckCtx(r)
    BY DEF Slot!CheckCtx, SlotProof!CheckCtx, Slot!Goto, SlotProof!Goto, Slot!Answer,
       SlotProof!Answer
  <2>2. Slot!TakeRepoSlot(r) <=> SlotProof!TakeRepoSlot(r)
    BY DEF Slot!TakeRepoSlot, SlotProof!TakeRepoSlot, Slot!Goto, SlotProof!Goto
  <2>3. Slot!RejectAtRepo(r) <=> SlotProof!RejectAtRepo(r)
    BY DEF Slot!RejectAtRepo, SlotProof!RejectAtRepo, Slot!Goto, SlotProof!Goto,
       Slot!Rejection, SlotProof!Rejection, Slot!Answer, SlotProof!Answer
  <2>4. Slot!TakeGlobalSlot(r) <=> SlotProof!TakeGlobalSlot(r)
    BY DEF Slot!TakeGlobalSlot, SlotProof!TakeGlobalSlot, Slot!Goto, SlotProof!Goto
  <2>5. Slot!RejectAtGlobal(r) <=> SlotProof!RejectAtGlobal(r)
    BY DEF Slot!RejectAtGlobal, SlotProof!RejectAtGlobal, Slot!RejectAtGlobalTo,
       SlotProof!RejectAtGlobalTo, Slot!Goto, SlotProof!Goto, Slot!Rejection,
       SlotProof!Rejection, Slot!Answer, SlotProof!Answer
  <2>6. \A v : Slot!CommandEnds(r, v) <=> SlotProof!CommandEnds(r, v)
    BY DEF Slot!CommandEnds, SlotProof!CommandEnds, Slot!Goto, SlotProof!Goto, Slot!Answer,
       SlotProof!Answer
  <2>7. Slot!DropGlobalSlot(r) <=> SlotProof!DropGlobalSlot(r)
    BY DEF Slot!DropGlobalSlot, SlotProof!DropGlobalSlot, Slot!Goto, SlotProof!Goto
  <2>8. Slot!DropRepoSlot(r) <=> SlotProof!DropRepoSlot(r)
    BY DEF Slot!DropRepoSlot, SlotProof!DropRepoSlot, Slot!Goto, SlotProof!Goto
  <2> QED
    BY <2>1, <2>2, <2>3, <2>4, <2>5, <2>6, <2>7, <2>8 DEF Slot!RunStep, SlotProof!RunStep,
       Slot!CommandVerdicts, SlotProof!CommandVerdicts
<1>6. SlotProof!SlotInv => Slot!SlotsExact
  BY DEF SlotProof!SlotInv, SlotProof!SlotsExact, Slot!SlotsExact, SlotProof!RepoHolders,
     Slot!RepoHolders, SlotProof!GlobalHolders, Slot!GlobalHolders, SlotProof!HoldsRepo,
     Slot!HoldsRepo, SlotProof!HoldsGlobal, Slot!HoldsGlobal, Slot!Cardinality,
     SlotProof!Cardinality
<1>7. Slot!Next <=> SlotProof!Next
  BY <1>3, <1>4, <1>5 DEF Slot!Next, SlotProof!Next
<1> QED BY <1>1, <1>2, <1>6, <1>7

\* The slots stay exact in the composed system, whoever leaves whichever shared
\* call: each semaphore counts the commands that hold it.
THEOREM SlotsExactThroughCoalescer == RegistrySpec => []Slot!SlotsExact
<1>1. RegistryInit => Slot!Init
  BY DEF RegistryInit
<1>2. Slot!Init => SlotProof!SlotInv
  BY SameInstance, SlotProof!SlotInit, ContentsAssumption, SlotCapAssumption
     DEF SlotProof!IsFiniteSet, IsFiniteSet
<1>3. SlotProof!SlotInv /\ [Slot!Next]_(Slot!vars) => (SlotProof!SlotInv)'
  BY SameInstance, SlotProof!SlotNext, ContentsAssumption, SlotCapAssumption
     DEF SlotProof!IsFiniteSet, IsFiniteSet
<1>4. SlotProof!SlotInv => Slot!SlotsExact
  BY SameInstance
<1> QED BY <1>1, <1>2, <1>3, <1>4, RegistryIsSlots, RegistryInvHolds, PTL DEF RegistrySpec
=============================================================================
