----------------------------- MODULE SlotsProofs -----------------------------
(***************************************************************************)
(* Proofs about Slots, for any number of runs and any capacities.          *)
(***************************************************************************)
EXTENDS Slots, FiniteSetTheorems, TLAPS

-----------------------------------------------------------------------------
\* Counting the holders.

LEMMA HoldersFinite ==
  /\ \A S \in SUBSET Runs : IsFiniteSet(S) /\ Cardinality(S) \in Nat
  /\ GlobalHolders \in SUBSET Runs
  /\ \A p \in Repos : RepoHolders(p) \in SUBSET Runs
  BY RunsAssumption, FS_Subset, FS_CardinalityType DEF GlobalHolders, RepoHolders

\* What a step of one run does to the sets of holders depends only on where it
\* goes from and to.
LEMMA HoldersMove ==
  ASSUME TypeOK, NEW r \in Runs, pc[r] # "idle", NEW there, Goto(r, there), target' = target
  PROVE  /\ GlobalHolders' = IF there \in {"run", "dropGlobal"}
                             THEN GlobalHolders \cup {r} ELSE GlobalHolders \ {r}
         /\ \A p \in Repos :
              RepoHolders(p)' =
                IF target[r] = p /\ there \in {"global", "run", "dropGlobal", "dropRepo"}
                THEN RepoHolders(p) \cup {r} ELSE RepoHolders(p) \ {r}
  BY DEF TypeOK, Goto, GlobalHolders, RepoHolders, HoldsGlobal, HoldsRepo

-----------------------------------------------------------------------------
\* The inductive invariant: types, and semaphores that count their holders.

SlotInv == TypeOK /\ SlotsExact

LEMMA SlotInit == Init => SlotInv
<1> SUFFICES ASSUME Init PROVE SlotInv
  OBVIOUS
<1>1. GlobalHolders = {} /\ \A p \in Repos : RepoHolders(p) = {}
  BY DEF Init, GlobalHolders, RepoHolders, HoldsGlobal, HoldsRepo
<1>2. SlotsExact
  BY <1>1, FS_EmptySet DEF Init, SlotsExact
<1> QED BY <1>2, CapAssumption, RunsAssumption DEF Init, SlotInv, TypeOK, Verdicts

\* Steps that take or give back no slot.
LEMMA SlotUnmoved ==
  ASSUME SlotInv, NEW r \in Runs,
         \/ CheckCtx(r) \/ RejectAtRepo(r) \/ RejectAtGlobal(r)
         \/ \E v \in CommandVerdicts : CommandEnds(r, v)
  PROVE  SlotInv'
<1> USE DEF SlotInv
<1>1. TypeOK'
  BY DEF TypeOK, CheckCtx, RejectAtRepo, RejectAtGlobal, RejectAtGlobalTo, Rejection,
     CommandEnds, CommandVerdicts, Goto, Answer, Verdicts
<1>2. UNCHANGED <<target, repoSem, globalSem>>
  BY DEF CheckCtx, RejectAtRepo, RejectAtGlobal, RejectAtGlobalTo, CommandEnds, TypeOK
<1>3. PICK there : Goto(r, there) /\
        \/ pc[r] \in {"entry", "repo"} /\ there \in {"repo", "returned"}
        \/ pc[r] = "global" /\ there = "dropRepo"
        \/ pc[r] = "run" /\ there = "dropGlobal"
  BY DEF CheckCtx, RejectAtRepo, RejectAtGlobal, RejectAtGlobalTo, CommandEnds
<1>4. GlobalHolders' = GlobalHolders /\ \A p \in Repos : RepoHolders(p)' = RepoHolders(p)
  <2>1. GlobalHolders' = GlobalHolders
    BY <1>2, <1>3, HoldersMove DEF GlobalHolders, HoldsGlobal
  <2>2. ASSUME NEW p \in Repos PROVE RepoHolders(p)' = RepoHolders(p)
    BY <1>2, <1>3, HoldersMove DEF RepoHolders, HoldsRepo
  <2> QED BY <2>1, <2>2
<1> QED BY <1>1, <1>2, <1>4 DEF SlotsExact

LEMMA SlotTaken ==
  ASSUME SlotInv, NEW r \in Runs, TakeRepoSlot(r) \/ TakeGlobalSlot(r)
  PROVE  SlotInv'
<1> USE DEF SlotInv
<1>1. CASE TakeRepoSlot(r)
  <2>1. TypeOK'
    BY <1>1, CapAssumption DEF TypeOK, TakeRepoSlot, Goto
  <2>2. GlobalHolders' = GlobalHolders
    BY <1>1, HoldersMove DEF TakeRepoSlot, GlobalHolders, HoldsGlobal
  <2>3. ASSUME NEW p \in Repos PROVE repoSem'[p] = Cardinality(RepoHolders(p)')
    <3>1. r \notin RepoHolders(p)
      BY <1>1 DEF TakeRepoSlot, RepoHolders, HoldsRepo
    <3>2. RepoHolders(p)' = IF target[r] = p THEN RepoHolders(p) \cup {r}
                            ELSE RepoHolders(p) \ {r}
      BY <1>1, HoldersMove DEF TakeRepoSlot
    <3>3. Cardinality(RepoHolders(p) \cup {r}) = Cardinality(RepoHolders(p)) + 1
      BY <3>1, HoldersFinite, FS_AddElement
    <3>4. RepoHolders(p) \ {r} = RepoHolders(p)
      BY <3>1
    <3>5. repoSem'[p] = IF target[r] = p THEN repoSem[p] + 1 ELSE repoSem[p]
      BY <1>1 DEF TakeRepoSlot, TypeOK
    <3> QED BY <3>2, <3>3, <3>4, <3>5 DEF SlotsExact
  <2> QED BY <1>1, <2>1, <2>2, <2>3 DEF SlotsExact, TakeRepoSlot
<1>2. CASE TakeGlobalSlot(r)
  <2>1. TypeOK'
    BY <1>2, CapAssumption DEF TypeOK, TakeGlobalSlot, Goto
  <2>2. \A p \in Repos : RepoHolders(p)' = RepoHolders(p)
    BY <1>2, HoldersMove DEF TakeGlobalSlot, RepoHolders, HoldsRepo
  <2>3. r \notin GlobalHolders /\ GlobalHolders' = GlobalHolders \cup {r}
    BY <1>2, HoldersMove DEF TakeGlobalSlot, GlobalHolders, HoldsGlobal
  <2>4. Cardinality(GlobalHolders \cup {r}) = Cardinality(GlobalHolders) + 1
    BY <2>3, HoldersFinite, FS_AddElement
  <2> QED BY <1>2, <2>1, <2>2, <2>3, <2>4 DEF SlotsExact, TakeGlobalSlot
<1> QED BY <1>1, <1>2

LEMMA SlotDropped ==
  ASSUME SlotInv, NEW r \in Runs, DropRepoSlot(r) \/ DropGlobalSlot(r)
  PROVE  SlotInv'
<1> USE DEF SlotInv
<1>1. CASE DropRepoSlot(r)
  <2>1. TypeOK'
    BY <1>1, CapAssumption DEF TypeOK, DropRepoSlot, Goto
  <2>2. GlobalHolders' = GlobalHolders
    BY <1>1, HoldersMove DEF DropRepoSlot, GlobalHolders, HoldsGlobal
  <2>3. ASSUME NEW p \in Repos PROVE repoSem'[p] = Cardinality(RepoHolders(p)')
    <3>1. r \in RepoHolders(p) <=> target[r] = p
      BY <1>1 DEF DropRepoSlot, RepoHolders, HoldsRepo
    <3>2. RepoHolders(p)' = RepoHolders(p) \ {r}
      BY <1>1, HoldersMove DEF DropRepoSlot
    <3>3. Cardinality(RepoHolders(p) \ {r}) =
            IF r \in RepoHolders(p) THEN Cardinality(RepoHolders(p)) - 1
            ELSE Cardinality(RepoHolders(p))
      BY HoldersFinite, FS_RemoveElement
    <3>4. repoSem'[p] = IF target[r] = p THEN repoSem[p] - 1 ELSE repoSem[p]
      BY <1>1 DEF DropRepoSlot, TypeOK
    <3> QED BY <3>1, <3>2, <3>3, <3>4 DEF SlotsExact
  <2> QED BY <1>1, <2>1, <2>2, <2>3 DEF SlotsExact, DropRepoSlot
<1>2. CASE DropGlobalSlot(r)
  <2>1. TypeOK'
    BY <1>2, CapAssumption DEF TypeOK, DropGlobalSlot, Goto
  <2>2. \A p \in Repos : RepoHolders(p)' = RepoHolders(p)
    BY <1>2, HoldersMove DEF DropGlobalSlot, RepoHolders, HoldsRepo
  <2>3. r \in GlobalHolders /\ GlobalHolders' = GlobalHolders \ {r}
    BY <1>2, HoldersMove DEF DropGlobalSlot, GlobalHolders, HoldsGlobal
  <2>4. Cardinality(GlobalHolders \ {r}) = Cardinality(GlobalHolders) - 1
    BY <2>3, HoldersFinite, FS_RemoveElement
  <2> QED BY <1>2, <2>1, <2>2, <2>3, <2>4 DEF SlotsExact, DropGlobalSlot
<1> QED BY <1>1, <1>2

LEMMA SlotNext == SlotInv /\ [Next]_vars => SlotInv'
<1> SUFFICES ASSUME SlotInv, [Next]_vars PROVE SlotInv'
  OBVIOUS
<1>1. ASSUME UNCHANGED <<target, pc, repoSem, globalSem>>, TypeOK' PROVE SlotInv'
  BY <1>1 DEF SlotInv, SlotsExact, GlobalHolders, RepoHolders, HoldsGlobal, HoldsRepo
<1>2. ASSUME NEW r \in Runs, CancelCtx(r) PROVE SlotInv'
  BY <1>1, <1>2 DEF CancelCtx, SlotInv, TypeOK
<1>3. CASE UNCHANGED vars
  BY <1>1, <1>3 DEF vars, SlotInv, TypeOK
<1>4. ASSUME NEW r \in Runs, NEW p \in Repos, Call(r, p) PROVE SlotInv'
  <2>1. TypeOK'
    BY <1>4, RunsAssumption DEF Call, Goto, SlotInv, TypeOK
  <2>2. GlobalHolders' = GlobalHolders /\ \A q \in Repos : RepoHolders(q)' = RepoHolders(q)
    BY <1>4 DEF Call, Goto, SlotInv, TypeOK, GlobalHolders, RepoHolders, HoldsGlobal, HoldsRepo
  <2> QED BY <1>4, <2>1, <2>2 DEF Call, SlotInv, SlotsExact
<1> QED BY <1>2, <1>3, <1>4, SlotUnmoved, SlotTaken, SlotDropped DEF Next, RunStep

LEMMA SlotInvHolds == Spec => []SlotInv
<1> QED BY SlotInit, SlotNext, PTL DEF Spec

\* The semaphores stay within their capacities and every run in its states.
THEOREM Typing == Spec => []TypeOK
<1>1. SlotInv => TypeOK
  BY DEF SlotInv
<1> QED BY <1>1, SlotInvHolds, PTL

\* No slot is ever leaked or given back twice.
THEOREM NoLeak == Spec => []SlotsExact
<1>1. SlotInv => SlotsExact
  BY DEF SlotInv
<1> QED BY <1>1, SlotInvHolds, PTL

-----------------------------------------------------------------------------
\* Turning away.

\* Only the selects of run() answer "busy", each when its semaphore is full.
LEMMA WhoSaysBusy ==
  ASSUME TypeOK, [Next]_vars, NEW r \in Runs, verdict'[r] # verdict[r], verdict'[r] = "busy"
  PROVE  \/ pc[r] = "repo" /\ repoSem[target[r]] = RepoCap
         \/ pc[r] = "global" /\ globalSem = GlobalCap
<1>1. ASSUME NEW q \in Runs, (\E p \in Repos : Call(q, p)) \/ CancelCtx(q) \/ RunStep(q), q # r
      PROVE  verdict'[r] = verdict[r]
  BY <1>1 DEF Call, CancelCtx, RunStep, CheckCtx, TakeRepoSlot, RejectAtRepo, TakeGlobalSlot,
     RejectAtGlobal, RejectAtGlobalTo, Rejection, CommandEnds, DropGlobalSlot, DropRepoSlot,
     Answer, TypeOK
<1>2. (\E p \in Repos : Call(r, p)) \/ CancelCtx(r) \/ RunStep(r)
  BY <1>1 DEF Next, vars
<1> QED
  BY <1>2 DEF Call, CancelCtx, RunStep, CheckCtx, TakeRepoSlot, RejectAtRepo, TakeGlobalSlot,
     RejectAtGlobal, RejectAtGlobalTo, Rejection, CommandEnds, CommandVerdicts, DropGlobalSlot,
     DropRepoSlot, Answer, TypeOK

\* "busy" is only answered while other runs hold every slot.
THEOREM BusyIsDeserved == Spec => BusyBecauseOfOthers
<1>1. ASSUME SlotInv, [Next]_vars, NEW r \in Runs,
             verdict'[r] # verdict[r], verdict'[r] = "busy"
      PROVE  \/ Cardinality(RepoHolders(target[r]) \ {r}) = RepoCap
             \/ Cardinality(GlobalHolders \ {r}) = GlobalCap
  <2>1. \/ pc[r] = "repo" /\ repoSem[target[r]] = RepoCap
        \/ pc[r] = "global" /\ globalSem = GlobalCap
    BY <1>1, WhoSaysBusy DEF SlotInv
  <2>2. CASE pc[r] = "repo" /\ repoSem[target[r]] = RepoCap
    <3>1. RepoHolders(target[r]) \ {r} = RepoHolders(target[r])
      BY <2>2 DEF RepoHolders, HoldsRepo
    <3> QED BY <1>1, <2>2, <3>1 DEF SlotInv, TypeOK, SlotsExact
  <2>3. CASE pc[r] = "global" /\ globalSem = GlobalCap
    <3>1. GlobalHolders \ {r} = GlobalHolders
      BY <2>3 DEF GlobalHolders, HoldsGlobal
    <3> QED BY <1>1, <2>3, <3>1 DEF SlotInv, SlotsExact
  <2> QED BY <2>1, <2>2, <2>3
<1>2. SlotInv /\ [Next]_vars =>
        [\A r \in Runs : verdict'[r] # verdict[r] /\ verdict'[r] = "busy" =>
           \/ Cardinality(RepoHolders(target[r]) \ {r}) = RepoCap
           \/ Cardinality(GlobalHolders \ {r}) = GlobalCap]_vars
  BY <1>1
<1> QED BY <1>2, SlotInvHolds, PTL DEF Spec, BusyBecauseOfOthers

-----------------------------------------------------------------------------
\* The admission promise.

LEMMA PromiseInit == Init => Promise!Init
  BY DEF Init, Promise!Init, Executing, Answered

\* What is executing, altogether.
LEMMA ExecutingAll ==
  ASSUME TypeOK
  PROVE  Promise!Running = {r \in Runs : pc[r] = "run"}
  BY DEF Promise!Running, Executing, TypeOK

LEMMA ExecutingMove ==
  ASSUME TypeOK, NEW r \in Runs, pc[r] # "idle", NEW there, Goto(r, there), target' = target
  PROVE  /\ \A p \in Repos :
              Executing(p)' = IF there = "run" /\ target[r] = p THEN Executing(p) \cup {r}
                              ELSE Executing(p) \ {r}
         /\ Answered' = IF there \in {"dropGlobal", "dropRepo", "returned"}
                        THEN Answered \cup {r} ELSE Answered \ {r}
  BY DEF Goto, Executing, Answered, TypeOK

\* A run that gets its second slot fits under both caps.
LEMMA PromiseEnter ==
  ASSUME SlotInv, NEW r \in Runs, TakeGlobalSlot(r)
  PROVE  Promise!Enter(r, target[r])
<1> USE DEF SlotInv
<1>0. PICK p \in Repos : p = target[r]
  BY DEF TakeGlobalSlot, TypeOK
<1>1. r \notin Promise!Running \cup Answered
  BY ExecutingAll DEF TakeGlobalSlot, Answered
<1>2. /\ [q \in Repos |-> Executing(q)]' =
            [[q \in Repos |-> Executing(q)] EXCEPT ![p] = @ \cup {r}]
      /\ Answered' = Answered
  <2>1. pc[r] = "global" /\ Goto(r, "run") /\ target' = target
    BY DEF TakeGlobalSlot
  <2>2. \A q \in Repos : r \notin Executing(q)
    BY <2>1 DEF Executing
  <2>3. \A q \in Repos : Executing(q)' = IF q = p THEN Executing(q) \cup {r} ELSE Executing(q)
    <3>1. pc[r] # "idle"
      BY <2>1
    <3>2. \A q \in Repos : Executing(q)' = IF target[r] = q THEN Executing(q) \cup {r}
                                           ELSE Executing(q) \ {r}
      BY <2>1, <3>1, ExecutingMove
    <3>3. \A q \in Repos : Executing(q) \ {r} = Executing(q)
      BY <2>2
    <3> QED BY <1>0, <3>2, <3>3
  <2>4. Answered' = Answered
    BY <2>1 DEF Goto, Answered, TypeOK
  <2> QED BY <2>3, <2>4
<1>3. Cardinality(Promise!Running) < GlobalCap
  <2>1. Promise!Running \in SUBSET GlobalHolders
    BY ExecutingAll DEF GlobalHolders, HoldsGlobal
  <2>2. Cardinality(Promise!Running) <= Cardinality(GlobalHolders)
    BY <2>1, HoldersFinite, FS_Subset
  <2>3. Cardinality(Promise!Running) \in Nat
    BY <2>1, HoldersFinite
  <2> QED BY <2>2, <2>3, HoldersFinite, CapAssumption DEF TakeGlobalSlot, SlotsExact
<1>4. Cardinality(Executing(p)) < RepoCap
  <2>1. r \in RepoHolders(p)
    BY <1>0 DEF TakeGlobalSlot, RepoHolders, HoldsRepo
  <2>2. Executing(p) \in SUBSET (RepoHolders(p) \ {r})
    BY DEF Executing, RepoHolders, HoldsRepo, TakeGlobalSlot
  <2>3. /\ IsFiniteSet(RepoHolders(p) \ {r})
        /\ Cardinality(RepoHolders(p) \ {r}) = Cardinality(RepoHolders(p)) - 1
    BY <2>1, HoldersFinite, FS_RemoveElement
  <2>4. Cardinality(Executing(p)) <= Cardinality(RepoHolders(p)) - 1
    BY <2>2, <2>3, FS_Subset
  <2>5. Cardinality(Executing(p)) \in Nat /\ Cardinality(RepoHolders(p)) \in Nat
    BY <2>2, HoldersFinite
  <2>6. Cardinality(RepoHolders(p)) <= RepoCap
    BY DEF SlotsExact, TypeOK
  <2> QED BY <2>4, <2>5, <2>6, CapAssumption
<1>5. Promise!Enter(r, p)
  BY <1>1, <1>2, <1>3, <1>4 DEF Promise!Enter, Promise!Cardinality, Cardinality
<1> QED BY <1>0, <1>5

LEMMA PromiseStep ==
  ASSUME SlotInv, [Next]_vars
  PROVE  [Promise!Next]_Promise!vars
<1> USE DEF SlotInv
<1>1. ASSUME \A p \in Repos : Executing(p)' = Executing(p), Answered' = Answered
      PROVE  [Promise!Next]_Promise!vars
  BY <1>1 DEF Promise!vars
<1>2. ASSUME NEW r \in Runs, NEW p \in Repos, Call(r, p) PROVE [Promise!Next]_Promise!vars
  BY <1>1, <1>2 DEF Call, Goto, Executing, Answered, TypeOK
<1>3. ASSUME NEW r \in Runs,
             CancelCtx(r) \/ TakeRepoSlot(r) \/ DropGlobalSlot(r) \/ DropRepoSlot(r)
      PROVE  [Promise!Next]_Promise!vars
  BY <1>1, <1>3 DEF CancelCtx, TakeRepoSlot, DropGlobalSlot, DropRepoSlot, Goto,
     Executing, Answered, TypeOK
<1>4. ASSUME NEW r \in Runs, TakeGlobalSlot(r) PROVE [Promise!Next]_Promise!vars
  <2>1. target[r] \in Repos
    BY <1>4 DEF TakeGlobalSlot, TypeOK
  <2> QED BY <1>4, <2>1, PromiseEnter DEF Promise!Next
<1>5. ASSUME NEW r \in Runs, NEW v \in CommandVerdicts, CommandEnds(r, v)
      PROVE  [Promise!Next]_Promise!vars
  <2>1. PICK p \in Repos : p = target[r]
    BY <1>5 DEF CommandEnds, TypeOK
  <2>2. pc[r] = "run" /\ Goto(r, "dropGlobal") /\ target' = target
    BY <1>5 DEF CommandEnds
  <2>3. \A q \in Repos : q # p => r \notin Executing(q)
    BY <2>1 DEF Executing
  <2>4. /\ \A q \in Repos : Executing(q)' = IF q = p THEN Executing(q) \ {r} ELSE Executing(q)
        /\ Answered' = Answered \cup {r}
    BY <2>1, <2>2, <2>3, ExecutingMove
  <2>5. r \in Executing(p)
    BY <2>1, <2>2 DEF Executing
  <2>6. Promise!Leave(r, p)
    BY <2>4, <2>5 DEF Promise!Leave
  <2> QED BY <2>6 DEF Promise!Next
<1>6. ASSUME NEW r \in Runs, CheckCtx(r) \/ RejectAtRepo(r) \/ RejectAtGlobal(r)
      PROVE  [Promise!Next]_Promise!vars
  <2>1. CASE Goto(r, "repo")
    BY <1>1, <1>6, <2>1 DEF CheckCtx, RejectAtRepo, RejectAtGlobal, RejectAtGlobalTo, Goto,
       Executing, Answered, TypeOK
  <2>2. CASE Goto(r, "returned") \/ Goto(r, "dropRepo")
    <3>1. pc[r] \in {"entry", "repo", "global"} /\ target' = target
      BY <1>6 DEF CheckCtx, RejectAtRepo, RejectAtGlobal, RejectAtGlobalTo
    <3>2. r \notin Promise!Running \cup Answered
      BY <3>1, ExecutingAll DEF Answered
    <3>3. \A p \in Repos : r \notin Executing(p)
      BY <3>1 DEF Executing
    <3>4. Answered' = Answered \cup {r} /\ \A p \in Repos : Executing(p)' = Executing(p)
      BY <2>2, <3>1, <3>3, ExecutingMove
    <3> QED BY <3>2, <3>4 DEF Promise!Next, Promise!TurnAway
  <2> QED BY <1>6, <2>1, <2>2 DEF CheckCtx, RejectAtRepo, RejectAtGlobal, RejectAtGlobalTo
<1>7. CASE UNCHANGED vars
  BY <1>1, <1>7 DEF vars, Executing, Answered
<1> QED BY <1>2, <1>3, <1>4, <1>5, <1>6, <1>7 DEF Next, RunStep

\* run() keeps the admission promise: the caps hold for the commands that
\* execute, and every run is executed once or turned away.
THEOREM KeepsPromise == Spec => AdmissionPromise
<1>1. SlotInv /\ [Next]_vars => [Promise!Next]_Promise!vars
  BY PromiseStep
<1> QED BY <1>1, PromiseInit, SlotInvHolds, PTL DEF Spec, AdmissionPromise, Promise!Spec
=============================================================================
