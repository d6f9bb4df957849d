------------------------------ MODULE Registry ------------------------------
(***************************************************************************)
(* The registry as one system: the coalescer's leader goroutines call      *)
(* Registry.Run, so metadata commands compete for slots with one another   *)
(* and with the content commands (ls, find, stats) that handlers run       *)
(* directly.  The command of a call runs under the call's shared context,  *)
(* a content command under its request's own.                              *)
(*                                                                         *)
(* Metadata says what it needs of run(): this composition supplies it.     *)
(***************************************************************************)
EXTENDS Metadata

CONSTANTS
  Contents,   \* content commands
  Repos, NoRepo,
  RepoOf,     \* the repository a key names
  RepoCap, GlobalCap

Commands == Calls \cup Contents

ASSUME ContentsAssumption == /\ IsFiniteSet(Commands)
                             /\ Calls \cap Contents = {}
                             /\ NoRepo \notin Repos
ASSUME RepoOfAssumption == RepoOf \in [Keys -> Repos]
ASSUME SlotCapAssumption == RepoCap \in Nat \ {0} /\ GlobalCap \in Nat \ {0}

VARIABLES
  contentCtx,                                  \* a content request's context is done
  target, pc, verdict, repoSem, globalSem      \* run(), as in Slots

slotVars == <<target, pc, verdict, repoSem, globalSem>>
registryVars == <<vars, contentCtx, slotVars>>

\* The context each command runs under.
ctxOf == [x \in Commands |-> IF x \in Calls THEN shared[x] ELSE contentCtx[x]]
Slot == INSTANCE Slots WITH Runs <- Commands, ctx <- ctxOf

RegistryInit ==
  /\ Init
  /\ contentCtx = [x \in Contents |-> FALSE]
  /\ Slot!Init

-----------------------------------------------------------------------------
\* Calls are interchangeable until they are made: the next one is any that is left.
NextCall == CHOOSE c \in Calls : cstate[c] = "unused"

\* RunMetadata on its own: nothing reaches run().
CallerStep(r) ==
  /\ \/ Refuse(r)
     \/ \E k \in Keys : Arrive(r, k)
     \/ ClientCancels(r)
     \/ CacheGet(r)
     \/ Join(r)
     \/ TakeResult(r)
     \/ GiveUp(r)
  /\ UNCHANGED <<contentCtx, slotVars>>

\* The leader's goroutine calls run() for the repository of its key.
LeadAndRun(r, c) ==
  /\ Lead(r, c) /\ c = NextCall
  /\ UNCHANGED contentCtx
  /\ Slot!Call(c, RepoOf[rkey[r]])

\* run() before and after its command.
SlotStep(x) ==
  /\ UNCHANGED <<vars, contentCtx>>
  /\ \/ Slot!CheckCtx(x)
     \/ Slot!TakeRepoSlot(x)
     \/ Slot!RejectAtRepo(x)
     \/ Slot!TakeGlobalSlot(x)
     \/ Slot!RejectAtGlobal(x)
     \/ Slot!DropGlobalSlot(x)
     \/ Slot!DropRepoSlot(x)

\* The restic child of a call reads the repository while it has its slots.
CommandReads(c) ==
  /\ pc[c] = "run"
  /\ ReadRepository(c)
  /\ UNCHANGED <<contentCtx, slotVars>>

\* A `snapshots` command succeeds only if it read the repository.
CommandEnds(x, v) ==
  /\ UNCHANGED <<vars, contentCtx>>
  /\ x \in Calls /\ v = "ok" => cread[x] # Never
  /\ Slot!CommandEnds(x, v)

\* Slip: the result is delivered while the repository slot is still held.
DeliverEarly(c) ==
  /\ pc[c] \in {"dropRepo", "returned"}
  /\ Returned(c, verdict[c])
  /\ UNCHANGED <<contentCtx, slotVars>>

\* run() has returned to the leader's goroutine, its deferred receives done.
Deliver(c) ==
  /\ pc[c] = "returned"
  /\ Returned(c, verdict[c])
  /\ UNCHANGED <<contentCtx, slotVars>>

FinishCall(c) == (Finish(c) \/ CachePut(c)) /\ UNCHANGED <<contentCtx, slotVars>>

StartContent(x, p) == UNCHANGED <<vars, contentCtx>> /\ Slot!Call(x, p)

ContentCancelled(x) ==
  /\ pc[x] \notin {"idle", "returned"} /\ ~contentCtx[x]
  /\ contentCtx' = [contentCtx EXCEPT ![x] = TRUE]
  /\ UNCHANGED <<vars, slotVars>>

Passes == Tick /\ UNCHANGED <<contentCtx, slotVars>>

-----------------------------------------------------------------------------
\* What obliges a caller, a command and a call to go on.
CallerGoesOn(r) == \/ CallerStep(r) /\ rpc[r] \in {"lookup", "join", "wait"} /\ ctxDone' = ctxDone
                   \/ \E c \in Calls : LeadAndRun(r, c)
CommandGoesOn(x) == SlotStep(x) \/ \E v \in Slot!CommandVerdicts : CommandEnds(x, v)
CallGoesOn(c) == Deliver(c) \/ FinishCall(c)

RegistryNext ==
  \/ \E r \in Requests : CallerStep(r) \/ \E c \in Calls : LeadAndRun(r, c)
  \/ \E x \in Commands : CommandGoesOn(x)
  \/ \E c \in Calls : CommandReads(c) \/ CallGoesOn(c)
  \/ \E x \in Contents : ContentCancelled(x) \/ \E p \in Repos : StartContent(x, p)
  \/ Passes

RegistrySpec == RegistryInit /\ [][RegistryNext]_registryVars

\* The scheduler does not stop while a goroutine can go on, and the command
\* timeout ends every command.
RegistryFairSpec ==
  RegistrySpec /\ WF_registryVars(\/ \E r \in Requests : CallerGoesOn(r)
                                 \/ \E x \in Commands : CommandGoesOn(x)
                                 \/ \E c \in Calls : CallGoesOn(c))

-----------------------------------------------------------------------------
\* Properties.

\* run(), reached through the coalescer, is what the coalescer takes it to be: it
\* reports "cancelled" only of a call that was cancelled, whichever select turned
\* it away, and "ok" only after a read.
CoalescerUnderSlots == Spec

\* While no client gives up, identical metadata commands never stand in each
\* other's way: the slot that turns one away with "busy" is not held by
\* another command for the same key, even one about to finish (run returns its
\* slots before finish opens the key to the next leader).
NeverBusyByItself ==
  [][\A c \in Calls :
       verdict'[c] = "busy" /\ verdict[c] # "busy" /\ (\A r \in Requests : ~ctxDone[r]) =>
         \A d \in Calls \ {c} : ckey[d] = ckey[c] => ~Slot!HoldsRepo(d)]_registryVars

\* Whoever has been given a command's result can ask again at once: the slots of
\* a command whose result has been published are free.
AnsweredCommandsHoldNoSlot ==
  \A c \in Calls : Done(c) => ~Slot!HoldsRepo(c) /\ ~Slot!HoldsGlobal(c)

\* A command nobody waits for is on its way out: its context is cancelled, so
\* the only slots an abandoned call keeps are of a command told to stop.
SlotsServeSomeone ==
  \A c \in Calls : Slot!HoldsRepo(c) => shared[c] \/ Waiters(c) # {}

\* Every request that reached the coalescer is answered, though its command may
\* be refused a slot, cancelled or finished while others join and leave: no
\* caller is left behind for good (a request is made once).
EveryCallerAnswered == []<>(\A r \in Requests : rpc[r] \notin {"lookup", "join", "wait"})
=============================================================================
