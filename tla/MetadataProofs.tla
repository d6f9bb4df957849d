--------------------------- MODULE MetadataProofs ---------------------------
(***************************************************************************)
(* Proofs about Metadata, for any number of requests, keys and calls.      *)
(***************************************************************************)
EXTENDS Metadata, FiniteSetTheorems, TLAPS

-----------------------------------------------------------------------------
\* Types.

\* A request inside the coalescer has a key, and a waiting one a call; a call
\* that was started has the key of its leader.
Placed ==
  /\ \A r \in Requests : rpc[r] \in {"lookup", "join", "wait"} => rkey[r] \in Keys
  /\ \A r \in Requests : rpc[r] = "wait" => joined[r] \in Calls
  /\ \A c \in Calls : cstate[c] # "unused" => ckey[c] \in Keys

\* A success has read the repository, and only successes are on their way to
\* the cache.
SuccessesRead ==
  \A c \in Calls :
    /\ cstate[c] = "put" => outcome[c] = "ok"
    /\ cstate[c] \in {"returned", "put", "ended"} /\ outcome[c] = "ok" => cread[c] \in Nat

TypeInv == TypeOK /\ Placed /\ SuccessesRead

LEMMA TypeInit == Init => TypeInv
  BY DEF Init, TypeInv, TypeOK, Placed, SuccessesRead, NoReply, Reply, Never, Outcomes

LEMMA TypeRequest ==
  ASSUME TypeInv, NEW r \in Requests, RequestStep(r)
  PROVE  TypeInv'
<1> USE CallsAssumption DEF TypeInv, TypeOK, requestVars, callVars
<1>1. CASE Refuse(r)
  BY <1>1 DEF Refuse, Failure, Reply, Placed, SuccessesRead
<1>2. ASSUME NEW k \in Keys, Arrive(r, k) PROVE TypeInv'
  BY <1>2 DEF Arrive, Placed, SuccessesRead
<1>3. CASE ClientCancels(r)
  BY <1>3 DEF ClientCancels, Placed, SuccessesRead
<1>4. CASE CacheGet(r)
  <2>1. CASE TTL > 0 /\ rkey[r] \in FreshKeys
    BY <1>4, <2>1, SMTT(30) DEF CacheGet, FreshKeys, Entry, Reply, Placed, SuccessesRead
  <2>2. CASE ~(TTL > 0 /\ rkey[r] \in FreshKeys)
    BY <1>4, <2>2 DEF CacheGet, Restricted, Entry, Placed, SuccessesRead
  <2> QED BY <2>1, <2>2
<1>5. CASE Join(r)
  BY <1>5 DEF Join, JoinCounting, Placed, SuccessesRead
<1>6. ASSUME NEW c \in Calls, Lead(r, c) PROVE TypeInv'
  BY <1>6 DEF Lead, LeadNew, Placed, SuccessesRead
<1>7. CASE TakeResult(r)
  <2>1. joined[r] \in Calls
    BY <1>7 DEF TakeResult, Placed
  <2>2. reply' \in [Requests -> Reply]
    BY <1>7, <2>1 DEF TakeResult, Done, Failure, Reply, Outcomes, SuccessesRead
  <2> QED BY <1>7, <2>1, <2>2 DEF TakeResult, Placed, SuccessesRead
<1>8. CASE GiveUp(r)
  <2>1. joined[r] \in Calls
    BY <1>8 DEF GiveUp, Leave, Placed
  <2>2. reply' \in [Requests -> Reply]
    BY <1>8 DEF GiveUp, Leave, Failure, Reply
  <2>3. shared' \in [Calls -> BOOLEAN]
    BY <1>8, <2>1 DEF GiveUp, Leave, LastToLeave
  <2>4. calls' \in [Keys -> Calls \cup {NoCall}]
    BY <1>8 DEF GiveUp, Leave
  <2>5. Placed' /\ SuccessesRead'
    BY <1>8 DEF GiveUp, Leave, Placed, SuccessesRead
  <2> QED BY <1>8, <2>1, <2>2, <2>3, <2>4, <2>5 DEF GiveUp, Leave
<1> QED
  BY <1>1, <1>2, <1>3, <1>4, <1>5, <1>6, <1>7, <1>8 DEF RequestStep

LEMMA TypeCall ==
  ASSUME TypeInv, NEW c \in Calls, CallStep(c)
  PROVE  TypeInv'
<1> USE CallsAssumption DEF TypeInv, TypeOK, requestVars, callVars
<1>1. CASE ReadRepository(c)
  BY <1>1 DEF ReadRepository, Placed, SuccessesRead
<1>2. ASSUME NEW out \in Outcomes, RunReturns(c, out) PROVE TypeInv'
  BY <1>2 DEF RunReturns, Returned, Outcomes, Never, Placed, SuccessesRead
<1>3. CASE Finish(c)
  BY <1>3 DEF Finish, FinishWith, Placed, SuccessesRead
<1>4. CASE CachePut(c)
  <2>1. ckey[c] \in Keys /\ cread[c] \in Nat
    BY <1>4 DEF CachePut, Placed, SuccessesRead
  <2>2. DOMAIN cache' \subseteq Keys /\ \A k \in DOMAIN cache' : cache'[k] \in Entry
    <3>1. CASE TTL = 0
      BY <1>4, <3>1 DEF CachePut
    <3>2. CASE TTL # 0
      <4>1. PICK keep \in Survivors :
              cache' = [k \in keep \cup {ckey[c]} |->
                         IF k = ckey[c] THEN [asOf |-> cread[c], observed |-> clock]
                         ELSE cache[k]]
        BY <1>4, <3>2 DEF CachePut
      <4>2. keep \subseteq DOMAIN cache
        BY DEF Survivors, NewestFresh, FreshKeys
      <4> QED BY <2>1, <4>1, <4>2 DEF Entry
    <3> QED BY <3>1, <3>2
  <2> QED BY <1>4, <2>1, <2>2 DEF CachePut, Placed, SuccessesRead
<1> QED
  BY <1>1, <1>2, <1>3, <1>4 DEF CallStep

LEMMA TypeNext == TypeInv /\ [Next]_vars => TypeInv'
<1> SUFFICES ASSUME TypeInv, [Next]_vars PROVE TypeInv'
  OBVIOUS
<1>1. CASE Tick
  BY <1>1 DEF Tick, TypeInv, TypeOK, Placed, SuccessesRead, requestVars, callVars
<1>2. CASE UNCHANGED vars
  BY <1>2 DEF vars, TypeInv, TypeOK, Placed, SuccessesRead
<1> QED BY <1>1, <1>2, TypeRequest, TypeCall DEF Next

\* Every variable of the coalescer and of its callers keeps its type, and what
\* the cache holds always carries the instant of an actual read.
THEOREM Typing == Spec => [](TypeOK /\ SuccessesRead)
<1>1. TypeInv => TypeOK /\ SuccessesRead
  BY DEF TypeInv
<1> QED BY <1>1, TypeInit, TypeNext, PTL DEF Spec

-----------------------------------------------------------------------------
\* Waiting callers are counted one by one.

LEMMA WaitersFinite ==
  \A c : IsFiniteSet(Waiters(c)) /\ Cardinality(Waiters(c)) \in Nat
<1> TAKE c
<1>1. Waiters(c) \in SUBSET Requests
  BY DEF Waiters
<1> QED BY <1>1, RequestsAssumption, FS_Subset, FS_CardinalityType

LEMMA WaiterArrives ==
  ASSUME TypeInv, NEW r \in Requests, NEW c \in Calls, rpc[r] # "wait",
         rpc' = [rpc EXCEPT ![r] = "wait"], joined' = [joined EXCEPT ![r] = c]
  PROVE  \A d \in Calls :
           /\ Waiters(d)' = IF d = c THEN Waiters(d) \cup {r} ELSE Waiters(d)
           /\ Cardinality(Waiters(d))' = Cardinality(Waiters(d)) + (IF d = c THEN 1 ELSE 0)
<1> TAKE d \in Calls
<1>1. Waiters(d)' = IF d = c THEN Waiters(d) \cup {r} ELSE Waiters(d)
  BY DEF Waiters, TypeInv, TypeOK
<1>2. r \notin Waiters(d)
  BY DEF Waiters
<1>3. Cardinality(Waiters(d) \cup {r}) = Cardinality(Waiters(d)) + 1
  BY <1>2, WaitersFinite, FS_AddElement
<1> QED BY <1>1, <1>3, WaitersFinite

LEMMA WaiterLeaves ==
  ASSUME TypeInv, NEW r \in Requests, rpc[r] = "wait",
         rpc' = [rpc EXCEPT ![r] = "done"], joined' = joined
  PROVE  \A d \in Calls :
           /\ Waiters(d)' = IF d = joined[r] THEN Waiters(d) \ {r} ELSE Waiters(d)
           /\ Cardinality(Waiters(d))' =
                Cardinality(Waiters(d)) - (IF d = joined[r] THEN 1 ELSE 0)
<1> TAKE d \in Calls
<1>1. Waiters(d)' = IF d = joined[r] THEN Waiters(d) \ {r} ELSE Waiters(d)
  BY DEF Waiters, TypeInv, TypeOK
<1>2. d = joined[r] => r \in Waiters(d)
  BY DEF Waiters
<1>3. d = joined[r] => Cardinality(Waiters(d) \ {r}) = Cardinality(Waiters(d)) - 1
  BY <1>2, WaitersFinite, FS_RemoveElement
<1> QED BY <1>1, <1>3, WaitersFinite

LEMMA WaitersStay ==
  ASSUME TypeInv, joined' = joined,
         \/ rpc' = rpc
         \/ \E r \in Requests : \E x : rpc[r] # "wait" /\ x # "wait" /\ rpc' = [rpc EXCEPT ![r] = x]
  PROVE  \A c : Waiters(c)' = Waiters(c)
BY DEF Waiters, TypeInv, TypeOK

-----------------------------------------------------------------------------
\* The sharing of calls.

\* A command's context is cancelled exactly when nobody waits for it.
CancelledIffAbandoned ==
  \A c \in Calls : InFlight(c) => (shared[c] <=> Waiters(c) = {})

\* A call nobody has started has no waiters, and one that ended "cancelled"
\* has none either: only an abandoned command ends that way.
NobodyWaitsInVain ==
  \A c \in Calls :
    /\ cstate[c] = "unused" => Waiters(c) = {} /\ ~shared[c]
    /\ ~(cstate[c] \in {"unused", "running"}) /\ outcome[c] = "cancelled" => Waiters(c) = {}

\* A caller waits on a call for its own key.
WaitsOnOwnKey ==
  \A r \in Requests : rpc[r] = "wait" => ckey[joined[r]] = rkey[r]

SharingInv ==
  /\ TypeInv
  /\ RefsCountWaiters
  /\ TableOffersLiveCalls
  /\ CancelledIffAbandoned
  /\ NobodyWaitsInVain
  /\ WaitsOnOwnKey
  /\ CancelledMeansOwnContext

LEMMA SharingInit == Init => SharingInv
<1> SUFFICES ASSUME Init PROVE SharingInv
  OBVIOUS
<1>1. \A c : Waiters(c) = {}
  BY DEF Init, Waiters
<1> QED
  BY <1>1, TypeInit, FS_EmptySet DEF Init, SharingInv, RefsCountWaiters, TableOffersLiveCalls,
     CancelledIffAbandoned, NobodyWaitsInVain, WaitsOnOwnKey, CancelledMeansOwnContext,
     InFlight, NoReply

\* Steps of a caller that does not wait, before or after.
LEMMA SharingElsewhere ==
  ASSUME SharingInv, NEW r \in Requests,
         \/ Refuse(r) \/ ClientCancels(r) \/ CacheGet(r) \/ \E k \in Keys : Arrive(r, k)
  PROVE  SharingInv'
<1> USE DEF SharingInv
<1>1. TypeInv'
  BY TypeRequest DEF RequestStep
<1>2. UNCHANGED <<joined, calls, cstate, ckey, refs, shared, outcome>>
  BY DEF Refuse, ClientCancels, CacheGet, Arrive, callVars
<1>3. \A c : Waiters(c)' = Waiters(c)
  BY <1>2, WaitersStay DEF Refuse, ClientCancels, CacheGet, Arrive
<1>4. \A q \in Requests : rpc'[q] = "wait" => rpc[q] = "wait" /\ rkey'[q] = rkey[q]
  BY DEF Refuse, ClientCancels, CacheGet, Arrive, TypeInv, TypeOK
<1>5. CancelledMeansOwnContext'
  BY DEF Refuse, ClientCancels, CacheGet, Arrive, TypeInv, TypeOK, CancelledMeansOwnContext, Failure
<1> QED
  BY <1>1, <1>2, <1>3, <1>4, <1>5 DEF RefsCountWaiters, TableOffersLiveCalls,
     CancelledIffAbandoned, NobodyWaitsInVain, WaitsOnOwnKey, InFlight

LEMMA SharingJoin ==
  ASSUME SharingInv, NEW r \in Requests, Join(r)
  PROVE  SharingInv'
<1> USE DEF SharingInv
<1>0. PICK c \in Calls : c = calls[rkey[r]]
  BY DEF Join, JoinCounting, TypeInv, Placed, TypeOK
<1>1. TypeInv'
  BY TypeRequest DEF RequestStep
<1>2. /\ rkey[r] \in Keys /\ c = calls[rkey[r]]
      /\ ckey[c] = rkey[r] /\ InFlight(c) /\ ~shared[c]
  BY <1>0 DEF Join, JoinCounting, TypeInv, Placed, TypeOK, TableOffersLiveCalls
<1>3. \A d \in Calls :
        /\ Waiters(d)' = IF d = c THEN Waiters(d) \cup {r} ELSE Waiters(d)
        /\ Cardinality(Waiters(d))' = Cardinality(Waiters(d)) + (IF d = c THEN 1 ELSE 0)
  BY <1>2, WaiterArrives DEF Join, JoinCounting
<1>4. RefsCountWaiters'
  BY <1>2, <1>3, WaitersFinite DEF Join, JoinCounting, RefsCountWaiters, TypeInv, TypeOK
<1>5. ~(outcome[c] = "cancelled" /\ cstate[c] = "returned")
  BY <1>2 DEF NobodyWaitsInVain, CancelledIffAbandoned, InFlight
<1>6. TableOffersLiveCalls' /\ CancelledIffAbandoned' /\ NobodyWaitsInVain'
  BY <1>2, <1>3, <1>5 DEF Join, JoinCounting, InFlight,
     TableOffersLiveCalls, CancelledIffAbandoned, NobodyWaitsInVain, TypeInv, TypeOK
<1>7. WaitsOnOwnKey' /\ CancelledMeansOwnContext'
  BY <1>2 DEF Join, JoinCounting, WaitsOnOwnKey, CancelledMeansOwnContext, TypeInv, TypeOK
<1> QED BY <1>1, <1>4, <1>6, <1>7

LEMMA SharingLead ==
  ASSUME SharingInv, NEW r \in Requests, NEW c \in Calls, Lead(r, c)
  PROVE  SharingInv'
<1> USE DEF SharingInv
<1>1. TypeInv'
  BY TypeRequest DEF RequestStep
<1>2. rkey[r] \in Keys /\ calls[rkey[r]] = NoCall /\ cstate[c] = "unused"
      /\ Waiters(c) = {} /\ ~shared[c]
  BY DEF Lead, LeadNew, TypeInv, Placed, NobodyWaitsInVain
<1>3. \A d \in Calls :
        /\ Waiters(d)' = IF d = c THEN Waiters(d) \cup {r} ELSE Waiters(d)
        /\ Cardinality(Waiters(d))' = Cardinality(Waiters(d)) + (IF d = c THEN 1 ELSE 0)
  BY WaiterArrives DEF Lead, LeadNew
<1>4. Cardinality(Waiters(c)) = 0
  BY <1>2, FS_EmptySet
<1>5. RefsCountWaiters'
  <2>1. refs' = [refs EXCEPT ![c] = 1]
    BY DEF Lead, LeadNew
  <2> QED BY <1>3, <1>4, <2>1 DEF RefsCountWaiters, TypeInv, TypeOK
<1>6. TableOffersLiveCalls'
  <2> SUFFICES ASSUME NEW k \in Keys, NEW d \in Calls, calls'[k] = d
               PROVE  ckey'[d] = k /\ InFlight(d)' /\ ~shared'[d] /\ Waiters(d)' # {}
    BY <1>1 DEF TableOffersLiveCalls, InFlight, Waiters, TypeInv, TypeOK
  <2>1. CASE k = rkey[r]
    BY <1>2, <1>3, <2>1 DEF Lead, LeadNew, InFlight, TypeInv, TypeOK
  <2>2. CASE k # rkey[r]
    <3>1. calls[k] = d
      BY <2>2 DEF Lead, LeadNew, TypeInv, TypeOK
    <3>2. ckey[d] = k /\ InFlight(d) /\ ~shared[d] /\ Waiters(d) # {}
      BY <3>1, CallsAssumption DEF TableOffersLiveCalls
    <3>3. d # c
      BY <1>2, <3>2
    <3> QED BY <1>3, <3>2, <3>3 DEF Lead, LeadNew, InFlight, TypeInv, TypeOK
  <2> QED BY <2>1, <2>2
<1>7. CancelledIffAbandoned' /\ NobodyWaitsInVain'
  BY <1>2, <1>3, ZenonT(60) DEF Lead, LeadNew, InFlight, CancelledIffAbandoned, NobodyWaitsInVain,
     TypeInv, TypeOK
<1>8. \A q \in Requests : rpc[q] = "wait" => joined[q] # c
  BY <1>2 DEF Waiters
<1>9. WaitsOnOwnKey' /\ CancelledMeansOwnContext'
  BY <1>2, <1>8 DEF Lead, LeadNew, WaitsOnOwnKey, CancelledMeansOwnContext, TypeInv, TypeOK
<1> QED BY <1>1, <1>5, <1>6, <1>7, <1>9

LEMMA SharingTakeResult ==
  ASSUME SharingInv, NEW r \in Requests, TakeResult(r)
  PROVE  SharingInv'
<1> USE DEF SharingInv
<1>0. PICK c \in Calls : c = joined[r]
  BY DEF TakeResult, TypeInv, Placed
<1>1. TypeInv'
  BY TypeRequest DEF RequestStep
<1>2. c = joined[r] /\ Done(c) /\ r \in Waiters(c) /\ ~InFlight(c)
  BY <1>0 DEF TakeResult, Waiters, Done, InFlight
<1>3. \A d \in Calls :
        /\ Waiters(d)' = IF d = c THEN Waiters(d) \ {r} ELSE Waiters(d)
        /\ Cardinality(Waiters(d))' = Cardinality(Waiters(d)) - (IF d = c THEN 1 ELSE 0)
  BY <1>0, WaiterLeaves DEF TakeResult
<1>4. RefsCountWaiters'
  BY <1>2, <1>3, WaitersFinite DEF TakeResult, RefsCountWaiters, TypeInv, TypeOK
<1>5. TableOffersLiveCalls' /\ CancelledIffAbandoned'
  BY <1>2, <1>3 DEF TakeResult, InFlight, TableOffersLiveCalls, CancelledIffAbandoned,
     TypeInv, TypeOK
<1>6. NobodyWaitsInVain' /\ WaitsOnOwnKey'
  BY <1>2, <1>3 DEF TakeResult, NobodyWaitsInVain, WaitsOnOwnKey, TypeInv, TypeOK
<1>7. outcome[c] # "cancelled"
  BY <1>2 DEF NobodyWaitsInVain, Done
<1>8. CancelledMeansOwnContext'
  BY <1>2, <1>7 DEF TakeResult, CancelledMeansOwnContext, Failure, TypeInv, TypeOK
<1> QED BY <1>1, <1>4, <1>5, <1>6, <1>8

LEMMA SharingGiveUp ==
  ASSUME SharingInv, NEW r \in Requests, GiveUp(r)
  PROVE  SharingInv'
<1> USE DEF SharingInv
<1>0. PICK c \in Calls : c = joined[r]
  BY DEF GiveUp, Leave, TypeInv, Placed
<1> DEFINE last == LastToLeave(c)
<1>1. TypeInv'
  BY TypeRequest DEF RequestStep
<1>2. r \in Waiters(c) /\ ckey[c] = rkey[r] /\ rkey[r] \in Keys
  BY <1>0 DEF GiveUp, Leave, TypeInv, Placed, Waiters, WaitsOnOwnKey
<1>3. \A d \in Calls :
        /\ Waiters(d)' = IF d = c THEN Waiters(d) \ {r} ELSE Waiters(d)
        /\ Cardinality(Waiters(d))' = Cardinality(Waiters(d)) - (IF d = c THEN 1 ELSE 0)
  BY <1>0, WaiterLeaves DEF GiveUp, Leave
<1>4. RefsCountWaiters'
  BY <1>0, <1>3, WaitersFinite DEF GiveUp, Leave, RefsCountWaiters, TypeInv, TypeOK
<1>5. refs[c] <= 1 <=> Waiters(c)' = {}
  <2>1. refs[c] = Cardinality(Waiters(c))
    BY <1>2 DEF RefsCountWaiters
  <2>2. Cardinality(Waiters(c) \ {r}) = Cardinality(Waiters(c)) - 1
    BY <1>2, WaitersFinite, FS_RemoveElement
  <2>3. IsFiniteSet(Waiters(c) \ {r}) /\ Cardinality(Waiters(c) \ {r}) \in Nat
    BY WaitersFinite, FS_RemoveElement, FS_CardinalityType
  <2>4. Cardinality(Waiters(c) \ {r}) = 0 <=> Waiters(c) \ {r} = {}
    BY <2>3, FS_EmptySet
  <2> QED BY <1>2, <1>3, <2>1, <2>2, <2>3, <2>4, WaitersFinite
<1>6. InFlight(c) => (last <=> Waiters(c)' = {})
  BY <1>5 DEF LastToLeave, InFlight, Done
<1>7. UNCHANGED <<cstate, ckey, outcome>> /\ \A d : InFlight(d)' = InFlight(d)
  BY DEF GiveUp, Leave, InFlight
<1>8. shared' = [shared EXCEPT ![c] = @ \/ last]
      /\ calls' = IF last /\ calls[ckey[c]] = c
                  THEN [calls EXCEPT ![ckey[c]] = NoCall] ELSE calls
  BY <1>0 DEF GiveUp, Leave
<1>9. InFlight(c) => ~shared[c]
  BY <1>2 DEF CancelledIffAbandoned
<1>10. shared'[c] = (shared[c] \/ last) /\ \A d \in Calls : d # c => shared'[d] = shared[d]
  BY <1>2, <1>8 DEF TypeInv, TypeOK
<1>11. CancelledIffAbandoned'
  BY <1>2, <1>3, <1>6, <1>7, <1>9, <1>10 DEF CancelledIffAbandoned
<1>12. TableOffersLiveCalls'
  <2> SUFFICES ASSUME NEW k \in Keys, NEW d \in Calls, calls'[k] = d
               PROVE  ckey'[d] = k /\ InFlight(d)' /\ ~shared'[d] /\ Waiters(d)' # {}
    BY <1>1 DEF TableOffersLiveCalls, InFlight, Waiters, TypeInv, TypeOK
  <2>1. calls[k] = d
    BY <1>8, CallsAssumption DEF TypeInv, TypeOK
  <2>2. ckey[d] = k /\ InFlight(d) /\ ~shared[d] /\ Waiters(d) # {}
    BY <2>1, CallsAssumption DEF TableOffersLiveCalls
  <2>3. CASE d # c
    BY <1>3, <1>7, <1>10, <2>2, <2>3
  <2>4. CASE d = c
    <3>1. ~last
      BY <1>2, <1>8, <2>1, <2>2, <2>4, CallsAssumption DEF TypeInv, TypeOK
    <3>2. ~shared'[d]
      BY <1>10, <2>2, <2>4, <3>1
    <3>3. Waiters(d)' # {}
      BY <1>6, <2>2, <2>4, <3>1
    <3>4. ckey'[d] = k /\ InFlight(d)'
      BY <1>7, <2>2
    <3> QED BY <3>2, <3>3, <3>4
  <2> QED BY <2>3, <2>4
<1>13. NobodyWaitsInVain'
  BY <1>2, <1>3, <1>7, <1>10 DEF NobodyWaitsInVain
<1>14. WaitsOnOwnKey' /\ CancelledMeansOwnContext'
  BY DEF GiveUp, Leave, WaitsOnOwnKey, CancelledMeansOwnContext, Failure, TypeInv, TypeOK
<1> QED BY <1>1, <1>4, <1>11, <1>12, <1>13, <1>14

\* Steps of a call's goroutine leave the callers alone.
LEMMA SharingCall ==
  ASSUME SharingInv, NEW c \in Calls, CallStep(c)
  PROVE  SharingInv'
<1> USE DEF SharingInv
<1>1. TypeInv'
  BY TypeCall
<1>2. UNCHANGED <<rpc, rkey, ctxDone, joined, reply, ckey, refs>>
  BY DEF CallStep, ReadRepository, RunReturns, Returned, Finish, FinishWith, CachePut, requestVars
<1>3. \A d : Waiters(d)' = Waiters(d)
  BY <1>2 DEF Waiters
<1>4. RefsCountWaiters' /\ WaitsOnOwnKey' /\ CancelledMeansOwnContext'
  BY <1>2, <1>3 DEF RefsCountWaiters, WaitsOnOwnKey, CancelledMeansOwnContext
<1>5. TableOffersLiveCalls' /\ CancelledIffAbandoned' /\ NobodyWaitsInVain'
  <2> USE DEF TableOffersLiveCalls, CancelledIffAbandoned, NobodyWaitsInVain, InFlight,
              TypeInv, TypeOK, Placed
  <2>1. CASE ReadRepository(c)
    BY <1>2, <1>3, <2>1 DEF ReadRepository
  <2>2. ASSUME NEW out \in Outcomes, RunReturns(c, out)
        PROVE  TableOffersLiveCalls' /\ CancelledIffAbandoned' /\ NobodyWaitsInVain'
    BY <1>2, <1>3, <2>2 DEF RunReturns, Returned
  <2>3. CASE Finish(c)
    BY <1>2, <1>3, <2>3, SMTT(30) DEF Finish, FinishWith
  <2>4. CASE CachePut(c)
    BY <1>2, <1>3, <2>4 DEF CachePut
  <2> QED BY <2>1, <2>2, <2>3, <2>4 DEF CallStep
<1> QED BY <1>1, <1>4, <1>5

LEMMA SharingNext == SharingInv /\ [Next]_vars => SharingInv'
<1> SUFFICES ASSUME SharingInv, [Next]_vars PROVE SharingInv'
  OBVIOUS
<1>1. ASSUME NEW r \in Requests, RequestStep(r) PROVE SharingInv'
  BY <1>1, SharingElsewhere, SharingJoin, SharingLead, SharingTakeResult, SharingGiveUp
     DEF RequestStep
<1>2. CASE Tick \/ UNCHANGED vars
  <2>1. UNCHANGED <<requestVars, callVars>>
    BY <1>2 DEF Tick, vars, requestVars, callVars
  <2>2. TypeInv'
    BY <1>2, TypeNext DEF SharingInv, Next
  <2>3. \A c : Waiters(c)' = Waiters(c)
    BY <2>1 DEF Waiters, requestVars
  <2> QED
    BY <2>1, <2>2, <2>3 DEF requestVars, callVars, SharingInv, RefsCountWaiters,
       TableOffersLiveCalls, CancelledIffAbandoned, NobodyWaitsInVain, WaitsOnOwnKey,
       CancelledMeansOwnContext, InFlight
<1> QED BY <1>1, <1>2, SharingCall DEF Next

LEMMA SharingHolds == Spec => []SharingInv
<1> QED BY SharingInit, SharingNext, PTL DEF Spec

\* release and join keep the reference count equal to the number of callers
\* inside the select, whatever the order in which they come and go.
THEOREM RefsAreExact == Spec => []RefsCountWaiters
<1>1. SharingInv => RefsCountWaiters
  BY DEF SharingInv
<1> QED BY <1>1, SharingHolds, PTL

\* Nobody waits on a command that somebody else's departure cancelled.
THEOREM Isolation == Spec => []CancellationIsolated
<1>1. SharingInv => CancellationIsolated
  BY DEF SharingInv, CancelledIffAbandoned, CancellationIsolated
<1> QED BY <1>1, SharingHolds, PTL

\* A command that everybody left has been told to stop.
THEOREM NoZombies == Spec => []AbandonedCommandsAreCancelled
<1>1. SharingInv => AbandonedCommandsAreCancelled
  BY DEF SharingInv, CancelledIffAbandoned, AbandonedCommandsAreCancelled
<1> QED BY <1>1, SharingHolds, PTL

\* "cancelled" is only ever answered to a caller whose own context is done.
THEOREM CancelledIsOwn == Spec => []CancelledMeansOwnContext
<1>1. SharingInv => CancelledMeansOwnContext
  BY DEF SharingInv
<1> QED BY <1>1, SharingHolds, PTL

\* What the table of calls offers a newcomer is a live command for its key.
THEOREM TableIsLive == Spec => []TableOffersLiveCalls
<1>1. SharingInv => TableOffersLiveCalls
  BY DEF SharingInv
<1> QED BY <1>1, SharingHolds, PTL

-----------------------------------------------------------------------------
\* Coalescing.

\* Without a departure, every command in flight is in the table.
InFlightIsRegistered ==
  (\A r \in Requests : ~ctxDone[r]) =>
    \A c \in Calls : InFlight(c) => calls[ckey[c]] = c

CoalescingInv == SharingInv /\ InFlightIsRegistered

LEMMA CoalescingInit == Init => CoalescingInv
  BY SharingInit DEF Init, CoalescingInv, InFlightIsRegistered, InFlight

LEMMA CoalescingNext == CoalescingInv /\ [Next]_vars => CoalescingInv'
<1> SUFFICES ASSUME CoalescingInv, [Next]_vars, \A r \in Requests : ~ctxDone'[r]
             PROVE  \A c \in Calls : InFlight(c)' => calls'[ckey'[c]] = c
  BY SharingNext DEF CoalescingInv, InFlightIsRegistered, InFlight
<1> USE CallsAssumption
    DEF CoalescingInv, SharingInv, TypeInv, TypeOK, Placed, InFlight, requestVars, callVars
<1>1. \A r \in Requests : ~ctxDone[r]
  <2>1. \A r \in Requests : ctxDone[r] => ctxDone'[r]
    BY ZenonT(60) DEF Next, vars, RequestStep, CallStep, Refuse, Arrive, ClientCancels, CacheGet, Join,
       JoinCounting, Lead, LeadNew, TakeResult, GiveUp, Leave, ReadRepository, RunReturns, Returned,
       Finish, FinishWith, CachePut, Tick
  <2> QED BY <2>1
<1>2. \A c \in Calls : InFlight(c) => calls[ckey[c]] = c
  BY <1>1 DEF InFlightIsRegistered
<1>3. ASSUME NEW r \in Requests, NEW d \in Calls, Lead(r, d)
      PROVE  \A c \in Calls : InFlight(c)' => calls'[ckey'[c]] = c
  BY <1>2, <1>3 DEF Lead, LeadNew
<1>4. ASSUME NEW d \in Calls, Finish(d)
      PROVE  \A c \in Calls : InFlight(c)' => calls'[ckey'[c]] = c
  BY <1>2, <1>4 DEF Finish, FinishWith
<1>5. ASSUME NEW r \in Requests, GiveUp(r)
      PROVE  \A c \in Calls : InFlight(c)' => calls'[ckey'[c]] = c
  BY <1>1, <1>5 DEF GiveUp, Leave
<1>6. ASSUME NEW r \in Requests,
             \/ Refuse(r) \/ ClientCancels(r) \/ CacheGet(r) \/ Join(r) \/ TakeResult(r)
             \/ \E k \in Keys : Arrive(r, k)
      PROVE  \A c \in Calls : InFlight(c)' => calls'[ckey'[c]] = c
  BY <1>2, <1>6 DEF Refuse, ClientCancels, CacheGet, Join, JoinCounting, TakeResult, Arrive
<1>7. ASSUME NEW d \in Calls,
             \/ ReadRepository(d) \/ CachePut(d) \/ \E out \in Outcomes : RunReturns(d, out)
      PROVE  \A c \in Calls : InFlight(c)' => calls'[ckey'[c]] = c
  BY <1>2, <1>7 DEF ReadRepository, CachePut, RunReturns, Returned
<1>8. CASE Tick \/ UNCHANGED vars
  BY <1>2, <1>8 DEF Tick, vars
<1> QED
  BY <1>3, <1>4, <1>5, <1>6, <1>7, <1>8 DEF Next, RequestStep, CallStep

\* As long as no client gives up, there is one command in flight per key.
THEOREM Coalescing == Spec => []SingleFlightWhilePatient
<1>1. CoalescingInv => SingleFlightWhilePatient
  BY DEF CoalescingInv, InFlightIsRegistered, SingleFlightWhilePatient
<1> QED BY <1>1, CoalescingInit, CoalescingNext, PTL DEF Spec

-----------------------------------------------------------------------------
\* What is served.

\* A call that ended well, as the source of the listing of key k as of t.
Source(c, k, t) == Done(c) /\ outcome[c] = "ok" /\ ckey[c] = k /\ cread[c] = t

CachedDataWasRead ==
  \A k \in DOMAIN cache : \E c \in Calls : Source(c, k, cache[k].asOf)

\* A request has no answer before it is done.
AnsweredWhenDone == \A r \in Requests : rpc[r] # "done" => reply[r].kind = "none"

ServingInv == SharingInv /\ ServedDataWasRead /\ CachedDataWasRead /\ AnsweredWhenDone

LEMMA ServingInit == Init => ServingInv
  BY SharingInit DEF Init, ServingInv, ServedDataWasRead, CachedDataWasRead, AnsweredWhenDone,
     NoReply

LEMMA SourcesLast ==
  ASSUME TypeInv, [Next]_vars
  PROVE  \A c \in Calls : \A k, t : Source(c, k, t) => Source(c, k, t)'
<1> SUFFICES ASSUME NEW c \in Calls, Done(c)
             PROVE  UNCHANGED <<outcome[c], ckey[c], cread[c]>> /\ Done(c)'
  BY DEF Source
<1> USE DEF Done, TypeInv, TypeOK, requestVars, callVars
<1>1. ASSUME NEW r \in Requests, RequestStep(r)
      PROVE  UNCHANGED <<outcome[c], ckey[c], cread[c]>> /\ Done(c)'
  BY <1>1 DEF RequestStep, Refuse, Arrive, ClientCancels, CacheGet, Join, JoinCounting,
     Lead, LeadNew, TakeResult, GiveUp, Leave
<1>2. ASSUME NEW d \in Calls, CallStep(d)
      PROVE  UNCHANGED <<outcome[c], ckey[c], cread[c]>> /\ Done(c)'
  BY <1>2 DEF CallStep, ReadRepository, RunReturns, Returned, Finish, FinishWith, CachePut
<1> QED BY <1>1, <1>2 DEF Next, Tick, vars

LEMMA CachedNext ==
  ASSUME ServingInv, [Next]_vars
  PROVE  CachedDataWasRead'
<1> USE DEF ServingInv, SharingInv
<1>1. ASSUME \A k \in DOMAIN cache' : k \in DOMAIN cache /\ cache'[k] = cache[k]
      PROVE  CachedDataWasRead'
  <2> SUFFICES ASSUME NEW k \in DOMAIN cache'
               PROVE  \E c \in Calls : Done(c)' /\ outcome'[c] = "ok" /\ ckey'[c] = k
                                      /\ cread'[c] = cache'[k].asOf
    BY DEF CachedDataWasRead, Source, Done
  <2>1. PICK c \in Calls : Source(c, k, cache[k].asOf)
    BY <1>1 DEF CachedDataWasRead
  <2>2. k \in DOMAIN cache /\ cache'[k] = cache[k]
    BY <1>1
  <2>3. UNCHANGED <<outcome[c], ckey[c], cread[c]>> /\ Done(c)'
    BY <2>1, SourcesLast DEF Source
  <2> QED BY <2>1, <2>2, <2>3 DEF Source
<1>2. CASE \E r \in Requests : CacheGet(r)
  BY <1>1, <1>2 DEF CacheGet, Restricted
<1>3. ASSUME NEW d \in Calls, CachePut(d)
      PROVE  CachedDataWasRead'
  <2>1. CASE TTL = 0
    BY <1>1, <1>3, <2>1 DEF CachePut
  <2>2. CASE TTL # 0
    <3>1. PICK keep \in Survivors :
            cache' = [k \in keep \cup {ckey[d]} |->
                       IF k = ckey[d] THEN [asOf |-> cread[d], observed |-> clock]
                       ELSE cache[k]]
      BY <1>3, <2>2 DEF CachePut
    <3>2. keep \subseteq DOMAIN cache
      BY DEF Survivors, NewestFresh, FreshKeys
    <3>3. Done(d)' /\ outcome'[d] = "ok" /\ ckey' = ckey /\ cread' = cread
      BY <1>3 DEF CachePut, Done, TypeInv, TypeOK, SuccessesRead
    <3> SUFFICES ASSUME NEW k \in DOMAIN cache'
                 PROVE  \E c \in Calls : Done(c)' /\ outcome'[c] = "ok" /\ ckey'[c] = k
                                        /\ cread'[c] = cache'[k].asOf
      BY DEF CachedDataWasRead, Source, Done
    <3>4. CASE k = ckey[d]
      BY <3>1, <3>3, <3>4
    <3>5. CASE k # ckey[d]
      <4>1. k \in DOMAIN cache /\ cache'[k] = cache[k]
        BY <3>1, <3>2, <3>5
      <4>2. PICK c \in Calls : Source(c, k, cache[k].asOf)
        BY <4>1 DEF CachedDataWasRead
      <4>3. UNCHANGED <<outcome[c], ckey[c], cread[c]>> /\ Done(c)'
        BY <4>2, SourcesLast DEF Source
      <4> QED BY <4>1, <4>2, <4>3 DEF Source
    <3> QED BY <3>4, <3>5
  <2> QED BY <2>1, <2>2
<1>4. cache' = cache \/ (\E r \in Requests : CacheGet(r)) \/ (\E c \in Calls : CachePut(c))
  BY DEF Next, vars, RequestStep, CallStep, Refuse, Arrive, ClientCancels, Join,
     JoinCounting, Lead, LeadNew, TakeResult, GiveUp, Leave, ReadRepository, RunReturns, Returned,
     Finish, FinishWith, Tick
<1> QED BY <1>1, <1>2, <1>3, <1>4

LEMMA ServedNext ==
  ASSUME ServingInv, [Next]_vars
  PROVE  ServedDataWasRead'
<1> USE DEF ServingInv, SharingInv
<1> SUFFICES ASSUME NEW r \in Requests, reply'[r].kind \in {"hit", "live"}
             PROVE  \E c \in Calls : Done(c)' /\ outcome'[c] = "ok" /\ ckey'[c] = rkey'[r]
                                    /\ cread'[c] = reply'[r].asOf
  BY DEF ServedDataWasRead, Done
<1>1. ASSUME NEW c \in Calls, Source(c, rkey'[r], reply'[r].asOf)
      PROVE  \E d \in Calls : Done(d)' /\ outcome'[d] = "ok" /\ ckey'[d] = rkey'[r]
                             /\ cread'[d] = reply'[r].asOf
  <2>1. UNCHANGED <<outcome[c], ckey[c], cread[c]>> /\ Done(c)'
    BY <1>1, SourcesLast DEF Source
  <2> QED BY <1>1, <2>1 DEF Source
<1>2. CASE reply'[r] = reply[r] /\ rkey'[r] = rkey[r]
  BY <1>1, <1>2 DEF ServedDataWasRead, Source
<1>3. CASE CacheGet(r) /\ reply'[r] # reply[r]
  <2>1. /\ rkey' = rkey /\ rkey[r] \in DOMAIN cache
        /\ reply'[r].asOf = cache[rkey[r]].asOf
    BY <1>3 DEF CacheGet, FreshKeys, TypeInv, TypeOK
  <2>2. PICK c \in Calls : Source(c, rkey[r], cache[rkey[r]].asOf)
    BY <2>1 DEF CachedDataWasRead
  <2> QED BY <1>1, <2>1, <2>2
<1>4. CASE TakeResult(r)
  <2>1. PICK c \in Calls : c = joined[r]
    BY <1>4 DEF TakeResult, TypeInv, Placed
  <2>2. rkey' = rkey /\ Done(c) /\ ckey[c] = rkey[r]
    BY <1>4, <2>1 DEF TakeResult, WaitsOnOwnKey
  <2>3. outcome[c] = "ok" /\ reply'[r].asOf = cread[c]
    BY <1>4, <2>1 DEF TakeResult, Failure, Outcomes, TypeInv, TypeOK
  <2> QED BY <1>1, <2>2, <2>3 DEF Source
<1>5. CASE \E k \in Keys : Arrive(r, k)
  <2>1. reply'[r] = reply[r] /\ rpc[r] = "idle"
    BY <1>5 DEF Arrive
  <2> QED BY <2>1 DEF AnsweredWhenDone
<1>6. CASE Refuse(r) \/ GiveUp(r)
  BY <1>6 DEF Refuse, GiveUp, Leave, Failure, TypeInv, TypeOK
<1>7. ASSUME NEW q \in Requests, RequestStep(q), q # r
      PROVE  reply'[r] = reply[r] /\ rkey'[r] = rkey[r]
  BY <1>7 DEF RequestStep, Refuse, Arrive, ClientCancels, CacheGet, Join, JoinCounting,
     Lead, LeadNew, TakeResult, GiveUp, Leave, TypeInv, TypeOK
<1>8. ASSUME ClientCancels(r) \/ Join(r) \/ \E c \in Calls : Lead(r, c)
      PROVE  reply'[r] = reply[r] /\ rkey'[r] = rkey[r]
  BY <1>8 DEF ClientCancels, Join, JoinCounting, Lead, LeadNew
<1>9. CASE CacheGet(r) /\ reply'[r] = reply[r]
  BY <1>2, <1>9 DEF CacheGet
<1>10. ASSUME (\E c \in Calls : CallStep(c)) \/ Tick \/ UNCHANGED vars
       PROVE  reply'[r] = reply[r] /\ rkey'[r] = rkey[r]
  BY <1>10 DEF CallStep, ReadRepository, RunReturns, Returned, Finish, FinishWith,
     CachePut, Tick, vars, requestVars
<1> QED
  BY <1>2, <1>3, <1>4, <1>5, <1>6, <1>7, <1>8, <1>9, <1>10 DEF Next, RequestStep

LEMMA ServingNext == ServingInv /\ [Next]_vars => ServingInv'
<1> SUFFICES ASSUME ServingInv, [Next]_vars PROVE AnsweredWhenDone'
  BY SharingNext, CachedNext, ServedNext DEF ServingInv
<1> USE DEF ServingInv, SharingInv, TypeInv, TypeOK, AnsweredWhenDone, requestVars
<1>1. ASSUME NEW r \in Requests, RequestStep(r) PROVE AnsweredWhenDone'
  BY <1>1 DEF RequestStep, Refuse, Arrive, ClientCancels, CacheGet, Join, JoinCounting,
     Lead, LeadNew, TakeResult, GiveUp, Leave
<1>2. ASSUME NEW c \in Calls, CallStep(c) PROVE AnsweredWhenDone'
  BY <1>2 DEF CallStep, ReadRepository, RunReturns, Returned, Finish, FinishWith, CachePut
<1> QED BY <1>1, <1>2 DEF Next, Tick, vars

\* A listing served for a key, live or from the cache, is what a successful
\* command for that key read.
THEOREM ServedIsRead == Spec => []ServedDataWasRead
<1>1. ServingInv => ServedDataWasRead
  BY DEF ServingInv
<1> QED BY <1>1, ServingInit, ServingNext, PTL DEF Spec

-----------------------------------------------------------------------------
\* The size of the cache.

BoundInv == TypeInv /\ CacheBounded

LEMMA BoundInit == Init => BoundInv
<1>1. Init => DOMAIN cache = {}
  BY DEF Init
<1> QED BY <1>1, TypeInit, FS_EmptySet, CacheAssumption DEF BoundInv, CacheBounded

LEMMA BoundNext == BoundInv /\ [Next]_vars => BoundInv'
<1> SUFFICES ASSUME BoundInv, [Next]_vars PROVE CacheBounded'
  BY TypeNext DEF BoundInv
<1> USE DEF BoundInv
<1>1. \A S \in SUBSET Keys : IsFiniteSet(S) /\ Cardinality(S) \in Nat
  BY CacheAssumption, FS_Subset, FS_CardinalityType
<1>2. DOMAIN cache \in SUBSET Keys /\ Cardinality(DOMAIN cache) <= CacheMax
  BY DEF TypeInv, TypeOK, CacheBounded
<1>3. ASSUME DOMAIN cache' \subseteq DOMAIN cache PROVE CacheBounded'
  <2>1. Cardinality(DOMAIN cache') <= Cardinality(DOMAIN cache)
    BY <1>1, <1>2, <1>3, FS_Subset
  <2>2. DOMAIN cache' \in SUBSET Keys
    BY <1>2, <1>3
  <2> QED BY <1>1, <1>2, <2>1, <2>2, CacheAssumption DEF CacheBounded
<1>4. ASSUME NEW c \in Calls, CachePut(c), TTL # 0 PROVE CacheBounded'
  <2>1. PICK keep \in Survivors : DOMAIN cache' = keep \cup {ckey[c]}
    BY <1>4 DEF CachePut
  <2>2. keep \in SUBSET Keys /\ Cardinality(keep) <= CacheMax - 1
    <3>1. FreshKeys \in SUBSET Keys
      BY <1>2 DEF FreshKeys
    <3>2. Cardinality(FreshKeys) \in Nat
      BY <1>1, <3>1
    <3>3. CASE Cardinality(FreshKeys) < CacheMax
      BY <2>1, <3>1, <3>2, <3>3, CacheAssumption DEF Survivors
    <3>4. CASE ~(Cardinality(FreshKeys) < CacheMax)
      BY <2>1, <3>1, <3>4, CacheAssumption DEF Survivors, NewestFresh
    <3> QED BY <3>3, <3>4
  <2>3. Cardinality(keep \cup {ckey[c]}) <= Cardinality(keep) + 1
    BY <1>1, <2>2, FS_AddElement
  <2>4. Cardinality(keep) \in Nat /\ Cardinality(keep \cup {ckey[c]}) \in Nat
    BY <1>1, <2>2, FS_AddElement, FS_CardinalityType
  <2> QED BY <2>1, <2>2, <2>3, <2>4, CacheAssumption DEF CacheBounded
<1>5. \/ DOMAIN cache' \subseteq DOMAIN cache
      \/ \E c \in Calls : CachePut(c) /\ TTL # 0
  BY DEF Next, vars, RequestStep, CallStep, Refuse, Arrive, ClientCancels, CacheGet,
     Restricted, Join, JoinCounting, Lead, LeadNew, TakeResult, GiveUp, Leave,
     ReadRepository, RunReturns, Returned, Finish, FinishWith, CachePut, Tick
<1> QED BY <1>3, <1>4, <1>5

\* The cache never holds more than CacheMax entries.
THEOREM CacheIsBounded == Spec => []CacheBounded
<1>1. BoundInv => CacheBounded
  BY DEF BoundInv
<1> QED BY <1>1, BoundInit, BoundNext, PTL DEF Spec
=============================================================================
