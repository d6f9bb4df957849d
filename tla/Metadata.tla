------------------------------ MODULE Metadata ------------------------------
(***************************************************************************)
(* The metadata coalescer and its cache (internal/repositories/metadata.go)*)
(*                                                                         *)
(* A request asks for the `snapshots` listing of one key (repository and   *)
(* argv).  RunMetadata looks in the cache, then joins the call in flight   *)
(* for that key or leads a new one.  The leader's goroutine runs the       *)
(* command under a context that no single caller owns: it is cancelled     *)
(* only when the last waiting caller gives up.                             *)
(*                                                                         *)
(* Every section under m.mu is one action.  What a command answers is      *)
(* abstracted to the instant at which it read the repository: the          *)
(* repository may have changed at every tick of the clock.                 *)
(***************************************************************************)
EXTENDS Integers, FiniteSets

CONSTANTS
  Requests,   \* calls of RunMetadata, each with its own context
  Keys,       \* metadataKey(repoID, argv)
  Calls,      \* identities of *metadataCall values, one per Requests suffices
  NoCall,     \* the nil *metadataCall
  NoKey,      \* no key yet
  TTL,        \* m.ttl in ticks; 0 turns the cache off
  CacheMax,   \* m.max, entries the cache may hold
  MaxClock    \* bound on the clock

ASSUME RequestsAssumption == IsFiniteSet(Requests)
ASSUME CallsAssumption == NoCall \notin Calls /\ NoKey \notin Keys
\* Validate gives the cache at least one entry whenever the TTL is positive.
ASSUME CacheAssumption == /\ IsFiniteSet(Keys)
                          /\ TTL \in Nat
                          /\ CacheMax \in Nat
                          /\ TTL > 0 => CacheMax > 0
ASSUME ClockAssumption == MaxClock \in Nat

VARIABLES
  clock,    \* m.now()
  rpc,      \* where each request is inside RunMetadata
  rkey,     \* the key it asks for
  ctxDone,  \* its own context is done
  joined,   \* the call it waits on
  reply,    \* what it returned
  calls,    \* m.calls
  cstate,   \* progress of each call's goroutine
  ckey,     \* the key the goroutine was started for
  refs,     \* call.refs
  shared,   \* the call's shared context is cancelled
  cread,    \* when its command read the repository
  outcome,  \* how its command ended (call.err, call.result)
  cache     \* m.cache

requestVars == <<rpc, rkey, ctxDone, joined, reply>>
callVars == <<calls, cstate, ckey, refs, shared, cread, outcome>>
vars == <<clock, rpc, rkey, ctxDone, joined, reply, calls, cstate, ckey,
          refs, shared, cread, outcome, cache>>

Never == -1
\* "interrupted" is restic's exit code 130, reported under the code of "cancelled".
Outcomes == {"ok", "failed", "busy", "cancelled", "interrupted"}
Entry == [asOf : Nat, observed : Nat]
Reply == [kind : {"none", "hit", "live", "failed", "busy", "cancelled", "interrupted"},
          asOf : Nat \cup {Never}]
NoReply == [kind |-> "none", asOf |-> Never]
Failure(kind) == [kind |-> kind, asOf |-> Never]

TypeOK ==
  /\ clock \in Nat
  /\ rpc \in [Requests -> {"idle", "lookup", "join", "wait", "done"}]
  /\ rkey \in [Requests -> Keys \cup {NoKey}]
  /\ ctxDone \in [Requests -> BOOLEAN]
  /\ joined \in [Requests -> Calls \cup {NoCall}]
  /\ reply \in [Requests -> Reply]
  /\ calls \in [Keys -> Calls \cup {NoCall}]
  /\ cstate \in [Calls -> {"unused", "running", "returned", "put", "ended"}]
  /\ ckey \in [Calls -> Keys \cup {NoKey}]
  /\ refs \in [Calls -> Int]
  /\ shared \in [Calls -> BOOLEAN]
  /\ cread \in [Calls -> Nat \cup {Never}]
  /\ outcome \in [Calls -> Outcomes]
  /\ DOMAIN cache \subseteq Keys
  /\ \A k \in DOMAIN cache : cache[k] \in Entry

Init ==
  /\ clock = 0
  /\ rpc = [r \in Requests |-> "idle"]
  /\ rkey = [r \in Requests |-> NoKey]
  /\ ctxDone = [r \in Requests |-> FALSE]
  /\ joined = [r \in Requests |-> NoCall]
  /\ reply = [r \in Requests |-> NoReply]
  /\ calls = [k \in Keys |-> NoCall]
  /\ cstate = [c \in Calls |-> "unused"]
  /\ ckey = [c \in Calls |-> NoKey]
  /\ refs = [c \in Calls |-> 0]
  /\ shared = [c \in Calls |-> FALSE]
  /\ cread = [c \in Calls |-> Never]
  /\ outcome = [c \in Calls |-> "failed"]
  /\ cache = [k \in {} |-> NoReply]

-----------------------------------------------------------------------------
\* The cache, a Go map: the keys it holds are its domain.

Restricted(keys) == [k \in keys |-> cache[k]]
Fresh(k) == clock - cache[k].observed < TTL
FreshKeys == {k \in DOMAIN cache : Fresh(k)}

\* The keys left when the oldest entries are evicted until n remain.
NewestFresh(n) ==
  {keep \in SUBSET FreshKeys :
     /\ Cardinality(keep) = n
     /\ \A k \in keep, e \in FreshKeys \ keep : cache[e].observed <= cache[k].observed}

\* Slip: the bound compared with > where the code has >=.
SurvivorsOffByOne ==
  IF Cardinality(FreshKeys) <= CacheMax THEN {FreshKeys} ELSE NewestFresh(CacheMax - 1)

\* What cachePut may leave after making room for one more entry: every fresh
\* one, or CacheMax - 1 of them when they fill the cache (even if the key being
\* put is among them).
Survivors ==
  IF Cardinality(FreshKeys) < CacheMax THEN {FreshKeys} ELSE NewestFresh(CacheMax - 1)

\* Slip: waiters are woken by a result, not by an error.
DoneOnSuccess(c) == cstate[c] \in {"put", "ended"} /\ outcome[c] = "ok"

Done(c) == cstate[c] \in {"put", "ended"}   \* call.done is closed
InFlight(c) == cstate[c] \in {"running", "returned"}
Waiters(c) == {r \in Requests : rpc[r] = "wait" /\ joined[r] = c}

-----------------------------------------------------------------------------
\* The caller: RunMetadata.

\* An unknown repository or an argv off the allowlist ends the request at once.
Refuse(r) ==
  /\ rpc[r] = "idle"
  /\ rpc' = [rpc EXCEPT ![r] = "done"]
  /\ reply' = [reply EXCEPT ![r] = Failure("failed")]
  /\ UNCHANGED <<clock, rkey, ctxDone, joined, callVars, cache>>

Arrive(r, k) ==
  /\ rpc[r] = "idle"
  /\ rpc' = [rpc EXCEPT ![r] = "lookup"]
  /\ rkey' = [rkey EXCEPT ![r] = k]
  /\ UNCHANGED <<clock, ctxDone, joined, reply, callVars, cache>>

\* The client gives the request up; a context is done for good.
ClientCancels(r) ==
  /\ ~ctxDone[r]
  /\ rpc[r] # "done"
  /\ ctxDone' = [ctxDone EXCEPT ![r] = TRUE]
  /\ UNCHANGED <<clock, rpc, rkey, joined, reply, callVars, cache>>

\* cacheGet: a hit is answered from the entry, an expired entry is dropped.
CacheGet(r) ==
  LET k == rkey[r] IN
  /\ rpc[r] = "lookup"
  /\ IF TTL > 0 /\ k \in FreshKeys
     THEN /\ rpc' = [rpc EXCEPT ![r] = "done"]
          /\ reply' = [reply EXCEPT ![r] =
                         [kind |-> "hit", asOf |-> cache[k].asOf]]
          /\ UNCHANGED cache
     ELSE /\ rpc' = [rpc EXCEPT ![r] = "join"]
          /\ cache' = Restricted(DOMAIN cache \ {k})
          /\ UNCHANGED reply
  /\ UNCHANGED <<clock, rkey, ctxDone, joined, callVars>>

JoinCounting(r, n) ==
  LET c == calls[rkey[r]] IN
  /\ rpc[r] = "join"
  /\ c # NoCall
  /\ rpc' = [rpc EXCEPT ![r] = "wait"]
  /\ joined' = [joined EXCEPT ![r] = c]
  /\ refs' = [refs EXCEPT ![c] = @ + n]
  /\ UNCHANGED <<clock, rkey, ctxDone, reply, calls, cstate, ckey, shared,
                 cread, outcome, cache>>

\* Slip: a caller that joins is not counted.
JoinUncounted(r) == JoinCounting(r, 0)

\* join, when a call for the key is in the table.
Join(r) == JoinCounting(r, 1)

LeadNew(r, c) ==
  /\ rpc[r] = "join"
  /\ cstate[c] = "unused"
  /\ rpc' = [rpc EXCEPT ![r] = "wait"]
  /\ joined' = [joined EXCEPT ![r] = c]
  /\ calls' = [calls EXCEPT ![rkey[r]] = c]
  /\ cstate' = [cstate EXCEPT ![c] = "running"]
  /\ ckey' = [ckey EXCEPT ![c] = rkey[r]]
  /\ refs' = [refs EXCEPT ![c] = 1]
  /\ UNCHANGED <<clock, rkey, ctxDone, reply, shared, cread, outcome, cache>>

\* Slip: a call is made without looking for one.
LeadBlindly(r, c) == LeadNew(r, c)

\* join, when there is none: the caller makes one and starts its goroutine.
Lead(r, c) == rpc[r] = "join" /\ calls[rkey[r]] = NoCall /\ LeadNew(r, c)

\* The select of RunMetadata sees call.done; release finds the call done, so
\* only the reference count changes.
TakeResult(r) ==
  LET c == joined[r] IN
  /\ rpc[r] = "wait"
  /\ Done(c)
  /\ rpc' = [rpc EXCEPT ![r] = "done"]
  /\ refs' = [refs EXCEPT ![c] = @ - 1]
  /\ reply' = [reply EXCEPT ![r] =
                 IF outcome[c] = "ok" THEN [kind |-> "live", asOf |-> cread[c]]
                 ELSE Failure(outcome[c])]
  /\ UNCHANGED <<clock, rkey, ctxDone, joined, calls, cstate, ckey, shared,
                 cread, outcome, cache>>

\* A caller leaves the call it waits on: remove takes the call out of the table
\* if it is still there, and cancel cancels its context.
Leave(r, c, remove, cancel) ==
  /\ rpc[r] = "wait"
  /\ ctxDone[r]
  /\ rpc' = [rpc EXCEPT ![r] = "done"]
  /\ reply' = [reply EXCEPT ![r] = Failure("cancelled")]
  /\ refs' = [refs EXCEPT ![c] = @ - 1]
  /\ calls' = IF remove /\ calls[ckey[c]] = c
               THEN [calls EXCEPT ![ckey[c]] = NoCall] ELSE calls
  /\ shared' = [shared EXCEPT ![c] = @ \/ cancel]
  /\ UNCHANGED <<clock, rkey, ctxDone, joined, cstate, ckey, cread, outcome, cache>>

LastToLeave(c) == refs[c] <= 1 /\ ~Done(c)

\* Slips of release: it leaves the cancelled call in the table, or forgets to
\* cancel.
GiveUpKeepsCall(r) == Leave(r, joined[r], FALSE, LastToLeave(joined[r]))
GiveUpNoCancel(r) == Leave(r, joined[r], LastToLeave(joined[r]), FALSE)

\* The select sees ctx.Done, possibly with call.done closed as well.  release:
\* the last caller to leave an unfinished call removes and cancels it.
GiveUp(r) == Leave(r, joined[r], LastToLeave(joined[r]), LastToLeave(joined[r]))

-----------------------------------------------------------------------------
\* The leader's goroutine, and the command it runs.

\* The restic child reads the repository.
ReadRepository(c) ==
  /\ cstate[c] = "running"
  /\ cread[c] = Never
  /\ cread' = [cread EXCEPT ![c] = clock]
  /\ UNCHANGED <<clock, requestVars, calls, cstate, ckey, refs, shared,
                 outcome, cache>>

\* Registry.Run has returned to the goroutine.
Returned(c, out) ==
  /\ cstate[c] = "running"
  /\ cstate' = [cstate EXCEPT ![c] = "returned"]
  /\ outcome' = [outcome EXCEPT ![c] = out]
  /\ UNCHANGED <<clock, requestVars, calls, ckey, refs, shared, cread, cache>>

\* It succeeds only if the child read the repository, and says "cancelled" only
\* if the context it was given is cancelled (what Registry shows of run).
RunReturns(c, out) ==
  /\ out = "ok" => cread[c] # Never
  /\ out = "cancelled" => shared[c]
  /\ Returned(c, out)

FinishWith(c, table, caches) ==
  /\ cstate[c] = "returned"
  /\ calls' = table
  /\ shared' = [shared EXCEPT ![c] = TRUE]
  /\ cstate' = [cstate EXCEPT ![c] = IF caches THEN "put" ELSE "ended"]
  /\ UNCHANGED <<clock, requestVars, ckey, refs, cread, outcome, cache>>

\* Slip: a failure is cached.
FinishCachesFailure(c) == FinishWith(c, [calls EXCEPT ![ckey[c]] = NoCall], TRUE)

\* finish, up to its unlock: whatever call the key maps to leaves the table.
Finish(c) == FinishWith(c, [calls EXCEPT ![ckey[c]] = NoCall], outcome[c] = "ok")

\* finish, after its unlock: cachePut takes the lock again.
CachePut(c) ==
  /\ cstate[c] = "put"
  /\ cstate' = [cstate EXCEPT ![c] = "ended"]
  /\ IF TTL = 0 THEN UNCHANGED cache
     ELSE \E keep \in Survivors :
            cache' = [k \in keep \cup {ckey[c]} |->
                       IF k = ckey[c]
                       THEN [asOf |-> cread[c], observed |-> clock]
                       ELSE cache[k]]
  /\ UNCHANGED <<clock, requestVars, calls, ckey, refs, shared, cread, outcome>>

Tick ==
  /\ clock < MaxClock
  /\ clock' = clock + 1
  /\ UNCHANGED <<requestVars, callVars, cache>>

-----------------------------------------------------------------------------
RequestStep(r) ==
  \/ Refuse(r)
  \/ \E k \in Keys : Arrive(r, k)
  \/ ClientCancels(r)
  \/ CacheGet(r)
  \/ Join(r)
  \/ \E c \in Calls : Lead(r, c)
  \/ TakeResult(r)
  \/ GiveUp(r)

CallStep(c) ==
  \/ ReadRepository(c)
  \/ \E out \in Outcomes : RunReturns(c, out)
  \/ Finish(c)
  \/ CachePut(c)

Next ==
  \/ \E r \in Requests : RequestStep(r)
  \/ \E c \in Calls : CallStep(c)
  \/ Tick

Spec == Init /\ [][Next]_vars

-----------------------------------------------------------------------------
\* Properties.

\* The reference count that decides about cancellation is exactly the number
\* of callers inside the select of RunMetadata (join, release).
RefsCountWaiters == \A c \in Calls : refs[c] = Cardinality(Waiters(c))

\* A caller never waits on a command that another caller's departure cancelled:
\* while a call runs with a cancelled context, nobody is waiting for it
\* (release, and context.WithoutCancel in join).
CancellationIsolated ==
  \A c \in Calls : shared[c] /\ InFlight(c) => Waiters(c) = {}

\* A command nobody waits for any more is told to stop: no zombie keeps a slot
\* until its timeout because the callers left in an unlucky order (release).
AbandonedCommandsAreCancelled ==
  \A c \in Calls : InFlight(c) /\ Waiters(c) = {} => shared[c]

\* Only a caller whose own context is done is told "request cancelled", though
\* the command it shares may have been started by a caller who left.
CancelledMeansOwnContext ==
  \A r \in Requests : reply[r].kind = "cancelled" => ctxDone[r]

\* The table of calls never offers a newcomer a dead call: a registered call
\* is for that key, unfinished, not cancelled and has a caller waiting on it.
TableOffersLiveCalls ==
  \A k \in Keys : calls[k] # NoCall =>
    /\ ckey[calls[k]] = k
    /\ InFlight(calls[k])
    /\ ~shared[calls[k]]
    /\ Waiters(calls[k]) # {}

\* As long as no client has given up, identical metadata commands in flight
\* are coalesced into one.
SingleFlightWhilePatient ==
  (\A r \in Requests : ~ctxDone[r]) =>
    \A c, d \in Calls :
      InFlight(c) /\ InFlight(d) /\ ckey[c] = ckey[d] => c = d

\* Data returned for a key, live or from the cache, was read from the
\* repository by a command for that very key that succeeded: neither failures
\* nor other selectors' listings are ever served or cached.
ServedDataWasRead ==
  \A r \in Requests : reply[r].kind \in {"hit", "live"} =>
    \E c \in Calls : /\ Done(c) /\ outcome[c] = "ok"
                     /\ ckey[c] = rkey[r] /\ cread[c] = reply[r].asOf

\* The cache never outgrows its bound, whatever entries expire or are
\* overwritten while puts of several calls race.
CacheBounded == Cardinality(DOMAIN cache) <= CacheMax

-----------------------------------------------------------------------------
\* What the documentation says and the code does not keep.

\* docs/restic-compatibility.md: identical in-flight snapshot-metadata commands
\* are coalesced.  Two commands for one key, neither of them cancelled, are
\* never in flight together.
IdenticalCallsCoalesced ==
  \A c, d \in Calls :
    cstate[c] = "running" /\ cstate[d] = "running" /\ ckey[c] = ckey[d]
      /\ ~shared[c] /\ ~shared[d] => c = d
=============================================================================
