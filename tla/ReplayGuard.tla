---------------------------- MODULE ReplayGuard ----------------------------
(***************************************************************************)
(* The replay protection of the gateway: the idempotency middleware        *)
(* (packages/gateway/src/middleware/idempotency.ts), the request hash      *)
(* (hash.ts) and the in-memory replay store it consults (replay.ts).       *)
(*                                                                         *)
(* A hash covers the call (method, path, body, price and idempotency key,  *)
(* one model value here) and the number of the time window the request is  *)
(* hashed in, floor(now / TTL).  The store is a Map from a hash to the     *)
(* timer that deletes it.  Here the Map is the set "entries" of requests   *)
(* whose timer handle it holds, and the key of an entry is the hash of its *)
(* request.                                                                *)
(*                                                                         *)
(* The lookup and the insertion are two steps of the event loop: each      *)
(* `await` of checkReplay yields.                                          *)
(***************************************************************************)
EXTENDS Integers

CONSTANTS Requests,   \* HTTP requests, each of them sent once
          Calls,      \* what a hash tells apart: method, path, body, price, key
          TTL,        \* config.replayTtlMs, in ticks
          MaxTime,    \* bound: requests arrive no later than this tick
          SameTurn,   \* may two requests be between lookup and insertion at once?
          None        \* no timer, no call

ASSUME TTLAssumption      == TTL \in Nat \ {0}
ASSUME MaxTimeAssumption  == MaxTime \in Nat
ASSUME SameTurnAssumption == SameTurn \in BOOLEAN
ASSUME NoneAssumption     == None \notin Nat /\ None \notin Calls

VARIABLES now,       \* Date.now() and the clock of setTimeout
          idem,      \* where each request stands in the middleware
          hash,      \* req.requestHash
          entries,   \* the Map: requests whose timer handle is stored
          timer,     \* the tick each pending setTimeout is due, or None
          stopping   \* gateway.stop() has run

vars == <<now, idem, hash, entries, timer, stopping>>

Window(t) == t \div TTL

NoHash == [call |-> None, window |-> 0]
Hashes == [call : Calls, window : Nat]

\* has(): the Map holds a timer under this hash.
Stored(h) == \E q \in entries : hash[q] = h

\* What delete() or an overwriting set() under this hash leaves of the Map.
Without(h) == {q \in entries : hash[q] # h}

Init ==
    /\ now = 0
    /\ idem = [r \in Requests |-> "idle"]
    /\ hash = [r \in Requests |-> NoHash]
    /\ entries = {}
    /\ timer = [r \in Requests |-> None]
    /\ stopping = FALSE

Goto(r, phase) == idem' = [idem EXCEPT ![r] = phase]

\* The request is accepted by the server; its handler has begun.  After
\* stop() the server accepts no more of them.
Arrive(r) ==
    /\ idem[r] = "idle"
    /\ ~stopping
    /\ Goto(r, "arrived")
    /\ UNCHANGED <<now, hash, entries, timer, stopping>>

\* No idempotency header: the request passes unchecked.
Exempt(r) ==
    /\ idem[r] = "arrived"
    /\ Goto(r, "exempt")
    /\ UNCHANGED <<now, hash, entries, timer, stopping>>

\* The hash is computed and looked up in one step: has() evaluates its
\* answer before the first await yields.
Check(r, c) ==
    LET h == [call |-> c, window |-> Window(now)] IN
    /\ idem[r] = "arrived"
    /\ SameTurn \/ \A q \in Requests : idem[q] # "absent"
    /\ hash' = [hash EXCEPT ![r] = h]
    /\ Goto(r, IF Stored(h) THEN "present" ELSE "absent")
    /\ UNCHANGED <<now, entries, timer, stopping>>

\* Mutant: a replay is answered only while the gateway is not stopping.
RejectWhileUp(r) ==
    /\ idem[r] = "present"
    /\ ~stopping
    /\ Goto(r, "replayed")
    /\ UNCHANGED <<now, hash, entries, timer, stopping>>

\* The hash was there: 409 with a receipt.
Reject(r) ==
    /\ idem[r] = "present"
    /\ Goto(r, "replayed")
    /\ UNCHANGED <<now, hash, entries, timer, stopping>>

\* Mutant: the timer runs one tick less than the TTL.
InsertShortTimer(r) ==
    /\ idem[r] = "absent"
    /\ entries' = Without(hash[r]) \cup {r}
    /\ timer' = [timer EXCEPT ![r] = now + TTL - 1]
    /\ Goto(r, "admitted")
    /\ UNCHANGED <<now, hash, stopping>>

\* Mutant: the due tick is computed with the operands swapped.
InsertSwapped(r) ==
    /\ idem[r] = "absent"
    /\ entries' = Without(hash[r]) \cup {r}
    /\ timer' = [timer EXCEPT ![r] = TTL - now]
    /\ Goto(r, "admitted")
    /\ UNCHANGED <<now, hash, stopping>>

\* insert(): a new timer is started and takes the key in the Map.  The
\* timer of an entry it overwrites keeps running.
Insert(r) ==
    /\ idem[r] = "absent"
    /\ entries' = Without(hash[r]) \cup {r}
    /\ timer' = [timer EXCEPT ![r] = now + TTL]
    /\ Goto(r, "admitted")
    /\ UNCHANGED <<now, hash, stopping>>

\* Mutant: the callback runs a tick before it is due.
ExpireEarly(r) ==
    /\ timer[r] # None
    /\ timer[r] <= now + 1
    /\ entries' = Without(hash[r])
    /\ timer' = [timer EXCEPT ![r] = None]
    /\ UNCHANGED <<now, idem, hash, stopping>>

\* Mutant: the callback forgets the deletion when the gateway is stopping.
ExpireWhileUp(r) ==
    /\ timer[r] # None
    /\ timer[r] <= now
    /\ entries' = IF stopping THEN entries ELSE Without(hash[r])
    /\ timer' = [timer EXCEPT ![r] = None]
    /\ UNCHANGED <<now, idem, hash, stopping>>

\* The callback of r's timer deletes r's hash, whoever holds it now.
Expire(r) ==
    /\ timer[r] # None
    /\ timer[r] <= now
    /\ entries' = Without(hash[r])
    /\ timer' = [timer EXCEPT ![r] = None]
    /\ UNCHANGED <<now, idem, hash, stopping>>

\* Mutant: destroy() clears the timers and keeps the Map.
StopKeepingEntries ==
    /\ ~stopping
    /\ stopping' = TRUE
    /\ timer' = [r \in Requests |-> IF r \in entries THEN None ELSE timer[r]]
    /\ UNCHANGED <<now, idem, hash, entries>>

\* gateway.stop(): the store is destroyed first, the requests in flight
\* then run to their end.  Only the timers the Map still holds are cleared.
Stop ==
    /\ ~stopping
    /\ stopping' = TRUE
    /\ entries' = {}
    /\ timer' = [r \in Requests |-> IF r \in entries THEN None ELSE timer[r]]
    /\ UNCHANGED <<now, idem, hash>>

\* The process dies and is started again: memory and requests are lost.
Restart ==
    /\ entries' = {}
    /\ timer' = [r \in Requests |-> None]
    /\ idem' = [r \in Requests |-> IF idem[r] = "idle" THEN "idle" ELSE "gone"]
    /\ hash' = [r \in Requests |-> NoHash]
    /\ stopping' = FALSE
    /\ UNCHANGED now

\* Time goes on until MaxTime, and after it for as long as a timer runs.
Tick ==
    /\ now < MaxTime \/ \E r \in Requests : timer[r] # None /\ now < timer[r]
    /\ now' = now + 1
    /\ UNCHANGED <<idem, hash, entries, timer, stopping>>

Step(r) ==
    \/ Exempt(r)
    \/ \E c \in Calls : Check(r, c)
    \/ Reject(r)
    \/ Insert(r)

Next ==
    \/ \E r \in Requests : Arrive(r) \/ Step(r) \/ Expire(r)
    \/ Stop
    \/ Restart
    \/ Tick

Spec == Init /\ [][Next]_vars

\* The event loop runs every callback that is ready, a timer that is due is
\* ready, and time passes.  Nothing makes a request arrive or the process stop.
Fairness ==
    /\ \A r \in Requests : WF_vars(Step(r)) /\ WF_vars(Expire(r))
    /\ WF_vars(Tick)

FairSpec == Spec /\ Fairness

----------------------------------------------------------------------------
Phases == {"idle", "arrived", "exempt", "absent", "present",
           "admitted", "replayed", "gone"}

\* Every variable keeps to its type.
TypeOK ==
    /\ now \in Nat
    /\ idem \in [Requests -> Phases]
    /\ hash \in [Requests -> Hashes \cup {NoHash}]
    /\ entries \in SUBSET Requests
    /\ timer \in [Requests -> Nat \cup {None}]
    /\ stopping \in BOOLEAN

\* A hash stays in the store for the rest of the window it was computed in,
\* whatever races and timers did: a timer starts no earlier than its window
\* and runs for the length of one, so none (not even the forgotten timer of an
\* overwritten entry) deletes a hash that a request could still compute.
StoredForWindow ==
    \A r \in Requests :
        /\ idem[r] = "admitted"
        /\ ~stopping
        /\ Window(now) = hash[r].window
        => Stored(hash[r])

\* The Map never leaks: every stored hash has the pending timer that will
\* delete it, even after two insertions of one hash (replay.ts, insert).
NoImmortalEntry == \A r \in entries : timer[r] # None

\* Once a request is admitted and the gateway keeps running, a request hashed
\* to the same value is answered as a replay, never admitted.
NoLateDuplicate ==
    [][\A r, q \in Requests :
          /\ idem[r] = "arrived" /\ idem'[r] = "absent"
          /\ idem[q] = "admitted"
          /\ ~stopping
          => hash'[r] # hash[q]]_vars

\* A hash is admitted once: two requests with the same hash are never both let
\* through.  It needs requests that come one after the other (~SameTurn).
HashAdmittedOnce ==
    ~stopping =>
        \A r, q \in Requests :
            /\ idem[r] = "admitted" /\ idem[q] = "admitted"
            /\ hash[r] = hash[q]
            => r = q

\* Every stored hash is deleted in the end.
EntriesExpire == \A r \in Requests : (r \in entries) ~> (r \notin entries)

\* A request whose handler has begun is admitted, answered or lost with the
\* process: no request waits for ever in the middleware.
EveryRequestDecided ==
    \A r \in Requests :
        (idem[r] = "arrived") ~> (idem[r] \in {"exempt", "admitted", "replayed", "gone"})
============================================================================
