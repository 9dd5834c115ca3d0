------------------------- MODULE ReplayGuardProofs -------------------------
(***************************************************************************)
(* Safety of the replay store, for any requests, calls, TTL and bound.     *)
(*                                                                         *)
(* The argument: a request is hashed at a tick of window w and inserted no *)
(* earlier, so its timer, one TTL later, is due after the last tick of w   *)
(* (TimersOutlastWindow).  Hence no timer deletes a hash while requests    *)
(* can still compute it, and a lookup that misses means that no request    *)
(* with this hash was admitted.                                            *)
(***************************************************************************)
EXTENDS ReplayGuard, TLAPS

----------------------------------------------------------------------------
(* Windows.                                                                *)

\* The window of a tick is a natural number, and a window holds TTL ticks.
LEMMA WindowBounds ==
    ASSUME NEW t \in Nat
    PROVE  /\ Window(t) \in Nat
           /\ Window(t) * TTL <= t
           /\ t < Window(t) * TTL + TTL
BY TTLAssumption DEF Window

\* A tick of a window no later than u's comes less than a TTL after u.
LEMMA WindowLength ==
    ASSUME NEW t \in Nat, NEW u \in Nat, Window(t) <= Window(u)
    PROVE  t < u + TTL
<1>1. Window(t) * TTL <= Window(u) * TTL
  BY WindowBounds, TTLAssumption
<1> QED
  BY <1>1, WindowBounds, TTLAssumption

\* Time never goes back to an earlier window.
LEMMA WindowMonotonic ==
    ASSUME NEW t \in Nat
    PROVE  Window(t) <= Window(t + 1)
<1>1. SUFFICES ASSUME Window(t + 1) < Window(t)
               PROVE  FALSE
  BY WindowBounds, t + 1 \in Nat
<1>2. Window(t + 1) + 1 <= Window(t)
  BY <1>1, WindowBounds, t + 1 \in Nat
<1>3. (Window(t + 1) + 1) * TTL <= Window(t) * TTL
  BY <1>2, WindowBounds, t + 1 \in Nat, TTLAssumption
<1>4. (Window(t + 1) + 1) * TTL = Window(t + 1) * TTL + TTL
  BY WindowBounds, t + 1 \in Nat, TTLAssumption
<1> QED
  BY <1>3, <1>4, WindowBounds, t + 1 \in Nat, TTLAssumption

----------------------------------------------------------------------------
(* Type correctness.                                                       *)

\* Every variable keeps to its type, whatever the requests do.
THEOREM TypeCorrect == Spec => []TypeOK
<1> USE NoneAssumption DEF TypeOK, Phases, Hashes, NoHash, Goto
<1>1. Init => TypeOK
  <2> SUFFICES ASSUME Init
               PROVE  TypeOK
    OBVIOUS
  <2>1. hash \in [Requests -> Hashes \cup {NoHash}]
    BY DEF Init
  <2> QED
    BY <2>1 DEF Init
<1>2. TypeOK /\ [Next]_vars => TypeOK'
  <2> SUFFICES ASSUME TypeOK, [Next]_vars
               PROVE  TypeOK'
    OBVIOUS
  <2>1. ASSUME NEW r \in Requests, Arrive(r)
        PROVE  TypeOK'
    BY <2>1 DEF Arrive
  <2>2. ASSUME NEW r \in Requests, Exempt(r)
        PROVE  TypeOK'
    BY <2>2 DEF Exempt
  <2>3. ASSUME NEW r \in Requests, NEW c \in Calls, Check(r, c)
        PROVE  TypeOK'
    BY <2>3, WindowBounds DEF Check
  <2>4. ASSUME NEW r \in Requests, Reject(r)
        PROVE  TypeOK'
    BY <2>4 DEF Reject
  <2>5. ASSUME NEW r \in Requests, Insert(r)
        PROVE  TypeOK'
    <3>1. now + TTL \in Nat
      BY TTLAssumption
    <3> QED
      BY <2>5, <3>1 DEF Insert, Without
  <2>6. ASSUME NEW r \in Requests, Expire(r)
        PROVE  TypeOK'
    BY <2>6 DEF Expire, Without
  <2>7. CASE Stop
    BY <2>7 DEF Stop
  <2>8. CASE Restart
    BY <2>8 DEF Restart
  <2>9. CASE Tick
    BY <2>9 DEF Tick
  <2>10. CASE UNCHANGED vars
    BY <2>10 DEF vars
  <2> QED
    BY <2>1, <2>2, <2>3, <2>4, <2>5, <2>6, <2>7, <2>8, <2>9, <2>10 DEF Next, Step
<1> QED
  BY <1>1, <1>2, PTL DEF Spec

----------------------------------------------------------------------------
(* The inductive invariant.                                                *)

\* A request holds a place in the Map or a running timer only once admitted.
OnlyAdmittedHold ==
    \A r \in Requests :
        r \in entries \/ timer[r] # None => idem[r] = "admitted"

\* A request past the lookup carries a hash of this window or of an earlier one.
HashedInThePast ==
    \A r \in Requests :
        idem[r] \in {"absent", "admitted"} =>
            /\ hash[r] \in Hashes
            /\ hash[r].window <= Window(now)

\* A timer is due after the last tick of the window of its hash.
TimersOutlastWindow ==
    \A r \in Requests :
        timer[r] # None =>
            \A t \in Nat : Window(t) = hash[r].window => t < timer[r]

ReplayInv ==
    /\ TypeOK
    /\ OnlyAdmittedHold
    /\ HashedInThePast
    /\ TimersOutlastWindow
    /\ NoImmortalEntry
    /\ StoredForWindow

LEMMA InitReplayInv == Init => ReplayInv
<1> SUFFICES ASSUME Init
             PROVE  ReplayInv
  OBVIOUS
<1>1. TypeOK
  BY NoneAssumption DEF Init, TypeOK, Phases, Hashes, NoHash
<1> QED
  BY <1>1 DEF Init, ReplayInv, OnlyAdmittedHold, HashedInThePast,
              TimersOutlastWindow, NoImmortalEntry, StoredForWindow

\* The middleware's own steps preserve the invariant.
LEMMA RequestStepKeepsReplayInv ==
    ASSUME ReplayInv, TypeOK', NEW r \in Requests, Arrive(r) \/ Step(r)
    PROVE  ReplayInv'
<1> USE DEF ReplayInv, TypeOK, Goto
<1>1. CASE Arrive(r) \/ Exempt(r) \/ Reject(r)
  BY <1>1 DEF Arrive, Exempt, Reject, OnlyAdmittedHold, HashedInThePast,
              TimersOutlastWindow, NoImmortalEntry, StoredForWindow, Stored
<1>2. ASSUME NEW c \in Calls, Check(r, c)
      PROVE  ReplayInv'
  <2>1. /\ idem[r] = "arrived"
        /\ \A q \in Requests : q # r => idem'[q] = idem[q] /\ hash'[q] = hash[q]
        /\ idem'[r] \in {"absent", "present"}
        /\ UNCHANGED <<now, entries, timer, stopping>>
        /\ hash'[r] = [call |-> c, window |-> Window(now)]
    BY <1>2 DEF Check
  <2>2. r \notin entries /\ timer[r] = None
    BY <2>1 DEF OnlyAdmittedHold
  <2>3. OnlyAdmittedHold'
    BY <2>1, <2>2 DEF OnlyAdmittedHold
  <2>4. HashedInThePast'
    BY <2>1, WindowBounds DEF HashedInThePast, Hashes
  <2>5. TimersOutlastWindow'
    BY <2>1, <2>2 DEF TimersOutlastWindow
  <2>6. NoImmortalEntry'
    BY <2>1 DEF NoImmortalEntry
  <2>7. StoredForWindow'
    BY <2>1, <2>2 DEF StoredForWindow, Stored
  <2> QED
    BY <2>3, <2>4, <2>5, <2>6, <2>7
<1>3. CASE Insert(r)
  <2>1. /\ idem[r] = "absent"
        /\ \A q \in Requests : q # r => idem'[q] = idem[q] /\ timer'[q] = timer[q]
        /\ idem'[r] = "admitted"
        /\ timer'[r] = now + TTL
        /\ UNCHANGED <<now, hash, stopping>>
        /\ entries' = Without(hash[r]) \cup {r}
    BY <1>3 DEF Insert
  <2>2. now + TTL \in Nat
    BY TTLAssumption
  <2>3. OnlyAdmittedHold'
    BY <2>1 DEF OnlyAdmittedHold, Without
  <2>4. HashedInThePast'
    BY <2>1 DEF HashedInThePast
  <2>5. TimersOutlastWindow'
    <3>1. \A t \in Nat : Window(t) = hash[r].window => t < now + TTL
      BY <2>1, WindowLength DEF HashedInThePast
    <3> QED
      BY <2>1, <3>1 DEF TimersOutlastWindow
  <2>6. NoImmortalEntry'
    BY <2>1, <2>2, NoneAssumption DEF NoImmortalEntry, Without
  <2>7. StoredForWindow'
    BY <2>1 DEF StoredForWindow, Stored, Without
  <2> QED
    BY <2>3, <2>4, <2>5, <2>6, <2>7
<1> QED
  BY <1>1, <1>2, <1>3 DEF Step

\* A timer that fires takes no hash of the current window with it.
LEMMA ExpireKeepsReplayInv ==
    ASSUME ReplayInv, TypeOK', NEW r \in Requests, Expire(r)
    PROVE  ReplayInv'
<1> USE DEF ReplayInv, TypeOK
<1>1. /\ timer[r] # None
      /\ timer[r] <= now
      /\ entries' = Without(hash[r])
      /\ timer'[r] = None
      /\ \A q \in Requests : q # r => timer'[q] = timer[q]
      /\ UNCHANGED <<now, idem, hash, stopping>>
  BY DEF Expire
<1>2. Window(now) # hash[r].window
  BY <1>1, NoneAssumption DEF TimersOutlastWindow
<1>3. OnlyAdmittedHold' /\ HashedInThePast' /\ TimersOutlastWindow'
  BY <1>1 DEF OnlyAdmittedHold, HashedInThePast, TimersOutlastWindow, Without
<1>4. NoImmortalEntry'
  BY <1>1 DEF NoImmortalEntry, Without
<1>5. StoredForWindow'
  <2>1. \A q \in Requests :
          idem[q] = "admitted" /\ ~stopping /\ Window(now) = hash[q].window
            => Stored(hash[q]) /\ hash[q] # hash[r]
    BY <1>2 DEF StoredForWindow
  <2>2. \A q \in Requests : Stored(hash[q]) /\ hash[q] # hash[r] => Stored(hash[q])'
    BY <1>1 DEF Stored, Without
  <2> QED
    BY <1>1, <2>1, <2>2 DEF StoredForWindow
<1> QED
  BY <1>3, <1>4, <1>5

\* Time passing preserves the invariant: a window once left never comes back.
LEMMA TickKeepsReplayInv ==
    ASSUME ReplayInv, TypeOK', Tick
    PROVE  ReplayInv'
<1> USE DEF ReplayInv, TypeOK
<1>1. now' = now + 1 /\ UNCHANGED <<idem, hash, entries, timer, stopping>>
  BY DEF Tick
<1>2. /\ Window(now) \in Nat
      /\ Window(now + 1) \in Nat
      /\ Window(now) <= Window(now + 1)
  BY WindowBounds, WindowMonotonic, now + 1 \in Nat
<1>3. \A q \in Requests : idem[q] = "admitted" => hash[q].window \in Nat
  BY DEF HashedInThePast, Hashes
<1>4. HashedInThePast'
  BY <1>1, <1>2 DEF HashedInThePast, Hashes
<1>5. StoredForWindow'
  <2>1. \A q \in Requests :
          idem[q] = "admitted" /\ Window(now + 1) = hash[q].window
            => Window(now) = hash[q].window
    BY <1>2, <1>3 DEF HashedInThePast
  <2> QED
    BY <1>1, <2>1 DEF StoredForWindow, Stored
<1>6. OnlyAdmittedHold' /\ TimersOutlastWindow' /\ NoImmortalEntry'
  BY <1>1 DEF OnlyAdmittedHold, TimersOutlastWindow, NoImmortalEntry
<1> QED
  BY <1>4, <1>5, <1>6

LEMMA NextKeepsReplayInv == ReplayInv /\ TypeOK' /\ [Next]_vars => ReplayInv'
<1> SUFFICES ASSUME ReplayInv, TypeOK', [Next]_vars
             PROVE  ReplayInv'
  OBVIOUS
<1>1. ASSUME NEW r \in Requests, Arrive(r) \/ Step(r)
      PROVE  ReplayInv'
  BY <1>1, RequestStepKeepsReplayInv
<1>2. ASSUME NEW r \in Requests, Expire(r)
      PROVE  ReplayInv'
  BY <1>2, ExpireKeepsReplayInv
<1>3. CASE Stop
  BY <1>3 DEF Stop, ReplayInv, TypeOK, OnlyAdmittedHold, HashedInThePast,
              TimersOutlastWindow, NoImmortalEntry, StoredForWindow
<1>4. CASE Restart
  BY <1>4 DEF Restart, ReplayInv, TypeOK, OnlyAdmittedHold, HashedInThePast,
              TimersOutlastWindow, NoImmortalEntry, StoredForWindow
<1>5. CASE Tick
  BY <1>5, TickKeepsReplayInv
<1>6. CASE UNCHANGED vars
  BY <1>6 DEF vars, ReplayInv, OnlyAdmittedHold, HashedInThePast,
              TimersOutlastWindow, NoImmortalEntry, StoredForWindow, Stored
<1> QED
  BY <1>1, <1>2, <1>3, <1>4, <1>5, <1>6 DEF Next

THEOREM ReplayInvHolds == Spec => []ReplayInv
<1>1. Spec => []TypeOK
  BY TypeCorrect
<1> QED
  BY <1>1, InitReplayInv, NextKeepsReplayInv, PTL DEF Spec

----------------------------------------------------------------------------
(* What follows.                                                           *)

\* A hash stays in the store for the rest of the window it was computed in.
THEOREM StoredForWindowHolds == Spec => []StoredForWindow
<1>1. ReplayInv => StoredForWindow
  BY DEF ReplayInv
<1> QED
  BY <1>1, ReplayInvHolds, PTL

\* Every stored hash has a pending timer.
THEOREM NoImmortalEntryHolds == Spec => []NoImmortalEntry
<1>1. ReplayInv => NoImmortalEntry
  BY DEF ReplayInv
<1> QED
  BY <1>1, ReplayInvHolds, PTL

\* After an admission and until stop(), the same hash is never admitted again:
\* its lookup happens in the window of the hash, when the hash is stored.
THEOREM NoLateDuplicateHolds == Spec => NoLateDuplicate
<1>1. ASSUME ReplayInv, [Next]_vars, NEW r \in Requests, NEW q \in Requests,
             idem[r] = "arrived", idem'[r] = "absent",
             idem[q] = "admitted", ~stopping
      PROVE  hash'[r] # hash[q]
  <2>1. PICK c \in Calls : Check(r, c)
    BY <1>1 DEF ReplayInv, TypeOK, Next, Step, Arrive, Exempt, Check, Reject,
                Insert, Expire, Stop, Restart, Tick, vars, Goto
  <2>2. /\ hash'[r] = [call |-> c, window |-> Window(now)]
        /\ ~Stored(hash'[r])
    BY <1>1, <2>1 DEF Check, Goto, ReplayInv, TypeOK
  <2>3. hash[q].window = Window(now) => Stored(hash[q])
    BY <1>1 DEF ReplayInv, StoredForWindow
  <2> QED
    BY <2>2, <2>3
<1>2. ReplayInv /\ [Next]_vars =>
        [\A r, q \in Requests :
            /\ idem[r] = "arrived" /\ idem'[r] = "absent"
            /\ idem[q] = "admitted"
            /\ ~stopping
            => hash'[r] # hash[q]]_vars
  BY <1>1
<1> QED
  BY <1>2, ReplayInvHolds, PTL DEF Spec, NoLateDuplicate

----------------------------------------------------------------------------
(* Requests that come one after the other.                                 *)

\* One request at most is between its lookup and its insertion, and no
\* admitted request has its hash.
OneLookupAtATime ==
    ~SameTurn =>
        \A r \in Requests :
            idem[r] = "absent" =>
                /\ \A q \in Requests : idem[q] = "absent" => q = r
                /\ ~stopping =>
                      \A q \in Requests : idem[q] = "admitted" => hash[q] # hash[r]

OnceInv == OneLookupAtATime /\ (~SameTurn => HashAdmittedOnce)

LEMMA NextKeepsOnceInv ==
    ReplayInv /\ OnceInv /\ [Next]_vars => OnceInv'
<1> SUFFICES ASSUME ReplayInv, OnceInv, [Next]_vars
             PROVE  OnceInv'
  OBVIOUS
<1> USE DEF ReplayInv, TypeOK, OnceInv, OneLookupAtATime, HashAdmittedOnce, Goto
<1>1. ASSUME NEW r \in Requests, Arrive(r) \/ Exempt(r) \/ Reject(r)
      PROVE  OnceInv'
  BY <1>1 DEF Arrive, Exempt, Reject
<1>2. ASSUME NEW r \in Requests, NEW c \in Calls, Check(r, c)
      PROVE  OnceInv'
  <2>1. CASE Stored([call |-> c, window |-> Window(now)])
    BY <1>2, <2>1 DEF Check
  <2>2. CASE ~Stored([call |-> c, window |-> Window(now)])
    <3>1. \A q \in Requests :
            idem[q] = "admitted" /\ ~stopping =>
              hash[q] # [call |-> c, window |-> Window(now)]
      BY <2>2 DEF StoredForWindow
    <3> QED
      BY <1>2, <2>2, <3>1 DEF Check
  <2> QED
    BY <2>1, <2>2
<1>3. ASSUME NEW r \in Requests, Insert(r)
      PROVE  OnceInv'
  BY <1>3 DEF Insert
<1>4. ASSUME NEW r \in Requests, Expire(r)
      PROVE  OnceInv'
  BY <1>4 DEF Expire
<1>5. CASE Stop
  BY <1>5 DEF Stop
<1>6. CASE Restart
  BY <1>6 DEF Restart
<1>7. CASE Tick
  BY <1>7 DEF Tick
<1>8. CASE UNCHANGED vars
  BY <1>8 DEF vars
<1> QED
  BY <1>1, <1>2, <1>3, <1>4, <1>5, <1>6, <1>7, <1>8 DEF Next, Step

\* Where no two requests are between lookup and insertion at once, a hash is
\* admitted once while the gateway runs.
THEOREM HashAdmittedOnceHolds == Spec => [](~SameTurn => HashAdmittedOnce)
<1>1. Init => OnceInv
  BY DEF Init, OnceInv, OneLookupAtATime, HashAdmittedOnce
<1>2. OnceInv => (~SameTurn => HashAdmittedOnce)
  BY DEF OnceInv
<1> QED
  BY <1>1, <1>2, NextKeepsOnceInv, ReplayInvHolds, PTL DEF Spec
============================================================================
