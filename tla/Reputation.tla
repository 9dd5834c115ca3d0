----------------------------- MODULE Reputation -----------------------------
(***************************************************************************)
(* The reputation service (packages/gateway/src/services/reputation.ts):   *)
(* an agent's standing is read from the ERC-8004 registry and cached for   *)
(* TTL.  The time is taken before the read is awaited, so checks of one    *)
(* agent overlap, their answers come back in any order, and the last one   *)
(* to come back is the one that is kept.                                   *)
(*                                                                         *)
(* A standing is whether the agent would be allowed: no feedback yet, or a *)
(* score of at least the minimum.                                          *)
(***************************************************************************)
EXTENDS Integers

CONSTANTS Agents,
          Checks,    \* calls of checkReputation
          TTL,       \* CACHE_TTL_MS in ticks
          MaxTime    \* bound on the clock

\* What holds of the constants; the module that uses this one assumes it.
ReputationParameters == TTL \in Nat \ {0} /\ MaxTime \in Nat

VARIABLES now,       \* the clock
          standing,  \* the registry: what it would answer of each agent
          seen,      \* when the registry last held each answer (history)
          cache,     \* what is cached of each agent, until when
          phase,     \* where each check stands, or its result
          agent,     \* whom it is about
          at,        \* the time it took when it began
          sampled    \* what the registry answered it

vars == <<now, standing, seen, cache, phase, agent, at, sampled>>
registry == <<now, standing, seen>>

Never == -TTL
NoEntry == [allowed |-> FALSE, expiry |-> 0]

Result(allowed) == IF allowed THEN "allowed" ELSE "denied"

Init ==
    /\ now = 0
    /\ standing \in [Agents -> BOOLEAN]
    /\ seen = [a \in Agents |-> [b \in BOOLEAN |-> IF b = standing[a] THEN 0 ELSE Never]]
    /\ cache = [a \in Agents |-> NoEntry]
    /\ phase = [r \in Checks |-> "idle"]
    /\ agent \in [Checks -> Agents]
    /\ at = [r \in Checks |-> 0]
    /\ sampled = [r \in Checks |-> FALSE]

----------------------------------------------------------------------------
\* A check begins: from the cache if the entry has not expired.
Check(r, a) ==
    /\ phase[r] = "idle"
    /\ agent' = [agent EXCEPT ![r] = a]
    /\ at' = [at EXCEPT ![r] = now]
    /\ phase' = [phase EXCEPT ![r] =
                    IF cache[a].expiry > now THEN Result(cache[a].allowed) ELSE "reading"]
    /\ UNCHANGED <<registry, cache, sampled>>

\* The registry answers; the answer is under way.
Sample(r) ==
    /\ phase[r] = "reading"
    /\ sampled' = [sampled EXCEPT ![r] = standing[agent[r]]]
    /\ phase' = [phase EXCEPT ![r] = "answered"]
    /\ UNCHANGED <<registry, cache, agent, at>>

\* Mutant: the entry lives for TTL from when the answer came.
FillFromAnswer(r) ==
    /\ phase[r] = "answered"
    /\ cache' = [cache EXCEPT ![agent[r]] = [allowed |-> sampled[r], expiry |-> now + TTL]]
    /\ phase' = [phase EXCEPT ![r] = Result(sampled[r])]
    /\ UNCHANGED <<registry, agent, at, sampled>>

\* The answer is back: it is cached, over whatever came back before it, until
\* TTL after the check began.
Fill(r) ==
    /\ phase[r] = "answered"
    /\ cache' = [cache EXCEPT ![agent[r]] = [allowed |-> sampled[r], expiry |-> at[r] + TTL]]
    /\ phase' = [phase EXCEPT ![r] = Result(sampled[r])]
    /\ UNCHANGED <<registry, agent, at, sampled>>

\* The read fails, or times out: the check throws.
Fail(r) ==
    /\ phase[r] \in {"reading", "answered"}
    /\ phase' = [phase EXCEPT ![r] = "failed"]
    /\ UNCHANGED <<registry, cache, agent, at, sampled>>

\* Feedback changes what the registry would answer.
Feedback(a) ==
    /\ standing' = [standing EXCEPT ![a] = ~@]
    /\ seen' = [seen EXCEPT ![a][~standing[a]] = now]
    /\ UNCHANGED <<now, cache, phase, agent, at, sampled>>

Tick ==
    /\ now < MaxTime
    /\ now' = now + 1
    /\ seen' = [a \in Agents |-> [seen[a] EXCEPT ![standing[a]] = now + 1]]
    /\ UNCHANGED <<standing, cache, phase, agent, at, sampled>>

\* The process ends: the cache is lost, and so are the checks in flight.
Restart ==
    /\ cache' = [a \in Agents |-> NoEntry]
    /\ phase' = [r \in Checks |->
                    IF phase[r] \in {"reading", "answered"} THEN "gone" ELSE phase[r]]
    /\ UNCHANGED <<registry, agent, at, sampled>>

Next ==
    \/ \E r \in Checks :
          (\E a \in Agents : Check(r, a)) \/ Sample(r) \/ Fill(r) \/ Fail(r)
    \/ \E a \in Agents : Feedback(a)
    \/ Tick
    \/ Restart

Spec == Init /\ [][Next]_vars

----------------------------------------------------------------------------
Phases == {"idle", "reading", "answered", "allowed", "denied", "failed", "gone"}

TypeOK ==
    /\ now \in 0..MaxTime
    /\ standing \in [Agents -> BOOLEAN]
    /\ seen \in [Agents -> [BOOLEAN -> Int]]
    /\ cache \in [Agents -> [allowed : BOOLEAN, expiry : Int]]
    /\ phase \in [Checks -> Phases]
    /\ agent \in [Checks -> Agents]
    /\ at \in [Checks -> 0..MaxTime]
    /\ sampled \in [Checks -> BOOLEAN]

\* A result is no older than the cache allows: whichever overlapping read was
\* kept, the registry held that answer at some time within TTL before the
\* check began, or later.
ResultFresh ==
    \A r \in Checks, b \in BOOLEAN :
        phase[r] = Result(b) => seen[agent[r]][b] + TTL > at[r]
=============================================================================
