--------------------------- MODULE AgentAdmission ---------------------------
(***************************************************************************)
(* Who gets past the first checks of the /api/* handler (server.ts): the   *)
(* API key and the blacklist of the dashboard configuration, read once     *)
(* when the request arrives, then the agent's reputation, which is         *)
(* awaited.  Composes Settings, whose admin calls come in between, and     *)
(* Reputation, whose cache all requests share.                             *)
(***************************************************************************)
EXTENDS Integers

CONSTANTS Requests, Agents,
          Incoming,        \* what a request may bring (see RequestType)
          Wallets, Networks, ApiKeys, Addresses, Env, DefaultNetwork,
          Unset,           \* an absent header, an empty field, no file
          TTL, MaxTime

VARIABLES up, disk, live, x402, defaults, promise, troubled, wiped,   \* Settings
          now, standing, seen, cache, phase, agent, at, sampled,      \* Reputation
          gate,     \* what the synchronous checks made of each request
          barred,   \* the settings acknowledged at its arrival bar it (history)
          trusted   \* its read worked, of a file never wiped (history)

settings == <<up, disk, live, x402, defaults, promise, troubled, wiped>>
reputation == <<now, standing, seen, cache, phase, agent, at, sampled>>
requests == <<gate, barred, trusted>>

vars == <<settings, reputation, requests>>

S == INSTANCE Settings
R == INSTANCE Reputation WITH Checks <- Requests

RequestType == [key : ApiKeys \cup {Unset}, address : Addresses \cup {Unset},
                id : Agents \cup {Unset}]

ASSUME IncomingAssumption == Incoming \subseteq RequestType
ASSUME PartsAssumption == S!SettingsParameters /\ R!ReputationParameters
ASSUME UnsetAddressAssumption == Unset \notin Addresses \cup Agents

\* Whether the acknowledged settings p keep the caller i out.
Bars(p, i) == (p.apiKey # Unset /\ i.key # p.apiKey) \/ i.address \in p.blacklist

Init ==
    /\ S!Init
    /\ R!Init
    /\ gate = [r \in Requests |-> "new"]
    /\ barred = [r \in Requests |-> FALSE]
    /\ trusted = [r \in Requests |-> FALSE]

----------------------------------------------------------------------------
\* Mutant: a configuration without an API key lets everyone in.
GateOpen(i, c) ==
    IF c.apiKey = Unset THEN "passed"
    ELSE IF i.key # c.apiKey THEN "401"
    ELSE IF i.address \in c.blacklist THEN "403" ELSE "passed"

\* The answer of the checks that do not wait, under configuration c.
Gate(i, c) ==
    IF c.apiKey # Unset /\ i.key # c.apiKey THEN "401"
    ELSE IF i.address \in c.blacklist THEN "403" ELSE "passed"

\* A request arrives; the reputation check is begun if it names an agent.
Arrive(r, i, reads) ==
    /\ up
    /\ gate[r] = "new"
    /\ gate' = [gate EXCEPT ![r] = Gate(i, S!Loaded(reads))]
    /\ barred' = [barred EXCEPT ![r] = Bars(promise, i)]
    /\ trusted' = [trusted EXCEPT ![r] = reads /\ ~wiped]
    /\ IF gate'[r] = "passed" /\ i.id # Unset
       THEN R!Check(r, i.id) ELSE UNCHANGED reputation
    /\ UNCHANGED settings

\* GET /admin/reputation: a check for the admin, through the same cache.
LookUp(r, a) ==
    /\ up
    /\ gate[r] = "new"
    /\ gate' = [gate EXCEPT ![r] = "lookup"]
    /\ R!Check(r, a)
    /\ UNCHANGED <<settings, barred, trusted>>

\* The registry answers the check of r, or does not; a failed check is logged
\* and lets the request pass.
Continue(r) ==
    /\ R!Sample(r) \/ R!Fill(r) \/ R!Fail(r)
    /\ UNCHANGED <<settings, requests>>

\* The process ends, with what it was doing and what it had cached.
Crash ==
    /\ S!End
    /\ R!Restart
    /\ UNCHANGED requests

Boot(reads, writes) == S!Start(reads, writes) /\ UNCHANGED <<reputation, requests>>

\* A call of the admin; the wallet and the network play no part here.
Administer(reads, writes) ==
    /\ \/ \E k \in ApiKeys \cup {Unset} :
             S!PutConfig(Env.payTo, Env.network, k, reads, writes)
       \/ \E a \in Addresses : S!Block(a, reads, writes) \/ S!Unblock(a, reads, writes)
    /\ UNCHANGED <<reputation, requests>>

World ==
    /\ R!Tick \/ \E a \in Agents : R!Feedback(a)
    /\ UNCHANGED <<settings, requests>>

Next ==
    \/ \E r \in Requests :
          \/ \E i \in Incoming, reads \in BOOLEAN : Arrive(r, i, reads)
          \/ \E a \in Agents : LookUp(r, a)
          \/ Continue(r)
    \/ \E reads, writes \in BOOLEAN : Boot(reads, writes) \/ Administer(reads, writes)
    \/ Crash
    \/ World

Spec == Init /\ [][Next]_vars

----------------------------------------------------------------------------
TypeOK ==
    /\ S!TypeOK
    /\ R!TypeOK
    /\ gate \in [Requests -> {"new", "lookup", "401", "403", "passed"}]
    /\ barred \in [Requests -> BOOLEAN]
    /\ trusted \in [Requests -> BOOLEAN]

\* On to the route match: no refusal, and no reputation that is too low.
Admitted(r) == gate[r] = "passed" /\ phase[r] \in {"idle", "allowed", "failed"}

\* An agent that was blocked, or a caller without the API key, does not get
\* in once the admin call was acknowledged, through restarts, failed writes
\* and later edits; it may when the configuration cannot be read.
BarredStayOut == \A r \in Requests : Admitted(r) /\ trusted[r] => ~barred[r]

\* What an admin call acknowledged is in the file that the next request reads.
AckedSettingsFiled == S!PromiseFiled

\* An agent that is let in after a check of its reputation had a sufficient
\* one less than TTL before its request arrived, or has had one since, however
\* the reads of concurrent requests overlap in the shared cache; and an agent
\* that is refused had an insufficient one.
StandingFresh == R!ResultFresh
=============================================================================
