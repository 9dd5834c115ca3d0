-------------------------- MODULE GatewayPipeline --------------------------
(***************************************************************************)
(* The request pipeline of the gateway (packages/gateway/src/server.ts),   *)
(* the x402 payment middleware (middleware/payment.ts) and the proxy       *)
(* (services/proxy.ts), composed with the components that decide about a   *)
(* request on the way: ReplayGuard and Mandates.                           *)
(*                                                                         *)
(* Every await of the handler ends a step, so requests interleave there.   *)
(* The facilitator, the chain behind it and the upstream are not part of   *)
(* the repository: they answer, fail or lose an answer as they like, and   *)
(* the chain moves a payment once.                                         *)
(***************************************************************************)
EXTENDS Integers, FiniteSetsExt, RoutePatterns

CONSTANTS Requests, Mandates, Budgets, Prices,
          Files,         \* the routes the server may start with (see FileType)
          Keys,          \* idempotency keys
          Payments,      \* signed payment payloads
          Incoming,      \* what a request may bring (see RequestType)
          Edits,         \* the <<tool, price>> pairs an admin may PUT
          TTL, DayLen,
          Horizon,       \* bound on the clock
          MaxRestarts,   \* bound on restarts
          SameTurn,      \* see ReplayGuard
          NaN, None,
          Garbled        \* an X-Mandate header that does not parse

VARIABLES
    now,
    idem, hash, entries, timer, stopping,                  \* ReplayGuard
    verdict, pres, daily, lifetime, boot, charged,         \* Mandates
    stage,      \* where the handler of each request stands
    req,        \* what the request brought
    toolId,     \* req.toolId: the rule of the route match
    quoted,     \* req.routePrice: its price then
    price,      \* price_usdc of the rule of each tool, or None without a rule
    ahead,      \* the pairs of tools, the first ahead in currentRoutes
    x402,       \* what the x402 server asks on each line, 0 for nothing
    owed,       \* amount of the verified payment requirements, or None
    degraded,   \* the facilitator failed and the request went on (history)
    submitted,  \* requests whose settlement is under way at the facilitator
    settledBy,  \* chain: the request whose settlement moved a payment, or None
    receipts,   \* the receipt store
    status      \* the HTTP status sent, or None

rgState == <<idem, hash, entries, timer, stopping>>
mState == <<verdict, pres, daily, lifetime, boot, charged>>
routing == <<price, ahead, x402>>
money == <<owed, degraded, submitted, settledBy>>

vars == <<now, rgState, mState, stage, req, toolId, quoted, routing, money, receipts, status>>

\* The hash of a request covers its key and the price of its route.
RG == INSTANCE ReplayGuard WITH Calls <- Keys \X Prices, MaxTime <- Horizon

M == INSTANCE Mandates WITH MaxTime <- Horizon

RequestType ==
    [line : Lines, key : Keys \cup {None},
     mandate : Mandates \cup {None, Garbled}, payment : Payments \cup {None}]

NoRequest == [line |-> None, key |-> None, mandate |-> None, payment |-> None]

\* The routes of a file: their prices, and their order.
FileType == [price : [Tools -> Prices \cup {None}], ahead : SUBSET (Tools \X Tools)]

ASSUME IncomingAssumption == Incoming \subseteq RequestType
\* The loader refuses a price that is no number.
ASSUME FilesAssumption ==
    Files \subseteq FileType /\ \A f \in Files, t \in Tools : f.price[t] # NaN
ASSUME EditsAssumption == Edits \subseteq Tools \X (Prices \cup {None})
ASSUME HorizonAssumption == Horizon \in Nat
ASSUME NobodyAssumption ==
    /\ None \notin Requests /\ None \notin Mandates
    /\ None \notin Keys /\ None \notin Prices /\ None \notin Nat
    /\ Garbled \notin Mandates
\* What ReplayGuard and Mandates assume of their parameters.
ASSUME PartsAssumption ==
    /\ TTL \in Nat \ {0} /\ SameTurn \in BOOLEAN /\ None \notin Keys \X Prices
    /\ Mandates \subseteq M!MandateType
    /\ \A m, n \in Mandates : m.budget = n.budget => m.kind = n.kind
    /\ Prices \subseteq M!Amounts /\ NaN \notin Nat /\ None # NaN
    /\ DayLen \in Nat \ {0} /\ MaxRestarts \in Nat

----------------------------------------------------------------------------
Goto(r, s) == stage' = [stage EXCEPT ![r] = s]

\* res.status(code): the one response of the request.
Respond(r, code) == status' = [status EXCEPT ![r] = code]

\* Mutant: the compiled rules are not made anew when a rule is taken out.
BestEver(t, line) ==
    /\ Serves(t, line)
    /\ \A u \in Tools \ {t} : Serves(u, line) => Literals(t) > Literals(u)

\* matchRule: of the rules that serve the line the one of t has the most
\* literals, or as many and its place is first.
Best(t, line) ==
    /\ price[t] # None /\ Serves(t, line)
    /\ \A u \in Tools \ {t} :
          price[u] # None /\ Serves(u, line) =>
              \/ Literals(t) > Literals(u)
              \/ Literals(t) = Literals(u) /\ <<t, u>> \in ahead

\* buildRoutesConfig: the rule of t, among rules of prices p, is listed in the
\* x402 server, under its key.
Listed(t, p) == p[t] \notin {None, 0}

\* What x402 asks on a line, with the rules of prices p in the order o.  It
\* takes the first key that covers the line; a key has the place of the first
\* rule listed under it and the price of the last.
Asks(line, p, o, amount) ==
    LET listed == {t \in Tools : Listed(t, p) /\ line \in Covered[t]}
    IN  \/ listed = {} /\ amount = 0
        \/ \E first, last \in listed :
              /\ \A t \in listed \ {first} : <<first, t>> \in o
              /\ Key(last) = Key(first)
              /\ \A t \in listed \ {last} : Key(t) = Key(first) => <<t, last>> \in o
              /\ amount = p[last]

\* createPaymentSystem: x402 takes the rules as they are when it is made.
ListsRules(p, o) ==
    {listing \in [Lines -> Prices \cup {0}] :
        \A line \in Lines : Asks(line, p, o, listing[line])}

Receipt(r, outcome, amount, tx) ==
    [req |-> r, outcome |-> outcome, price |-> amount, tx |-> tx]

Init ==
    /\ RG!Init
    /\ M!Init
    /\ stage = [r \in Requests |-> "new"]
    /\ req = [r \in Requests |-> NoRequest]
    /\ toolId = [r \in Requests |-> None]
    /\ quoted = [r \in Requests |-> None]
    /\ \E f \in Files : price = f.price /\ ahead = f.ahead
    /\ x402 \in ListsRules(price, ahead)
    /\ owed = [r \in Requests |-> None]
    /\ degraded = [r \in Requests |-> FALSE]
    /\ submitted = {}
    /\ settledBy = [p \in Payments |-> None]
    /\ receipts = {}
    /\ status = [r \in Requests |-> None]

----------------------------------------------------------------------------
(* Up to the route match.                                                  *)

\* Mutant: the server accepts requests while it is stopping.
ArriveAnytime(r, i) ==
    /\ stage[r] = "new"
    /\ idem' = [idem EXCEPT ![r] = "arrived"]
    /\ req' = [req EXCEPT ![r] = i]
    /\ Goto(r, "checking")
    /\ UNCHANGED <<now, hash, entries, timer, stopping>>
    /\ UNCHANGED <<mState, toolId, quoted, routing, money, receipts, status>>

\* A request reaches the handler.
Arrive(r, i) ==
    /\ stage[r] = "new"
    /\ RG!Arrive(r)
    /\ req' = [req EXCEPT ![r] = i]
    /\ Goto(r, "checking")
    /\ UNCHANGED <<mState, toolId, quoted, routing, money, receipts, status>>

\* API key (401), blacklist or reputation (403): refused without a receipt in
\* the store.  The reputation check is awaited, so this is a step of its own.
Refuse(r, code) ==
    /\ stage[r] = "checking"
    /\ code \in {401, 403}
    /\ Respond(r, code)
    /\ Goto(r, "finished")
    /\ UNCHANGED <<now, rgState, mState, req, toolId, quoted, routing, money, receipts>>

\* No rule matches: 404, the one denial whose receipt is stored.
NotFound(r) ==
    /\ stage[r] = "checking"
    /\ \A t \in Tools : price[t] # None => ~Serves(t, req[r].line)
    /\ receipts' = receipts \cup {Receipt(r, "DENIED", 0, None)}
    /\ Respond(r, 404)
    /\ Goto(r, "finished")
    /\ UNCHANGED <<now, rgState, mState, req, toolId, quoted, routing, money>>

\* Mutant: the idempotency key is not looked at.
MatchUnkeyed(r) ==
    /\ stage[r] = "checking"
    /\ \E t \in Tools :
          /\ Best(t, req[r].line)
          /\ toolId' = [toolId EXCEPT ![r] = t]
          /\ quoted' = [quoted EXCEPT ![r] = price[t]]
    /\ RG!Exempt(r)
    /\ Goto(r, "mandate")
    /\ UNCHANGED <<mState, req, routing, money, receipts, status>>

\* A rule matches, its tool and price are noted, and the idempotency middleware
\* runs up to its lookup, with no await in between.
Match(r) ==
    /\ stage[r] = "checking"
    /\ \E t \in Tools :
          /\ Best(t, req[r].line)
          /\ toolId' = [toolId EXCEPT ![r] = t]
          /\ quoted' = [quoted EXCEPT ![r] = price[t]]
    /\ IF req[r].key = None
       THEN RG!Exempt(r) /\ Goto(r, "mandate")
       ELSE RG!Check(r, <<req[r].key, quoted'[r]>>) /\ Goto(r, "replay")
    /\ UNCHANGED <<mState, req, routing, money, receipts, status>>

\* 409 is sent after an await: the handler's promise is never resolved.
Replayed(r) ==
    /\ stage[r] = "replay"
    /\ RG!Reject(r)
    /\ Respond(r, 409)
    /\ Goto(r, "stranded")
    /\ UNCHANGED <<mState, req, toolId, quoted, routing, money, receipts>>

Fresh(r) ==
    /\ stage[r] = "replay"
    /\ RG!Insert(r)
    /\ Goto(r, "mandate")
    /\ UNCHANGED <<mState, req, toolId, quoted, routing, money, receipts, status>>

----------------------------------------------------------------------------
(* The mandate.                                                            *)

WithoutMandate(r) ==
    /\ stage[r] = "mandate"
    /\ req[r].mandate = None
    /\ M!Skip(r)
    /\ Goto(r, "payment")
    /\ UNCHANGED <<rgState, req, toolId, quoted, routing, money, receipts, status>>

\* 400 is sent before any await, so the handler returns.
GarbledMandate(r) ==
    /\ stage[r] = "mandate"
    /\ req[r].mandate = Garbled
    /\ M!Malformed(r)
    /\ Respond(r, 400)
    /\ Goto(r, "finished")
    /\ UNCHANGED <<rgState, req, toolId, quoted, routing, money, receipts>>

\* Mutant: the middleware falls back to a price of 0.
ReadMandateFree(r) ==
    /\ stage[r] = "mandate"
    /\ req[r].mandate \in Mandates
    /\ M!Present(r, req[r].mandate, toolId[r], 0)
    /\ Goto(r, "verifying")
    /\ UNCHANGED <<rgState, req, toolId, quoted, routing, money, receipts, status>>

ReadMandate(r) ==
    /\ stage[r] = "mandate"
    /\ req[r].mandate \in Mandates
    /\ M!Present(r, req[r].mandate, toolId[r], quoted[r])
    /\ Goto(r, "verifying")
    /\ UNCHANGED <<rgState, req, toolId, quoted, routing, money, receipts, status>>

\* Approved: on to the payment.  Denied: 403 after an await.
JudgeMandate(r) ==
    /\ stage[r] = "verifying"
    /\ M!Decide(r)
    /\ IF verdict'[r] = "OK" THEN Goto(r, "payment") /\ UNCHANGED status
                             ELSE Goto(r, "stranded") /\ Respond(r, 403)
    /\ UNCHANGED <<rgState, req, toolId, quoted, routing, money, receipts>>

----------------------------------------------------------------------------
(* The payment.                                                            *)

decided == <<now, rgState, mState, req, toolId, quoted, routing>>

\* The x402 server does not find the request line: nothing to pay.
NothingToPay(r) ==
    /\ stage[r] = "payment"
    /\ x402[req[r].line] = 0
    /\ Goto(r, "proxy")
    /\ UNCHANGED <<decided, money, receipts, status>>

\* The x402 server finds the request line: the payment is processed.
ProcessPayment(r) ==
    /\ stage[r] = "payment"
    /\ x402[req[r].line] > 0
    /\ Goto(r, "paying")
    /\ UNCHANGED <<decided, money, receipts, status>>

\* Mutant: the refusal sends its response and lets the request through.
PaymentRefusedOpen(r) ==
    /\ stage[r] = "paying"
    /\ Respond(r, 402)
    /\ Goto(r, "proxy")
    /\ UNCHANGED <<decided, money, receipts>>

\* Mutant: the refusal sends nothing.
PaymentRefusedSilently(r) ==
    /\ stage[r] = "paying"
    /\ Goto(r, "stranded")
    /\ UNCHANGED <<decided, money, receipts, status>>

\* payment-error: 402 with the requirements, sent after an await.
PaymentRefused(r) ==
    /\ stage[r] = "paying"
    /\ Respond(r, 402)
    /\ Goto(r, "stranded")
    /\ UNCHANGED <<decided, money, receipts>>

\* payment-verified: the facilitator finds the payment good for what x402
\* asks on the line, and not moved on the chain so far.
PaymentVerified(r) ==
    /\ stage[r] = "paying"
    /\ req[r].payment # None
    /\ settledBy[req[r].payment] = None
    /\ owed' = [owed EXCEPT ![r] = x402[req[r].line]]
    /\ Goto(r, "proxy")
    /\ UNCHANGED <<decided, degraded, submitted, settledBy, receipts, status>>

\* The facilitator fails: logged, and the request goes on unpaid.
PaymentDegraded(r) ==
    /\ stage[r] = "paying"
    /\ degraded' = [degraded EXCEPT ![r] = TRUE]
    /\ Goto(r, "proxy")
    /\ UNCHANGED <<decided, owed, submitted, settledBy, receipts, status>>

----------------------------------------------------------------------------
(* The upstream and the settlement.                                        *)

\* The upstream answers, with any HTTP status.
UpstreamAnswers(r) ==
    /\ stage[r] = "proxy"
    /\ Goto(r, "answered")
    /\ UNCHANGED <<decided, money, receipts, status>>

\* The receipt of the catch: UPSTREAM_ERROR_NO_CHARGE.
NoCharge(r) == Receipt(r, "ERROR", 0, None)

\* The call fails (network error, unreadable body): the catch answers 502.
UpstreamFails(r) ==
    /\ stage[r] = "proxy"
    /\ receipts' = receipts \cup {NoCharge(r)}
    /\ Respond(r, 502)
    /\ Goto(r, "failed")
    /\ UNCHANGED <<decided, money>>

\* Mutant: the settlement is asked for while the upstream is still called.
AskSettlementEarly(r) ==
    /\ stage[r] \in {"proxy", "answered"}
    /\ r \notin submitted
    /\ owed[r] # None
    /\ submitted' = submitted \cup {r}
    /\ IF stage[r] = "proxy" THEN UNCHANGED stage ELSE Goto(r, "settling")
    /\ UNCHANGED <<decided, owed, degraded, settledBy, receipts, status>>

\* settle() of a verified request: the facilitator is asked to move the money.
AskSettlement(r) ==
    /\ stage[r] = "answered"
    /\ owed[r] # None
    /\ submitted' = submitted \cup {r}
    /\ Goto(r, "settling")
    /\ UNCHANGED <<decided, owed, degraded, settledBy, receipts, status>>

\* The chain moves the payment, once; the gateway may be gone by then.
Settles(r) ==
    /\ r \in submitted
    /\ settledBy[req[r].payment] = None
    /\ settledBy' = [settledBy EXCEPT ![req[r].payment] = r]
    /\ submitted' = submitted \ {r}
    /\ UNCHANGED <<decided, stage, owed, degraded, receipts, status>>

\* The facilitator drops the settlement: refused, or moved already.
SettlementDropped(r) ==
    /\ r \in submitted
    /\ submitted' = submitted \ {r}
    /\ UNCHANGED <<decided, stage, owed, degraded, settledBy, receipts, status>>

\* settle() is done, with or without a transaction: the SUCCESS receipt and the
\* answer.  The body may be one that JSON.stringify cannot write (nested too
\* deeply): it throws at the response hash, before the receipt is stored, or in
\* res.json, after, and the catch stores its receipt and answers 502.
Finish(r, tx) ==
    LET success == Receipt(r, "SUCCESS", quoted[r], tx)
    IN  /\ \/ receipts' = receipts \cup {success} /\ Respond(r, 200)
           \/ receipts' = receipts \cup {NoCharge(r)} /\ Respond(r, 502)
           \/ receipts' = receipts \cup {success, NoCharge(r)} /\ Respond(r, 502)
        /\ Goto(r, "finished")
        /\ UNCHANGED <<decided, money>>

\* Nothing was verified, so settle() returns no transaction.
FinishUnpaid(r) ==
    /\ stage[r] = "answered"
    /\ owed[r] = None
    /\ Finish(r, None)

\* Mutant: the transaction is taken from the payload, not from the answer.
FinishAssuming(r) ==
    /\ stage[r] = "settling"
    /\ Finish(r, req[r].payment)

\* The facilitator's answer.  A success names the transaction; a failure, an
\* exception or a lost answer leaves the receipt without one.
FinishPaid(r) ==
    /\ stage[r] = "settling"
    /\ \/ settledBy[req[r].payment] = r /\ Finish(r, req[r].payment)
       \/ Finish(r, None)

----------------------------------------------------------------------------
(* The admin, the clock and the process.                                   *)

\* PUT, POST or DELETE of a route: the rules change, the x402 server does not.
\* A POST of a tool that has a rule replaces it in its place, a PUT takes the
\* rule out and appends it, as a POST of a new tool does.
EditRoute(tool, p) ==
    /\ <<tool, p>> \in Edits
    /\ price' = [price EXCEPT ![tool] = p]
    /\ \/ price[tool] # None /\ UNCHANGED ahead
       \/ p # None /\ ahead' = {o \in ahead : o[1] # tool}
                                \cup {<<t, tool>> : t \in Tools \ {tool}}
    /\ UNCHANGED <<now, rgState, mState, stage, req, toolId, quoted, x402, money, receipts, status>>

pipeline == <<stage, req, toolId, quoted, routing, money, receipts, status>>

TimerFires(r) == RG!Expire(r) /\ UNCHANGED <<mState, pipeline>>

Tick == M!Tick /\ UNCHANGED <<rgState, pipeline>>

Stop == RG!Stop /\ UNCHANGED <<mState, pipeline>>

\* No handler of the request is running.
AtRest == {"new", "finished", "failed", "stranded"}

\* Mutant: the spend trackers survive the restart, the requests do not.
RestartWithTrackers ==
    /\ RG!Restart
    /\ boot < MaxRestarts
    /\ boot' = boot + 1
    /\ verdict' = [r \in Requests |-> IF verdict[r] = "idle" THEN "idle" ELSE "gone"]
    /\ pres' = [r \in Requests |-> None]
    /\ UNCHANGED <<daily, lifetime, charged>>
    /\ stage' = [r \in Requests |->
                    IF stage[r] \in AtRest THEN stage[r] ELSE "gone"]
    /\ x402' \in ListsRules(price, ahead)
    /\ receipts' = {}
    /\ UNCHANGED <<req, toolId, quoted, price, ahead, money, status>>

\* The process is started again, on a file without a price that is no number:
\* the x402 server lists the rules as they now are, the receipts are gone, and
\* so are the requests in flight.
Restart ==
    /\ \A t \in Tools : price[t] # NaN
    /\ RG!Restart
    /\ M!Restart
    /\ stage' = [r \in Requests |->
                    IF stage[r] \in AtRest THEN stage[r] ELSE "gone"]
    /\ x402' \in ListsRules(price, ahead)
    /\ receipts' = {}
    /\ UNCHANGED <<req, toolId, quoted, price, ahead, money, status>>

\* What the gateway does for r, an answer of the facilitator or the upstream
\* included.
Step(r) ==
    \/ \E code \in {401, 403} : Refuse(r, code)
    \/ NotFound(r) \/ Match(r) \/ Replayed(r) \/ Fresh(r)
    \/ WithoutMandate(r) \/ GarbledMandate(r) \/ ReadMandate(r) \/ JudgeMandate(r)
    \/ NothingToPay(r) \/ ProcessPayment(r)
    \/ PaymentRefused(r) \/ PaymentVerified(r) \/ PaymentDegraded(r)
    \/ UpstreamAnswers(r) \/ UpstreamFails(r)
    \/ AskSettlement(r) \/ FinishUnpaid(r) \/ FinishPaid(r)

Chain(r) == Settles(r) \/ SettlementDropped(r)

Next ==
    \/ \E r \in Requests :
          \/ \E i \in Incoming : Arrive(r, i)
          \/ Step(r)
          \/ Chain(r)
          \/ TimerFires(r)
    \/ \E tool \in Tools, p \in Prices \cup {None} : EditRoute(tool, p)
    \/ Tick
    \/ Stop
    \/ Restart

Spec == Init /\ [][Next]_vars

----------------------------------------------------------------------------
Stages == {"new", "checking", "replay", "mandate", "verifying", "payment", "paying",
           "proxy", "answered", "settling", "finished", "failed", "stranded", "gone"}

\* Every variable keeps to its type.
TypeOK ==
    /\ RG!TypeOK
    /\ M!TypeOK
    /\ stage \in [Requests -> Stages]
    /\ req \in [Requests -> Incoming \cup {NoRequest}]
    /\ toolId \in [Requests -> Tools \cup {None}]
    /\ quoted \in [Requests -> Prices \cup {None}]
    /\ price \in [Tools -> Prices \cup {None}]
    /\ ahead \subseteq Tools \X Tools
    /\ x402 \in [Lines -> Prices \cup {0}]
    /\ owed \in [Requests -> Prices \cup {None}]
    /\ degraded \in [Requests -> BOOLEAN]
    /\ submitted \in SUBSET Requests
    /\ settledBy \in [Payments -> Requests \cup {None}]
    /\ receipts \subseteq [req : Requests, outcome : {"SUCCESS", "DENIED", "ERROR"},
                           price : Prices \cup {0}, tx : Payments \cup {None}]
    /\ status \in [Requests -> {200, 400, 401, 402, 403, 404, 409, 502, None}]

\* The pipeline uses its components as they are specified.
ReplaySpec == RG!Spec
MandateSpec == M!Spec

\* A receipt that names a transaction tells the truth: the chain moved that
\* payment for that very request, so no transaction is on two receipts.
ReceiptsTruthful ==
    \A x \in receipts : x.tx # None => settledBy[x.tx] = x.req

\* The settlement of r is on its way, or moved a payment.
Charged(r) == r \in submitted \/ \E p \in Payments : settledBy[p] = r

\* No money moves, nor is any asked for, before the upstream has answered, and
\* never for a request whose upstream call failed.
NoChargeWithoutAnswer ==
    \A r \in Requests : Charged(r) => stage[r] \in {"settling", "finished", "gone"}

\* The request got past the payment: the upstream is or was called for it.
Forwarded(r) ==
    /\ stage[r] \in {"proxy", "answered", "settling", "finished", "failed"}
    /\ status[r] \in {None, 200, 502}
    /\ idem[r] # "gone"

\* A call with an idempotency key reaches the upstream once per window while
\* the process runs, if requests come one after the other (~SameTurn).
KeyedCallForwardedOnce ==
    \A r \in Requests :
        Forwarded(r) /\ req[r].key # None =>
            /\ idem[r] = "admitted"
            /\ \A q \in Requests :
                  Forwarded(q) /\ hash[q] = hash[r] /\ ~stopping => q = r

\* What the payments settled for each request moved.
SettledFor == [r \in Requests |-> IF \E p \in Payments : settledBy[p] = r THEN owed[r] ELSE 0]

\* The requests under budget b, on lines that both readings of the rules give
\* to the same one.
Under(b) ==
    {r \in Requests :
        /\ req[r].line \in ClearLines
        /\ req[r].mandate \in Mandates /\ req[r].mandate.budget = b}

\* The money that moved for requests under a mandate was counted against its
\* budget, so the caps of the mandates cap the money.  It holds while no price
\* is edited, for a settlement moves the price x402 was started with, and where
\* this is the price of the rule that was matched.
SettledWithinLedger ==
    \A b \in Budgets :
        SumFunctionOnSet(SettledFor, Under(b)) <= SumFunctionOnSet(charged[b], M!Periods)

\* The periods budget b had so far: for a daily mandate the days gone by, in
\* every life of the process, for an intent the lives.
Elapsed(b) ==
    {p \in M!Periods :
        /\ p.boot <= boot /\ p.day <= M!Day(now)
        /\ p.day = 0 \/ \E m \in Mandates : m.budget = b /\ m.kind = "daily"}

\* What an agent signed caps what it pays: the money that moved for requests
\* under a mandate, however they, the facilitator and restarts interleave, is
\* within one cap (the highest signed for that budget) per period so far.
MoneyWithinCaps ==
    \A b \in Budgets : \A cap \in M!Caps(b) \cup {0} :
        (\A other \in M!Caps(b) : other <= cap) =>
            SumFunctionOnSet(SettledFor, Under(b)) <= cap * Cardinality(Elapsed(b))

\* The answer of the receipt had a price and was given without a payment,
\* though the facilitator failed neither at the verification (the request went
\* on) nor at the settlement.
GivenAway(x) ==
    /\ x.outcome = "SUCCESS" /\ x.price > 0 /\ x.tx = None
    /\ ~degraded[x.req] /\ owed[x.req] = None

\* A route with a price is served without a payment only where the facilitator
\* failed, if the x402 server looks the line up under the rule that serves it.
ServedUnpaidOnlyIfDegraded ==
    \A x \in receipts : req[x.req].line \in ClearLines => ~GivenAway(x)

\* What the documentation says of prices, that each route has its own: a call
\* is never asked for another price than that of the rule it matched.
OwedIsQuoted == \A r \in Requests : owed[r] # None => owed[r] = quoted[r]

\* The flow the README gives for a paid route, 402 then pay then 200: a call
\* that comes back with its payment is refused as a replay only if an earlier
\* one of the same hash got further than being told to pay.
PaidRetryIsNoReplay ==
    \A r \in Requests :
        status[r] = 409 /\ req[r].payment # None =>
            \E q \in Requests : q # r /\ hash[q] = hash[r] /\ status[q] # 402
=============================================================================
