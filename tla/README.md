# RequestTap Router: specification and proofs

TLA+ modules for the gateway of RequestTap Router (`packages/gateway`), the TLC
runs that check them on small instances, and TLAPS proofs of the properties
that matter most for every size.  Paths are relative to the repository;
`gateway/` stands for `packages/gateway/src/`.

## 1. The system

The gateway is one Node.js process between agents and paid APIs.  A request to
`/api/*` passes through one handler: admission (API key, blacklist,
reputation), route match, replay protection, mandate, payment (x402), proxy to
the upstream, settlement, receipt.  An admin API edits the route table.  All
state that the handler shares is in memory; the route table and the dashboard
configuration also have a file.  Beside it stand a service that keeps intents in
a contract, and a client library.

| Component | State | Operations | Talks to |
|---|---|---|---|
| Replay protection (`replay.ts`, `middleware/idempotency.ts`, `hash.ts`) | Map from a request hash to the timer that deletes it | lookup, insertion, expiry, `destroy` | called by the handler; `stop()` destroys it |
| Mandates (`ap2.ts`, `middleware/mandate.ts`) | spend per mandate id and UTC day; spend per intent over the life of the process | verify (signature, expiry, scope, budget, confirmation), record | called by the handler; read by admin statistics |
| Request pipeline (`server.ts`) | the stage of every request in flight; the receipt store | the `/api/*` handler | all of the others |
| x402 payments (`middleware/payment.ts`) | prices by method and wildcarded path, a copy made at start-up | require, verify, settle | the facilitator, over HTTP |
| Proxy (`services/proxy.ts`) | none | forward | the upstream |
| Route table (`server.ts`, `routing.ts`) | rules, compiled rules | add, remove, compile, match | handler (match), admin (edits) |
| Route administration (`admin-routes.ts`) | the routes file; calls that await | POST, PUT, DELETE, import, payment self-test | route table, x402 probe, file |
| Loader and start-up (`routes-loader.ts`, `index.ts`) | none | load, compile, probe, listen, stop | file, route table, replay store |
| SSRF check, x402 probe (`utils/`) | none | reject a backend | route compilation, admin, start-up |
| Configuration store (`services/config-store.ts`) | a JSON file, replaced by rename | load, save | handler, admin |
| Reputation (`services/reputation.ts`) | a 60 s cache | check | an ERC-8004 contract |
| BITE service (`bite.ts`), `BiteIntentStore.sol` | nonce, queue, plaintext cache; intents on chain | encrypt, reveal, read | admin API, SKALE |
| SDK client (`packages/sdk/src/client.ts`) | mandate, receipts | request, totals | the gateway |

### What is hard about it

* **Interleaving at every `await`.**  There are no threads, but two requests, or
  two admin calls, interleave wherever a handler awaits: lookup and insertion
  of a hash, signature check and budget comparison, payment verification and
  settlement, probe and `addRoute`.
* **Timers that outlive what they were made for.**  An overwritten entry of the
  replay store keeps its timer.
* **Dates read twice**, with midnight in between.
* **Money and answers out of step.**  Verification precedes the upstream call
  and settlement follows it; each of the three can fail, and the process can
  end between any two.
* **Stale copies.**  x402 keeps the prices of start-up, a request keeps its
  quote, the routes file what the last handler wrote.
* **Answers that come back in any order**: overlapping reads of a reputation
  share one cache, and the protocol's own callback races the service's reveal.
* **A counter kept in memory** (`localNonce`) for a queue that others can see, with
  sends that fail, receipts nobody looks into, and transactions that outlive the
  process.
* **Two readings of one path.**  The gateway matches a request segment by segment;
  x402 looks its path up among wildcarded keys.  They need not find the same rule.
* **A catch that covers more than it names**: what follows the settlement too.
* **Reads and writes of a file that fail**, and are answered with the defaults.
* **Restart.**  Trackers, receipts and hashes are forgotten, the file is read
  again, and it may be torn or refused.

### What makes each part correct

* Replay protection: a hash is admitted once, stays known for its window, and is
  forgotten afterwards.
* Mandates: within a life of the process no budget is overdrawn in a period, and
  what the trackers report is what was charged.
* Pipeline: receipts tell the truth about money, a failed upstream call is not charged,
  every request is answered; and where x402 and the gateway read the rules alike, a
  priced call is not served unpaid except where the facilitator failed, and the money
  that moves was counted against the mandate.
* Admission: whoever an acknowledged setting bars stays out, and no standing is
  used for longer than the cache allows.
* BITE service and contract: an intent is stored, paid for, then shown, once; the
  gateway shows only its own and as it stored it; nonces do not collide; a reveal
  answered ok has revealed.  (Not that the text is hidden before: section 5.)
* SDK client: the receipts it keeps stay true, and it spends no more than it says.
* Route table: a request is matched to the most specific rule of the *current*
  table; one rule per tool; no unvetted backend; acknowledged edits survive.

## 2. The modules

| Module | Models | Uses |
|---|---|---|
| `ReplayGuard` | replay protection | |
| `BudgetLedger` | what mandate enforcement promises (abstract) | |
| `Mandates` | mandate middleware, verifiers, trackers | refines `BudgetLedger` |
| `RoutePatterns` | how the gateway and x402 read "METHOD /path" | |
| `GatewayPipeline` | the handler, x402 payments, proxy, receipts | extends `RoutePatterns`, composes `ReplayGuard` and `Mandates` |
| `ClientSession` | the SDK client in front of the gateway | extends `GatewayPipeline` |
| `RouteTable` | route manager, route administration, routes file, loader, start-up | |
| `Settings` | configuration store, its use at start-up, the admin calls that edit it | |
| `Reputation` | reputation service and its cache | |
| `AgentAdmission` | API key, blacklist and reputation check of the handler | composes `Settings` and `Reputation` |
| `IntentLife` | what service and contract promise of an intent (abstract) | |
| `IntentStore` | the contract `BiteIntentStore.sol` | |
| `BiteService` | the BITE service, the wallet's transactions on the chain, restart | composes `IntentStore`, refines `IntentLife` |
| `ReplayGuardProofs`, `MandatesProofs`, `GatewayPipelineProofs`, `ClientSessionProofs`, `RouteTableProofs`, `BiteServiceProofs` | theorems | the module of that name |
| `AgentAdmissionProofs` | theorems | `AgentAdmission`, `Settings` and `Reputation` |
| `Folding` | lemmas about sums over finite sets | |
| `MC…` | the small instances | the module of that name |

`PROJECT.json` maps every definition to the lines it models.  Definitions whose
comment begins with *Mutant* are deliberate bugs: replacing the definition
below them by the mutant must break the property `PROJECT.json` lists, which
shows that the property says something about the code.

### Correspondence

**ReplayGuard.**  `entries` is the Map, as the set of requests whose timer handle
it holds (the key is the request's `hash`), `timer` the pending `setTimeout`s,
including those the Map no longer holds.  `Check` is the middleware up to the
first `await` in `checkReplay` (`has` computes its answer before it yields),
`Insert` the `insert` after it; `Reject` is the 409.  `Expire(r)` is the callback:
it deletes r's *hash*, whosever timer is stored under it.  `Stop` is
`gateway.stop()`: `destroy()` first, requests in flight go on.  A call (method,
path, body, price, key) is one value: the hash function is taken to be
injective on it.  Only microtasks separate lookup and insertion, so two
requests are between the two at once only if both are parsed in one turn of
the event loop.  The constant `SameTurn` says whether that may happen.

**Mandates.**  `Present` captures mandate, price and timestamp and starts the
signature check; `Decide` is everything after the `await`, in one go.  The check
reads the date once and `addSpend` reads it again: `later` lets the clock pass a
tick between the two.  `NaN` is what `parseFloat` makes of a word; `Plus` and `Over`
are `+` and `>` as JavaScript has them.  `charged` is a history variable: what was
recorded per budget and period, a period being a day of one life of the process
(daily mandate) or that whole life (intent).  `BudgetLedger` charges a budget only
within one of its caps; the refinement mapping is the identity on `charged` and
takes `Caps(b)` from the signed mandates.

**RoutePatterns.**  A line is the method and the segments of a path.  `Serves` is
`pathToRegex`: a segment that starts with a colon takes any text.  `Key` is
`rule.path.replace(/:[\w]+/g, "*")`: the colon and the word after it become a wildcard, the
rest of the segment stays, so `:item-id` becomes `*-id`, which covers only texts that end
in `-id`.  `Covers` is what the x402 library does with a key: a wildcard takes any stretch,
slashes included.  `Endings` says which texts of the instance end in which.  A line is
clear (`ClearLines`) if the one rule that serves it is the one x402 finds it under, and no
other rule does either.

**GatewayPipeline.**  `stage` is the place of the handler; each action runs from one
`await` to the next.  `Best` is `matchRule` on the rules with a price, `ahead` their order in
`currentRoutes`.  `quoted` is `req.routePrice`.  `x402` is what the payment system of
start-up asks on each *line*, whichever rule was matched: `Asks` takes the first listed key
that covers the line, at the price of the last rule that wrote this key, as insertion into
a JavaScript object does.  `owed` is the verified requirement.  The facilitator, the chain
and the upstream are the environment: `PaymentVerified`, `PaymentRefused`,
`PaymentDegraded`, `Settles`, `SettlementDropped`, `UpstreamAnswers`, `UpstreamFails`
happen as they like, except that the chain moves a payment once.  A settlement
under way outlives the process (`Restart` keeps `submitted`).  `UpstreamFails` ends in
"failed".  `Finish` has three outcomes: the SUCCESS receipt and the answer; the catch's
receipt and 502, when `JSON.stringify` throws; both receipts and 502, when `res.json` does.
"stranded" is a handler whose middleware answered after an `await`: the response is sent,
the promise of `server.ts:274-293` never resolves.  The price a request is quoted is part of
its hash, as in the code.  The answer of the upstream has some status of its own in the
code; the model's 200 stands for all of them.

**RouteTable.**  `rules` and `compiled` are `currentRoutes` and `currentCompiled`,
`file` what the routes file holds (or `Torn`), `calls` the admin calls that await a
probe or a wallet.  DELETE and PUT never await and are one step each.  `Write` is
`writeFileSync` inside its `try`: it works, does nothing, or leaves a torn file, and the
call is answered all the same.  `promised` is a history variable: tools whose
addition was acknowledged and written and that nothing took away since.  A
pattern is the sequence of its segments with the method in front; `Before` is the
comparator of `compileRoutes` with the stability of `sort` as its last criterion, and
`Compiled` puts each rule at its rank; whether a backend is private and whether an
upstream is wrapped are data.  The operator starts with a file of up to `MaxFile`
rules, no two for one tool (the loader does not check that; a file with two would be
routed by the first of them).  `Import` puts one price on its rules and does not look at it,
so it may be no number; it does not bring in the self-test's tool id.  PUT edits the
rule object in place in the code; here the edit and the re-adding are the one
step they are for any observer of the table.

**ClientSession.**  `Call` is `request()` up to its `fetch`, `Pay` the second request the
wrapped `fetch` sends on a 402 (same headers, so the same key, and a fresh payment),
`Return` the rest of `request()`, `Throw` a broken connection at any moment.  The answer
carries the receipt in a header or is the receipt; `wire` is what was ever sent, since
the store forgets at restart and the client does not.  The model keeps those receipts
that name a price (success, not found, upstream error); refusals carry receipts too,
of price 0 or without effect on a total.

**Settings.**  `disk` is the configuration file, `live` the fields of the running `config`
object it is applied to, `x402` what the payment system was built with.  `Loaded` and
`Save` take whether the read and the write work; the file is replaced by rename, so a
failed write leaves it.  `defaults` is the array of `DEFAULT_CONFIG.blacklist`, which a
failed read hands out itself (the copy at `config-store.ts:52` is shallow), so that
`Block` pushes to it.  PUT sends the fields that the dashboard sends.  `promise` is what
admin calls acknowledged, `wiped` that an edit wrote the defaults of a failed read.

**Reputation.**  A standing is whether the agent would be allowed, of which score and
minimum are the data.  `Check` takes the time and looks at the cache; `Sample` is the
moment the registry answers and `Fill` the continuation, so that reads overlap and
answers overtake one another.  `seen` remembers when the registry last held each
answer.

**AgentAdmission.**  `Arrive` is everything before the first `await` of the handler;
`Continue` is the reputation check, and a check that throws lets the request pass.
`LookUp` is the admin's query through the same cache.  `barred` records whether the
settings acknowledged at that moment keep the caller out.

**BiteService.**  `queue` is the promise chain of `enqueue`: a call begins when the one in
front has settled.  `NextNonce`, `Send` and `Landed` are the three steps of a
transaction, with an `await` after each; `Fails` is an exception at any of them, after
which the transaction may have got through.  `writeContract` estimates the gas and so
throws for a call that would revert (`Acceptable`); `storeIntent` is sent with its gas
fixed and may revert on the chain.  `Mine` executes the wallet's transactions by nonce,
`Callback` is the protocol calling `onDecrypt` with the text it decrypted.  `OtherAccount`
is anybody else calling `storeIntent`, `markPaid` or `onDecrypt`, with any text: the
contract asks the caller's name only of `markPaid`.  `opener` remembers who showed an
intent.  The blob is the text in the clear, since BITE encrypts the transaction and not
the argument; `Readable` is the getter of the public mapping.  `Restart` loses queue, nonce
and plaintexts, not what was sent.  An intent id stands for one text, as in the admin
handler that makes both of one instant.

## 3. The runs

`tlc -config <cfg> <module>`; `PROJECT.json` lists the properties of each.

| Run | Module, config | Shows |
|---|---|---|
| replay_guard | ReplayGuard, ReplayGuard.cfg | With racing lookups: `StoredForWindow`, `NoImmortalEntry`, `NoLateDuplicate`; liveness `EntriesExpire`, `EveryRequestDecided` |
| mandates | MCMandates, Mandates.cfg | `BudgetsHold`, `TrackersMatchLedger`, `ChargesCovered`, refinement of the ledger, with a price that is no number |
| pipeline | MCGatewayPipeline, Pipeline.cfg | `ReceiptsTruthful`, `NoChargeWithoutAnswer`, `SettledWithinLedger`, `MoneyWithinCaps`, `ServedUnpaidOnlyIfDegraded`, refinement of both components |
| client | MCClientSession, Client.cfg | `BookTruthful`, `SpentIsReported`, `KeyedCallForwardedOnce`; liveness `EveryCallEnds` |
| route_table | MCRouteTable, RouteTable.cfg | `RoutedToMostSpecific`, `OneRulePerTool`, `OnlyVettedBackends`, `AckedSurvives` |
| bite | MCBiteService, BiteService.cfg | `NoNonceCollision`, `GapOnlyAfterFailure`, `RevealConfirmed`, `PlaintextKept`, refinement of the life of an intent; liveness `EveryCallAnswered` |
| admission | MCAgentAdmission, Admission.cfg | `BarredStayOut`, `AckedSettingsFiled`, `StandingFresh` |

Five runs end in a counterexample; section 5 says what each of them shows.

### Bounds, and why they are enough

* *ReplayGuard*: three requests, two calls, TTL 2, arrivals up to tick 3.  Two
  requests race, the third comes after them; the ticks span two windows, and
  time goes on until the last timer ran.  Two calls keep entries of different
  hashes apart.
* *Mandates*: three requests, five mandates (two with one id and different caps,
  two intents, an unsigned one), prices 1, 3 and NaN, caps 1 and 2, days of two
  ticks, three ticks, one restart.  Two approvals overdraw any of the caps if they
  may; two days and two lives are reached, and a void total crosses midnight.
* *Pipeline*: two requests of five kinds (keyed and under a mandate; unkeyed under the
  same mandate with another payment; keyed without a mandate, with the first payment, on
  a line that two rules serve; on a line x402 does not find; and one with an unreadable
  mandate) that clash on a key, a budget or a payment; prices 0, 1 and 2, one restart.
  The rules are `/users/:id`, `/users/me` and `/items/:item-id`; the file has the first one
  alone, for nothing, or all three, with prices 2, 1 and 1.  Every hazard of the pipeline
  is between two requests and two rules.  `pipeline` lets an admin delete a route; price
  edits belong to `pipeline_dynamic_route`, because `SettledWithinLedger`,
  `MoneyWithinCaps` and `ServedUnpaidOnlyIfDegraded` fail with them (section 5).  The cap
  is 2, so that one request of price 2 exhausts it and a second one would exceed it.
* *RouteTable*: three rules that match the same lines with more or fewer
  parameters, one private and one public backend, a price that is a number and one that
  is not, files of up to two rules, two calls in flight, three admin calls in all.  A
  clash needs two calls; three allow an edit before or after it, and the file stands for
  the edits that led to it.
* *ClientSession*: two calls that may share a key, three requests, so that one of the
  calls pays and the other interferes; one payment, one restart.  A call whose process is
  gone throws.
* *Bite*: three calls, each anchoring one intent or revealing it; two texts, one account
  that is not the gateway's, one restart.  Anchor, reveal and a third call before, between
  or after them reach every stage of a reveal with every failure; the other account may
  come before any of the steps and after it.
* *Admission*: two requests or look-ups, one agent, one address, one key, a clock of
  two ticks and a TTL of one: two overlapping reads, an entry that expires, an edit
  before, between and after.  The restarts need no bound.
* Requests, and calls, are symmetric in the runs without liveness.

`CHECK_DEADLOCK FALSE` where the system stops once the bounded requests are done and
the clock has reached its bound; `Admission.cfg` and `PayoutWallet.cfg` check for
deadlock, since the operator may always start the gateway again.

### Fairness

Node runs every callback that is ready, so a step of a handler or of a due timer
that stays enabled happens: weak fairness of `Step(r)` and `Expire(r)`, and of `Tick`,
since time passes.  In `ClientSession`, `Step(r)` includes the answers of the facilitator
and of the upstream: they come, or the `fetch` fails by itself (300 s without
headers, and the exception is a handled outcome).  The chain (`Settles`), arrivals,
admin calls, `Stop` and `Restart` have no fairness.  A request whose process ends is
"gone"; its client throws, and that a client hears of an answer or of the end of the
connection is the other assumption.  `BiteService` has weak fairness of each call's own
steps: viem gives up waiting for a receipt after a timeout (`Fails`), so every stage has
a way out; nothing is assumed of the chain, and a call behind a gap ends all the same.

## 4. The proofs

`tlapm` proves every theorem below for all values of the constants under the
named assumptions of the modules (a TTL and a day of at least one tick, model
values that are not numbers, and so on).

**ReplayGuardProofs.**  `StoredForWindow` is not inductive: a forgotten timer could
delete the entry.  `ReplayInv` adds that a hash belongs to this window or an
earlier one (`HashedInThePast`), that a running timer belongs to an admitted
request (`OnlyAdmittedHold`), and the key fact, `TimersOutlastWindow`: a timer started
in a window is due after its last tick, so no timer, not even a forgotten one,
fires while its hash can still be computed.  That rests on three lemmas about
`Window` (`WindowBounds`, `WindowLength`, `WindowMonotonic`).  From it follow
`NoImmortalEntryHolds` and the action property `NoLateDuplicateHolds`.  `OnceInv`
(one lookup at a time) gives `HashAdmittedOnceHolds`, under `~SameTurn`.

**MandatesProofs.**  No assumption on prices: a rule whose price is no number disables
the budget check, a PUT can make one, and the theorems say what is left then.
`BudgetInv` adds to `TrackersMatchLedger` that no entry is dated in the future and that
no later life of the process was charged; `SpentFalls` says that what is reported under
a mandate at a later tick is no more than now, unless it is NaN, which is what makes the
second reading of the date harmless.  `DecideCharges` then shows that an approval is a
`Charge` or a `Void` of the ledger: `ImplementsLedgerHolds`, `BudgetsHoldAlways`,
`ChargesCoveredHolds`.

**GatewayPipelineProofs.**  `ControlCorrect`: in the stages after the match a request
has its input and its quote.  With it every step is a step or a stutter of
`ReplayGuard` and of `Mandates` (`ReplaySpecHolds`, `MandateSpecHolds`), so what is
proved of these two holds of the pipeline; `TypeCorrect` is put together that way.
`MoneyInv` adds to `ReceiptsTruthful` and `NoChargeWithoutAnswer` (money moves only once the
upstream has answered; not that a 502 means none did, which is false, section 5) that a
live request has no answer and no receipt.  Most steps are `Quiet` (they touch no money and
add at most a receipt without a transaction) and are handled by one lemma; settlement, its answer and
the restart are handled one by one.

* `KeyedCallForwardedOnceHolds`: `LinkInv` ties the stage of a request to what the
  replay guard thinks of it; whatever got past the middleware with a key was admitted
  under a hash of its own, and `HashAdmittedOnce` of the guard does the rest.  The
  theorem is under `~SameTurn`: if two lookups of one hash may fall into one turn of
  the event loop, both are admitted, and the property is false.
* `ServedUnpaidHolds`: on a clear line x402 asks the price of the rule that is matched
  (`AsksThePrice`: the choice of the first key and the last price made among one rule).
  `PriceInv` says that it still does while no price is edited, and that whoever got past
  the payment on such a line owes it, met a failing facilitator, or had nothing to pay.
* `SettledWithinLedgerHolds`: `LedgerInv` compares, per budget, what was charged with
  the `Weight` of *every* request past its mandate, settled or not; the property itself
  is not inductive, since a settlement raises the money without touching the ledger.
* `MoneyWithinCapsHolds` joins the last one with what `MandatesProofs` says of the
  ledger: no period above its cap (`BudgetsHoldAlways`), no period charged before it
  began (`OnlyBegunChargedHolds`).

The last three assume `OnlyDeletions` (an admin may delete routes, not edit prices) and
the last two `NaN \notin Prices`, and all three speak of clear lines.  None of this is a
convenience: with a price edit x402 still settles the price of start-up
(`pipeline_dynamic_route`), a price that is no number switches the budget off, and on a
line that is not clear another rule's price is settled (`pipeline_overlap`) or none.  What
clear lines are is computed from the rules alone, so an operator can tell whether a routes
file has others: no two rules of one method and length may match a common path, no
parameter may end in anything but word characters, and no wildcard may reach a longer path
of another rule.

**ClientSessionProofs.**  `SessionIsPipeline`: a session, retries with a payment included,
is a run of the pipeline, so every theorem above holds under the client; what it rests
on is that each call has a request of its own (`Legs`).  `SessionForwardsOnce` states one
of them.  `BookInv` (whatever was ever sent names the request its transaction paid for;
the chain moves a payment once) gives `BookTruthfulHolds`.  `SpentIsReportedHolds`
compares two sums over different sets, so it needs more than an inequality per
step: `AnswerInv` gives every charged request that was answered a receipt of its own in
the book, of the price it owes, which makes an injection from one sum to the other
(`SumInjects`).  It too assumes `OnlyDeletions` and `NaN \notin Prices`, and `Returned` counts
calls on clear lines that were not answered 502: after a body that could not be written the
client may be left with a receipt of price 0 while the money moved.

**RouteTableProofs.**  No hypothesis beyond the assumptions of the module.  `RouteInv` has
three parts: `TablesOK` (one rule per tool, only vetted backends, `compiled` is what the
sort makes of `rules`), `CallsOK` (what a call that awaits its probe still holds), and
`PromisesKept` (what was acknowledged and written is in the table *and* in the file: with the
file alone the invariant is not inductive, since a later write of another call replaces the
file by the table).  `RoutedToMostSpecificHolds` shows first that `Before` is a strict total
order, that ranks by such an order are a permutation (`Rank` is counted, so this needs
cardinalities), and then that the first match in the compiled table is the best match of the
rules.  `TypeCorrect` needs `CountInv`: there are no more refusals and awaiting calls than
edits.

**AgentAdmissionProofs.**  `FreshInv` of `Reputation`: the registry held an answer under way
when its check began or later (`AnswersSeen`), so an entry expires within TTL of a moment at
which the registry held it (`EntriesSeen`), whichever answer came back last.
`SettingsInv` of `Settings` joins types, `PromiseFiled` and `LiveIsFiled`; the one delicate
fact is that a failed read hands out defaults that may hold blocked addresses, so that
"more is blocked than acknowledged" is the invariant.  Every step of the composition is a
step or a stutter of both, so what is proved of them holds
(`AckedSettingsFiledHolds`, `StandingFreshHolds`, `TypeCorrect`).  `BarredStayOutHolds` needs
`PromiseFiled` at the arrival, since a request is judged by the file of that moment.

**BiteServiceProofs.**  `BiteInv`: only the call in front of the queue is past it (`QueueOK`),
so the nonce it holds is the last one given out (`NoncesOK`) and nobody else clears its
plaintext (`CacheOK`).  A transaction is sent only if it would not revert, and nothing
undoes what it needs of the contract (`PoolOK`), so after the receipt of a `markPaid` the
intent is paid and after that of an `onDecrypt` it is shown (`LandedOK`), although no receipt is
looked into.  This needs care with other accounts: they may take an id first or show a text of their own, so what the gateway relies
on is what they cannot undo (an owner stays, paid stays paid, shown stays shown), and the
gateway's own `markPaid` is accepted only for an intent it owns, hence stored with its
text.  With it every step is a step or a stutter of `IntentLife` (`ImplementsLifeHolds`) for
any set of other accounts and any texts.

**Folding.**  Sums are folds of the community modules, whose definition is recursive.  The
library's induction theorems take a predicate as a parameter and cannot be used here, so
the lemmas go by a smallest counterexample: a non-empty set of naturals has a least
element (`LeastNatural`), hence a non-empty set of finite sets has a minimal one
(`SmallestSubset`), hence the recursion of `MapThenFoldSet` has a solution and it is the
sum (`FoldExists`, `SumStep`).  `SumMonotone`, `SumBump`, `SumAdd`, `SumInjects` and
`SumAtMost` are what the invariants use.

**What is not proved.**  Every invariant and every safety property of the passing runs is
the statement of a theorem.  The liveness properties (`EntriesExpire`, `EveryRequestDecided`,
`EveryCallEnds`, `EveryCallAnswered`) are model-checked only: fairness needs `ENABLED`, which
is out of the prover's reach.

## 5. Where the code and its documents disagree

These are runs that TLC ends with a counterexample.

* `pipeline_paid_retry`: the idempotency key is used up by the request that is told
  to pay, so the paid retry, which the SDK sends with the same key, is answered
  409.  (A retry without a key, or in a later window, passes.)
* `pipeline_dynamic_route`: the payment system is not told of routes and prices set
  after start-up; such a route is served unpaid until the next start.
* `pipeline_overlap`: with two rules that overlap in the start-up file, x402 finds a
  request under another key than the rule that is matched; the agent is quoted and
  charged, in mandate and receipt, one price and pays the other.
* `route_refused_put`: a PUT whose new backend is refused has taken the route out of
  the table; the file still has it until the next write.
* `payout_wallet`: the payment system is built from the environment before the
  persisted configuration is applied, and no edit reaches it; the wallet the
  dashboard shows and the receipts name is not the one that is paid.

The modules show these as well, each in a few steps from the actions named:

* Windows are fixed (`Check`), so a call repeated across a window boundary is admitted
  twice within the TTL, against README.md:273.
* `UPSTREAM_ERROR_NO_CHARGE` does not mean that the agent is not billed, against
  dashboard/public/dashboard.html:969.  The catch covers what follows the settlement: a body
  that parses but is nested too deeply for `JSON.stringify` (server.ts:326, 356) is answered
  so after the money moved (`Finish`).  A failed upstream call moves no money (proved), but
  the mandate's budget stays charged (`Decide`, `UpstreamFails`).
* A parameter such as `:item-id` becomes `*-id` in the x402 server (`Key`; payment.ts:30), which
  finds no call under it: the route is served unpaid from the start, against
  dashboard/public/docs.html:471.  OpenAPI imports may bring such names
  (openapi-parser.ts:36).  `pipeline` has such a route; it is not on a clear line.
* Intents are not hidden before they are paid for, against contracts/README.md:7 and 19.
  `encryptIntent` encrypts the transaction, and the blob in it is the plaintext
  (bite.ts:143-163): once executed it stands in the contract in the clear, behind the public
  getter (BiteIntentStore.sol:23; `StoreIntent`).
* Anyone may call `onDecrypt`, with any text, or `storeIntent` under an id before the gateway
  does (`OtherAccount`): what is shown for an intent need not be what was stored.  A reveal
  whose own `onDecrypt` was overtaken on the chain is answered ok.
* A reveal that failed after its `markPaid` cannot be asked for again, against
  contracts/README.md:22: `markPaid` would revert now (bite.ts:178, BiteIntentStore.sol:53), so
  the retry fails before it comes to `onDecrypt`, and its nonce is used up too (`SendRefused`).
* POST and DELETE write the bypass flag to the file (`PostAdds`, `Delete`), against
  routing.ts:26.  The loader drops it, so a start that reads such a route fails at
  compilation; so does one that reads a route POST let through with the bypass.
* A price that PUT or an import sets to a word disables budgets (`Over`) and makes a file
  the loader refuses (`Loads`).  A total it voided on one day lets a price above the cap through
  on the next, if midnight falls between the two readings of the date.
* A configuration that cannot be read is an empty one, so no key and no blacklist
  apply (but for addresses left in the defaults), and an edit then writes the defaults
  over the file (`Loaded`, `Save`).
* PUT changes the running configuration before it saves the file and answers 500 if
  that fails (`PutConfig`).
* A failed send uses up a nonce (`SendRefused`, `Fails`): the next transactions of this
  life wait behind the gap and their calls time out.  Where the protocol's callback
  is wired up, the service's own `onDecrypt` is refused and does just that.
* A reveal after a restart marks the intent paid, reveals nothing and is answered ok
  (`Landed`, `blind`).
* The dashboard saves switches and limits for replay protection, mandates, rate limiting
  and reputation (dashboard/public/dashboard.html:1577-1586) that no code of the gateway
  reads.
* `getTotalSpent` counts a call that was served unpaid, or whose settlement failed; it may
  miss one that was charged and answered 502.

## 6. Not modelled, and why

Statistics and status handlers only read.  Of the dashboard configuration the fields
that neither the handler nor the payment system reads (SKALE labels, groups, global
price, base URL) are left out, and PUT sends no blacklist, as the dashboard does not.
The documentation
generator, the OpenAPI parser, the dashboard and logging format or transport
data.  Signatures, hashing and address arithmetic are taken as functions with
the property their users rely on.  `DELETE /admin/receipts` is left out of the
pipeline: it empties the receipt store, as `Restart` does.  JSON bodies the
validation rejects, and rate limiting, end before any state is touched.  The pattern of a
tool is fixed in `GatewayPipeline`: an edit changes its price, its place or its presence,
not its path.  A colon in the middle of a literal segment, letter case, percent-encoding and
what else the x402 library normalises in a path are not represented.  The
payment self-test registers its route with the payment system too, which the
pipeline does not have.

## 7. Plan

Done, in this order: `ReplayGuard`, `Mandates` with `BudgetLedger`, `GatewayPipeline`,
`RouteTable`; `ClientSession`, `BiteService` with `IntentStore` and `IntentLife`, `Settings`
and `Reputation` composed in `AgentAdmission`; the proofs of all of them.

1. *Route table and pipeline*: one rule object, edited by PUT while requests hold
   it (`server.ts:314`); price edits with the loader's and the payment system's view.
2. *Contract*: `onDecrypt` with a text of another account, as what the reader of an intent
   may rely on.
3. *Proofs*: what is left of the pipeline's money properties when prices are edited
   (a settlement moves the price of the last start).

## 8. Running it

    tlc -workers 2 -config Pipeline.cfg MCGatewayPipeline
    tlapm ReplayGuardProofs.tla

The largest run, `admission`, has 1.7 million states; the longest, `client`, takes about
three and a half minutes.
