------------------------------ MODULE Mandates ------------------------------
(***************************************************************************)
(* Mandate enforcement: the mandate middleware                             *)
(* (packages/gateway/src/middleware/mandate.ts), the two verifiers and the *)
(* two spend trackers (ap2.ts).                                            *)
(*                                                                         *)
(* A verification is two steps of the event loop.  Present captures the    *)
(* mandate, the price and the timestamp and starts the signature check;    *)
(* Decide runs all the rest, after the await, in one go: the checks, the   *)
(* budget comparison and the addition to the tracker.  Days are those of   *)
(* the clock; the trackers read it twice, and midnight may fall between.   *)
(*                                                                         *)
(* The trackers live in memory.  The history variable "charged" keeps what *)
(* they were told, per budget and per period: a day of one life of the     *)
(* process for a daily mandate, the whole life for an intent mandate.      *)
(***************************************************************************)
EXTENDS Integers, FiniteSetsExt

CONSTANTS Requests,      \* requests, each verified at most once
          Mandates,      \* the mandates agents present
          Budgets,       \* mandate ids and intent ids
          Tools,         \* tool ids of routes
          Prices,        \* prices of routes, as parseFloat reads them
          DayLen,        \* ticks in a UTC day
          MaxTime,       \* bound on the clock
          MaxRestarts,   \* bound on restarts of the process
          NaN,           \* what parseFloat makes of a price that is no number
          None           \* no value

Amounts == Nat \cup {NaN}

\* A mandate as signed.  "scope" holds the tools it lists (for an intent, all
\* tools if its merchants include the gateway's domain, else none).
MandateType ==
    [kind : {"daily", "intent"}, budget : Budgets, cap : Nat, expiry : Nat,
     scope : SUBSET Tools, confirmOver : Nat \cup {None}, signed : BOOLEAN]

ASSUME MandatesAssumption == Mandates \subseteq MandateType
\* The ids of the two kinds index two different Maps.
ASSUME BudgetsAssumption ==
    \A m, n \in Mandates : m.budget = n.budget => m.kind = n.kind
ASSUME PricesAssumption == Prices \subseteq Amounts
ASSUME DayLenAssumption == DayLen \in Nat \ {0}
ASSUME BoundsAssumption == MaxTime \in Nat /\ MaxRestarts \in Nat
ASSUME NoneNaNAssumption == None \notin Nat /\ NaN \notin Nat /\ None # NaN

VARIABLES now,        \* the clock
          verdict,    \* where each request stands: a phase, or a reason code
          pres,       \* what a request under verification captured
          daily,      \* SpendTracker.dailyTotals
          lifetime,   \* LifetimeSpendTracker.totals
          boot,       \* restarts so far (history)
          charged     \* amounts recorded per budget and period (history)

vars == <<now, verdict, pres, daily, lifetime, boot, charged>>

----------------------------------------------------------------------------
(* Numbers as JavaScript has them: NaN absorbs sums and fails comparisons. *)

Plus(a, b) == IF a = NaN \/ b = NaN THEN NaN ELSE a + b
Over(a, b) == a # NaN /\ a > b

----------------------------------------------------------------------------
(* The trackers.                                                           *)

Day(t) == t \div DayLen

Periods == [boot : 0..MaxRestarts, day : 0..MaxTime]

\* The period an approval at tick t is charged to; an intent has one only.
PeriodOf(m, t) == [boot |-> boot, day |-> IF m.kind = "daily" THEN Day(t) ELSE 0]

NoEntry == [total |-> 0, date |-> None]

\* Mutant: the entry of the day before is taken for today's.
SpentYesterday(b, t) == IF daily[b].date = Day(t) - 1 THEN daily[b].total ELSE 0

\* getSpent of the daily tracker: an entry of another day counts for nothing.
SpentOn(b, t) == IF daily[b].date = Day(t) THEN daily[b].total ELSE 0

\* Mutant: the entry of an earlier day still counts, and is never reset.
AddedForever(b, amount, t) ==
    [total |-> Plus(daily[b].total, amount), date |-> Day(t)]

\* addSpend of the daily tracker: the entry of another day is replaced.
Added(b, amount, t) ==
    [total |-> Plus(SpentOn(b, t), amount), date |-> Day(t)]

Spent(m, t) == IF m.kind = "daily" THEN SpentOn(m.budget, t) ELSE lifetime[m.budget]

----------------------------------------------------------------------------
(* The verifiers: the reason code of the first check that fails, or "OK".  *)

Refusals == {"INVALID_SIGNATURE", "MANDATE_EXPIRED", "ENDPOINT_NOT_ALLOWLISTED",
             "MERCHANT_NOT_MATCHED", "MANDATE_BUDGET_EXCEEDED",
             "INTENT_BUDGET_EXCEEDED", "MANDATE_CONFIRM_REQUIRED"}

ExceedsBudget(m, price, t) == Over(Plus(Spent(m, t), price), m.cap)

NeedsConfirm(m, price) ==
    m.kind = "daily" /\ m.confirmOver # None /\ Over(price, m.confirmOver)

\* Mutant: the budget check compares what was spent before this request.
CodeSpentOnly(p, t) ==
    LET m == p.mandate  intent == m.kind = "intent" IN
    IF ~m.signed THEN "INVALID_SIGNATURE"
    ELSE IF m.expiry < p.at THEN "MANDATE_EXPIRED"
    ELSE IF p.tool \notin m.scope
         THEN IF intent THEN "MERCHANT_NOT_MATCHED" ELSE "ENDPOINT_NOT_ALLOWLISTED"
    ELSE IF Over(Spent(m, t), m.cap)
         THEN IF intent THEN "INTENT_BUDGET_EXCEEDED" ELSE "MANDATE_BUDGET_EXCEEDED"
    ELSE IF NeedsConfirm(m, p.price) THEN "MANDATE_CONFIRM_REQUIRED"
    ELSE "OK"

\* The verdict on presentation p when the tracker is read at tick t.
Code(p, t) ==
    LET m == p.mandate  intent == m.kind = "intent" IN
    IF ~m.signed THEN "INVALID_SIGNATURE"
    ELSE IF m.expiry < p.at THEN "MANDATE_EXPIRED"
    ELSE IF p.tool \notin m.scope
         THEN IF intent THEN "MERCHANT_NOT_MATCHED" ELSE "ENDPOINT_NOT_ALLOWLISTED"
    ELSE IF ExceedsBudget(m, p.price, t)
         THEN IF intent THEN "INTENT_BUDGET_EXCEEDED" ELSE "MANDATE_BUDGET_EXCEEDED"
    ELSE IF NeedsConfirm(m, p.price) THEN "MANDATE_CONFIRM_REQUIRED"
    ELSE "OK"

----------------------------------------------------------------------------
Init ==
    /\ now = 0
    /\ verdict = [r \in Requests |-> "idle"]
    /\ pres = [r \in Requests |-> None]
    /\ daily = [b \in Budgets |-> NoEntry]
    /\ lifetime = [b \in Budgets |-> 0]
    /\ boot = 0
    /\ charged = [b \in Budgets |-> [p \in Periods |-> 0]]

trackers == <<daily, lifetime, boot, charged>>

\* No X-Mandate header: the verdict is SKIPPED and the request passes.
Skip(r) ==
    /\ verdict[r] = "idle"
    /\ verdict' = [verdict EXCEPT ![r] = "SKIPPED"]
    /\ UNCHANGED <<now, pres, trackers>>

\* The header is not base64 of JSON: 400 at once.
Malformed(r) ==
    /\ verdict[r] = "idle"
    /\ verdict' = [verdict EXCEPT ![r] = "malformed"]
    /\ UNCHANGED <<now, pres, trackers>>

\* The mandate is read and its signature check begins.
Present(r, m, tool, price) ==
    /\ verdict[r] = "idle"
    /\ verdict' = [verdict EXCEPT ![r] = "verifying"]
    /\ pres' = [pres EXCEPT ![r] =
                    [mandate |-> m, tool |-> tool, price |-> price, at |-> now]]
    /\ UNCHANGED <<now, trackers>>

\* addSpend on the tracker of the mandate's kind, at tick t.
RecordSpend(m, price, t) ==
    /\ IF m.kind = "daily"
       THEN /\ daily' = [daily EXCEPT ![m.budget] = Added(m.budget, price, t)]
            /\ UNCHANGED lifetime
       ELSE /\ lifetime' = [lifetime EXCEPT ![m.budget] = Plus(@, price)]
            /\ UNCHANGED daily
    /\ charged' = [charged EXCEPT ![m.budget][PeriodOf(m, t)] = Plus(@, price)]

\* Mutant: the spend is recorded before the verdict is known.
DecideRecordingFirst(r) ==
    \E later \in {0, 1} :
        LET p == pres[r]  code == Code(p, now) IN
        /\ verdict[r] = "verifying"
        /\ now + later <= MaxTime
        /\ now' = now + later
        /\ verdict' = [verdict EXCEPT ![r] = code]
        /\ pres' = [pres EXCEPT ![r] = None]
        /\ RecordSpend(p.mandate, p.price, now + later)
        /\ UNCHANGED boot

\* The signature check is done: the verdict, and on approval the spend.  The
\* clock may pass a tick ("later") between the two readings of the date.
Decide(r) ==
    \E later \in {0, 1} :
        LET p == pres[r]  code == Code(p, now) IN
        /\ verdict[r] = "verifying"
        /\ now + later <= MaxTime
        /\ now' = now + later
        /\ verdict' = [verdict EXCEPT ![r] = code]
        /\ pres' = [pres EXCEPT ![r] = None]
        /\ IF code = "OK" THEN RecordSpend(p.mandate, p.price, now + later)
                          ELSE UNCHANGED <<daily, lifetime, charged>>
        /\ UNCHANGED boot

Tick ==
    /\ now < MaxTime
    /\ now' = now + 1
    /\ UNCHANGED <<verdict, pres, trackers>>

\* Mutant: the restart forgets no presentation.
RestartKeeping ==
    /\ boot < MaxRestarts
    /\ boot' = boot + 1
    /\ verdict' = [r \in Requests |-> IF verdict[r] = "idle" THEN "idle" ELSE "gone"]
    /\ daily' = [b \in Budgets |-> NoEntry]
    /\ lifetime' = [b \in Budgets |-> 0]
    /\ UNCHANGED <<now, pres, charged>>

\* The process stops and is started again: the trackers are empty.
Restart ==
    /\ boot < MaxRestarts
    /\ boot' = boot + 1
    /\ verdict' = [r \in Requests |-> IF verdict[r] = "idle" THEN "idle" ELSE "gone"]
    /\ pres' = [r \in Requests |-> None]
    /\ daily' = [b \in Budgets |-> NoEntry]
    /\ lifetime' = [b \in Budgets |-> 0]
    /\ UNCHANGED <<now, charged>>

Next ==
    \/ \E r \in Requests :
          \/ Skip(r)
          \/ Malformed(r)
          \/ \E m \in Mandates, tool \in Tools, price \in Prices : Present(r, m, tool, price)
          \/ Decide(r)
    \/ Tick
    \/ Restart

Spec == Init /\ [][Next]_vars

----------------------------------------------------------------------------
Phases == {"idle", "SKIPPED", "malformed", "verifying", "gone", "OK"}

\* Every variable keeps to its type.
TypeOK ==
    /\ now \in 0..MaxTime
    /\ verdict \in [Requests -> Phases \cup Refusals]
    /\ \A r \in Requests :
          IF verdict[r] = "verifying"
          THEN pres[r] \in [mandate : Mandates, tool : Tools, price : Prices, at : 0..MaxTime]
          ELSE pres[r] = None
    /\ DOMAIN pres = Requests
    /\ daily \in [Budgets -> [total : Amounts, date : (0..MaxTime) \cup {None}]]
    /\ lifetime \in [Budgets -> Amounts]
    /\ boot \in 0..MaxRestarts
    /\ charged \in [Budgets -> [Periods -> Amounts]]

\* The caps that validly signed mandates with this id state.
Caps(b) == {m.cap : m \in {n \in Mandates : n.budget = b /\ n.signed}}

\* The promise the trackers implement.
Ledger == INSTANCE BudgetLedger

\* Mandate enforcement implements the capped ledger: every approval charges
\* its budget within a cap, at midnight and after a restart too, until a price
\* that is no number voids it.
ImplementsLedger == Ledger!Spec

\* No budget is overdrawn in any period, as long as it is charged numbers.
BudgetsHold == Ledger!WithinCap

\* The trackers answer with what was charged: asked now or at any later tick,
\* the spending they report under a mandate is the spending of that period,
\* so nothing is forgotten during a day and nothing is carried into the next,
\* not even that the sum is no number any more.
TrackersMatchLedger ==
    \A m \in Mandates, t \in now..MaxTime :
        Spent(m, t) = charged[m.budget][PeriodOf(m, t)]

\* A charge comes with the approval of a mandate on that budget, and the cap of
\* that very mandate covers the new total, also where other mandates with the
\* same id state a higher cap.  Only a price that is no number voids a total,
\* and a void total of the day that ends may overdraw the day that begins.
ChargesCovered ==
    [][\A b \in Budgets, p \in Periods :
          charged'[b][p] # charged[b][p] =>
              \E r \in Requests :
                  /\ verdict[r] = "verifying" /\ verdict'[r] = "OK"
                  /\ pres[r].mandate.budget = b
                  /\ Over(charged'[b][p], pres[r].mandate.cap) => Ledger!Voided(b)
                  /\ charged'[b][p] = NaN => pres[r].price = NaN]_vars
=============================================================================
