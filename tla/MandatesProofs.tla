--------------------------- MODULE MandatesProofs ---------------------------
(***************************************************************************)
(* Budgets are not overdrawn, for any mandates, prices and bounds.         *)
(*                                                                         *)
(* The argument: what the trackers report at any tick from now on is what  *)
(* the ledger holds for the period of that tick (TrackersMatchLedger).     *)
(* So the comparison with the cap, made in the step that records the       *)
(* spend, is a comparison of the ledger with the cap.  The invariant needs *)
(* that no entry is dated later than today and that nothing was charged    *)
(* to a life of the process that has not begun.  A price that is no number *)
(* makes tracker and ledger NaN together.                                  *)
(***************************************************************************)
EXTENDS Mandates, TLAPS

----------------------------------------------------------------------------
(* Days.                                                                   *)

\* The days of the model's ticks are among the days of its periods.
LEMMA DayRange ==
    ASSUME NEW t \in 0..MaxTime
    PROVE  Day(t) \in 0..MaxTime
BY DayLenAssumption, BoundsAssumption DEF Day

\* Days follow the clock.
LEMMA DayMonotonic ==
    ASSUME NEW t \in 0..MaxTime, NEW u \in 0..MaxTime, t <= u
    PROVE  Day(t) <= Day(u)
<1> SUFFICES ASSUME Day(u) < Day(t)
             PROVE  FALSE
  BY DayRange
<1>1. /\ Day(t) * DayLen <= t
      /\ u < Day(u) * DayLen + DayLen
  BY DayLenAssumption, BoundsAssumption DEF Day
<1>2. Day(u) + 1 <= Day(t)
  BY DayRange
<1>3. (Day(u) + 1) * DayLen <= Day(t) * DayLen
  BY <1>2, DayRange, DayLenAssumption
<1>4. (Day(u) + 1) * DayLen = Day(u) * DayLen + DayLen
  BY DayRange, DayLenAssumption
<1> QED
  BY <1>1, <1>3, <1>4, DayRange, DayLenAssumption

\* The period of an approval is one of the ledger's.
LEMMA PeriodRange ==
    ASSUME NEW m \in Mandates, NEW t \in 0..MaxTime, boot \in 0..MaxRestarts
    PROVE  PeriodOf(m, t) \in Periods
BY DayRange, BoundsAssumption DEF PeriodOf, Periods

\* A verdict is one of the reason codes.
LEMMA CodeRange ==
    ASSUME NEW p, NEW t
    PROVE  Code(p, t) \in Refusals \cup {"OK"}
BY DEF Code, Refusals

----------------------------------------------------------------------------
(* Type correctness.                                                       *)

LEMMA AddedRange ==
    ASSUME TypeOK, NEW b \in Budgets, NEW amount \in Amounts, NEW t \in 0..MaxTime
    PROVE  Added(b, amount, t) \in [total : Amounts, date : (0..MaxTime) \cup {None}]
<1>1. daily[b].total \in Amounts
  BY DEF TypeOK
<1>2. SpentOn(b, t) \in Amounts
  BY <1>1 DEF SpentOn, Amounts
<1>3. Plus(SpentOn(b, t), amount) \in Amounts
  BY <1>2, NoneNaNAssumption DEF Plus, Amounts
<1> QED
  BY <1>3, DayRange DEF Added

LEMMA DecideKeepsTypes ==
    ASSUME TypeOK, NEW r \in Requests, Decide(r)
    PROVE  TypeOK'
<1> DEFINE p == pres[r]
           m == p.mandate
           code == Code(p, now)
<1>1. PICK later \in {0, 1} :
          /\ verdict[r] = "verifying"
          /\ now + later <= MaxTime
          /\ now' = now + later
          /\ verdict' = [verdict EXCEPT ![r] = code]
          /\ pres' = [pres EXCEPT ![r] = None]
          /\ IF code = "OK" THEN RecordSpend(m, p.price, now + later)
                            ELSE UNCHANGED <<daily, lifetime, charged>>
          /\ UNCHANGED boot
  BY DEF Decide
<1>2. /\ m \in Mandates /\ m.budget \in Budgets
      /\ p.price \in Amounts
  BY <1>1, MandatesAssumption, PricesAssumption DEF TypeOK, MandateType
<1>3. now' \in 0..MaxTime
  BY <1>1, BoundsAssumption DEF TypeOK
<1>4. code \in Refusals \cup {"OK"}
  BY CodeRange
<1>5. /\ verdict' \in [Requests -> Phases \cup Refusals]
      /\ verdict'[r] # "verifying"
  BY <1>1, <1>4 DEF TypeOK, Phases, Refusals
<1>6. \A q \in Requests :
          IF verdict'[q] = "verifying"
          THEN pres'[q] \in [mandate : Mandates, tool : Tools, price : Prices, at : 0..MaxTime]
          ELSE pres'[q] = None
  BY <1>1, <1>5 DEF TypeOK
<1>7. DOMAIN pres' = Requests
  BY <1>1 DEF TypeOK
<1>8. /\ daily' \in [Budgets -> [total : Amounts, date : (0..MaxTime) \cup {None}]]
      /\ lifetime' \in [Budgets -> Amounts]
  <2>1. Added(m.budget, p.price, now + later)
          \in [total : Amounts, date : (0..MaxTime) \cup {None}]
    BY <1>1, <1>2, <1>3, AddedRange
  <2>2. Plus(lifetime[m.budget], p.price) \in Amounts
    BY <1>2, NoneNaNAssumption DEF TypeOK, Plus, Amounts
  <2> QED
    BY <1>1, <1>2, <2>1, <2>2 DEF TypeOK, RecordSpend
<1>9. charged' \in [Budgets -> [Periods -> Amounts]]
  <2> DEFINE P == PeriodOf(m, now + later)
  <2>1. P \in Periods
    BY <1>1, <1>2, <1>3, PeriodRange DEF TypeOK
  <2>2. CASE code = "OK"
    <3>1. charged' = [charged EXCEPT ![m.budget][P] = Plus(@, p.price)]
      BY <1>1, <2>2 DEF RecordSpend
    <3>2. /\ charged \in [Budgets -> [Periods -> Amounts]]
          /\ Plus(charged[m.budget][P], p.price) \in Amounts
      BY <1>2, <2>1, NoneNaNAssumption DEF TypeOK, Plus, Amounts
    <3> QED
      BY <1>2, <2>1, <3>1, <3>2
  <2>3. CASE code # "OK"
    BY <1>1, <2>3 DEF TypeOK
  <2> QED
    BY <2>2, <2>3
<1> QED
  BY <1>1, <1>3, <1>5, <1>6, <1>7, <1>8, <1>9 DEF TypeOK

\* Every variable keeps to its type.
THEOREM TypeCorrect == Spec => []TypeOK
<1>1. Init => TypeOK
  <2> SUFFICES ASSUME Init
               PROVE  TypeOK
    OBVIOUS
  <2>1. /\ daily \in [Budgets -> [total : Amounts, date : (0..MaxTime) \cup {None}]]
        /\ lifetime \in [Budgets -> Amounts]
        /\ charged \in [Budgets -> [Periods -> Amounts]]
    BY DEF Init, NoEntry, Amounts
  <2> QED
    BY <2>1, BoundsAssumption DEF Init, TypeOK, Phases
<1>2. TypeOK /\ [Next]_vars => TypeOK'
  <2> SUFFICES ASSUME TypeOK, [Next]_vars
               PROVE  TypeOK'
    OBVIOUS
  <2>1. ASSUME NEW r \in Requests, Skip(r) \/ Malformed(r)
        PROVE  TypeOK'
    BY <2>1 DEF Skip, Malformed, TypeOK, Phases, trackers
  <2>2. ASSUME NEW r \in Requests, NEW m \in Mandates, NEW tool \in Tools,
               NEW price \in Prices, Present(r, m, tool, price)
        PROVE  TypeOK'
    BY <2>2 DEF Present, TypeOK, Phases, trackers
  <2>3. ASSUME NEW r \in Requests, Decide(r)
        PROVE  TypeOK'
    BY <2>3, DecideKeepsTypes
  <2>4. CASE Tick
    BY <2>4, BoundsAssumption DEF Tick, TypeOK, trackers
  <2>5. CASE Restart
    <3>1. /\ daily' \in [Budgets -> [total : Amounts, date : (0..MaxTime) \cup {None}]]
          /\ lifetime' \in [Budgets -> Amounts]
      BY <2>5 DEF Restart, NoEntry, Amounts
    <3>2. boot' \in 0..MaxRestarts
      BY <2>5, BoundsAssumption DEF Restart, TypeOK
    <3> QED
      BY <2>5, <3>1, <3>2 DEF Restart, TypeOK, Phases
  <2>6. CASE UNCHANGED vars
    BY <2>6 DEF vars, TypeOK
  <2> QED
    BY <2>1, <2>2, <2>3, <2>4, <2>5, <2>6 DEF Next
<1> QED
  BY <1>1, <1>2, PTL DEF Spec

----------------------------------------------------------------------------
(* The inductive invariant.                                                *)

\* No entry of the daily tracker is dated later than today.
DatesInThePast ==
    \A b \in Budgets : daily[b].date # None => daily[b].date <= Day(now)

\* Nothing is charged to a life of the process that has not begun.
FutureUncharged ==
    \A b \in Budgets, p \in Periods : p.boot > boot => charged[b][p] = 0

BudgetInv ==
    /\ TypeOK
    /\ DatesInThePast
    /\ FutureUncharged
    /\ TrackersMatchLedger

\* What is reported under a mandate at a later tick is what is reported now, on
\* the same day, or nothing, on another.
LEMMA SpentFalls ==
    ASSUME BudgetInv, NEW m \in Mandates, NEW t \in now..MaxTime
    PROVE  /\ Spent(m, now) \in Amounts
           /\ Spent(m, t) \in {0, Spent(m, now)}
<1> USE DEF BudgetInv
<1>1. now \in 0..MaxTime /\ t \in 0..MaxTime /\ now <= t /\ boot \in 0..MaxRestarts
  BY BoundsAssumption DEF TypeOK
<1>2. m.budget \in Budgets
  BY MandatesAssumption DEF MandateType
<1>3. Spent(m, now) \in Amounts
  BY <1>2 DEF TypeOK, Spent, SpentOn, Amounts
<1>4. CASE m.kind = "daily"
  <2>1. Day(now) <= Day(t) /\ Day(now) \in Nat /\ Day(t) \in Nat
    BY <1>1, DayMonotonic, DayRange, BoundsAssumption
  <2>2. daily[m.budget].date # None => daily[m.budget].date \in Nat
    BY <1>2 DEF TypeOK
  <2>3. SpentOn(m.budget, t) \in {0, SpentOn(m.budget, now)}
    BY <1>2, <2>1, <2>2, NoneNaNAssumption DEF SpentOn, DatesInThePast
  <2> QED
    BY <1>3, <1>4, <2>3 DEF Spent
<1>5. CASE m.kind # "daily"
  BY <1>3, <1>5 DEF Spent
<1> QED
  BY <1>4, <1>5

\* An addition that does not exceed a cap does not exceed it from 0 either.
LEMMA OverFalls ==
    ASSUME NEW a \in Amounts, NEW b \in {0, a}, NEW price \in Amounts, NEW cap \in Nat,
           ~Over(Plus(a, price), cap)
    PROVE  a # NaN => ~Over(Plus(b, price), cap)
BY NoneNaNAssumption DEF Over, Plus, Amounts

\* Every step that approves charges one budget, within the cap of the mandate
\* it approves unless the budget is void, and every other decision charges nothing.
LEMMA DecideCharges ==
    ASSUME BudgetInv, NEW r \in Requests, Decide(r)
    PROVE  /\ now' \in now..MaxTime
           /\ UNCHANGED boot
           /\ verdict[r] = "verifying"
           /\ pres[r].mandate \in Mandates
           /\ pres[r].price \in Prices
           /\ \/ UNCHANGED <<daily, lifetime, charged>>
              \/ /\ verdict'[r] = "OK"
                 /\ pres[r].mandate.signed
                 /\ RecordSpend(pres[r].mandate, pres[r].price, now')
                 /\ \/ Ledger!Voided(pres[r].mandate.budget)
                    \/ ~Over(Plus(charged[pres[r].mandate.budget]
                                         [PeriodOf(pres[r].mandate, now')],
                                  pres[r].price),
                             pres[r].mandate.cap)
<1> DEFINE p == pres[r]
           m == p.mandate
           code == Code(p, now)
<1>1. PICK later \in {0, 1} :
          /\ verdict[r] = "verifying"
          /\ now + later <= MaxTime
          /\ now' = now + later
          /\ verdict' = [verdict EXCEPT ![r] = code]
          /\ IF code = "OK" THEN RecordSpend(m, p.price, now + later)
                            ELSE UNCHANGED <<daily, lifetime, charged>>
          /\ UNCHANGED boot
  BY DEF Decide
<1>2. /\ now \in 0..MaxTime
      /\ now \in now..MaxTime
      /\ now' \in now..MaxTime
      /\ verdict'[r] = code
  BY <1>1, BoundsAssumption DEF BudgetInv, TypeOK
<1>3. /\ m \in Mandates
      /\ m.budget \in Budgets
      /\ m.cap \in Nat
      /\ p.price \in Prices
      /\ p.price \in Amounts
  BY <1>1, MandatesAssumption, PricesAssumption DEF BudgetInv, TypeOK, MandateType
<1>4. ASSUME code = "OK"
      PROVE  /\ m.signed
             /\ \/ Ledger!Voided(m.budget)
                \/ ~Over(Plus(charged[m.budget][PeriodOf(m, now')], p.price), m.cap)
  <2>1. m.signed /\ ~Over(Plus(Spent(m, now), p.price), m.cap)
    BY <1>4 DEF Code, ExceedsBudget
  <2>2. /\ Spent(m, now) \in Amounts
        /\ Spent(m, now') \in {0, Spent(m, now)}
    BY <1>2, <1>3, SpentFalls
  <2>3. /\ Spent(m, now) = charged[m.budget][PeriodOf(m, now)]
        /\ Spent(m, now') = charged[m.budget][PeriodOf(m, now')]
    BY <1>2, <1>3 DEF BudgetInv, TrackersMatchLedger
  <2>4. CASE Spent(m, now) = NaN
    <3>1. PeriodOf(m, now) \in Periods
      BY <1>2, <1>3, PeriodRange DEF BudgetInv, TypeOK
    <3>2. Ledger!Voided(m.budget)
      BY <2>3, <2>4, <3>1 DEF Ledger!Voided
    <3> QED
      BY <2>1, <3>2
  <2>5. CASE Spent(m, now) # NaN
    <3>1. ~Over(Plus(Spent(m, now'), p.price), m.cap)
      BY <1>3, <2>1, <2>2, <2>5, OverFalls
    <3> QED
      BY <2>1, <2>3, <3>1
  <2> QED
    BY <2>4, <2>5
<1> QED
  BY <1>1, <1>2, <1>3, <1>4

\* Recording a spend keeps tracker and ledger together, today and later.
LEMMA RecordKeepsMatch ==
    ASSUME BudgetInv, TypeOK', NEW m \in Mandates, NEW price \in Amounts,
           now' \in now..MaxTime, UNCHANGED boot,
           RecordSpend(m, price, now')
    PROVE  DatesInThePast' /\ FutureUncharged' /\ TrackersMatchLedger'
<1> USE DEF BudgetInv
<1> DEFINE b == m.budget
           P == PeriodOf(m, now')
<1>1. /\ now \in 0..MaxTime /\ now' \in 0..MaxTime /\ boot \in 0..MaxRestarts
      /\ now <= now'
  BY BoundsAssumption DEF TypeOK
<1>2. b \in Budgets /\ m.kind \in {"daily", "intent"} /\ P \in Periods
  BY <1>1, MandatesAssumption, PeriodRange DEF MandateType
<1>4. charged' = [charged EXCEPT ![b][P] = Plus(@, price)]
  BY DEF RecordSpend
<1>5. /\ charged'[b][P] = Plus(charged[b][P], price)
      /\ \A c \in Budgets, q \in Periods :
            c # b \/ q # P => charged'[c][q] = charged[c][q]
  BY <1>2, <1>4 DEF TypeOK
<1>6. Day(now) \in Nat /\ Day(now') \in Nat /\ Day(now) <= Day(now')
  BY <1>1, DayRange, DayMonotonic, BoundsAssumption
<1>7. \A c \in Budgets : c # b \/ m.kind # "daily" => daily'[c] = daily[c]
  BY <1>2 DEF RecordSpend, TypeOK
<1>8. \A c \in Budgets : c # b \/ m.kind = "daily" => lifetime'[c] = lifetime[c]
  BY <1>2 DEF RecordSpend, TypeOK
<1>9. m.kind = "daily" => daily'[b] = Added(b, price, now')
  BY <1>2 DEF RecordSpend, TypeOK
<1>10. DatesInThePast'
  <2> SUFFICES ASSUME NEW c \in Budgets, daily'[c].date # None
               PROVE  daily'[c].date <= Day(now')
    BY DEF DatesInThePast, Day
  <2>1. CASE c = b /\ m.kind = "daily"
    BY <1>6, <1>9, <2>1 DEF Added
  <2>2. CASE ~(c = b /\ m.kind = "daily")
    <3>1. daily[c].date \in Nat /\ daily[c].date <= Day(now)
      BY <1>7, <2>2 DEF TypeOK, DatesInThePast
    <3> QED
      BY <1>6, <1>7, <2>2, <3>1
  <2> QED
    BY <2>1, <2>2
<1>11. FutureUncharged'
  <2>1. P.boot = boot
    BY DEF PeriodOf
  <2> QED
    BY <1>1, <1>5, <2>1 DEF FutureUncharged, Periods
<1>12. TrackersMatchLedger'
  <2> SUFFICES ASSUME NEW n \in Mandates, NEW t \in now'..MaxTime
               PROVE  Spent(n, t)' = charged'[n.budget][PeriodOf(n, t)]
    BY DEF TrackersMatchLedger, PeriodOf, Day
  <2>1. /\ t \in now..MaxTime /\ t \in 0..MaxTime /\ now' <= t
        /\ n.budget \in Budgets
        /\ PeriodOf(n, t) \in Periods
    BY <1>1, MandatesAssumption, PeriodRange, BoundsAssumption DEF MandateType
  <2>2. Spent(n, t) = charged[n.budget][PeriodOf(n, t)]
    BY <2>1 DEF TrackersMatchLedger
  <2>3. CASE n.budget # b
    <3>1. charged'[n.budget][PeriodOf(n, t)] = charged[n.budget][PeriodOf(n, t)]
      BY <1>5, <2>1, <2>3
    <3>2. Spent(n, t)' = Spent(n, t)
      BY <1>7, <1>8, <2>1, <2>3 DEF Spent, SpentOn, Day
    <3> QED
      BY <2>2, <3>1, <3>2
  <2>4. CASE n.budget = b /\ m.kind = "daily"
    <3>1. n.kind = "daily"
      BY <2>4, BudgetsAssumption
    <3>2. CASE Day(t) = Day(now')
      <4>1. PeriodOf(n, t) = P
        BY <3>1, <3>2, <2>4 DEF PeriodOf
      <4>2. SpentOn(b, now') = SpentOn(b, t)
        BY <3>2 DEF SpentOn
      <4>3. SpentOn(b, t) = charged[b][P]
        BY <2>2, <2>4, <3>1, <4>1 DEF Spent
      <4>4. Spent(n, t)' = Plus(SpentOn(b, now'), price)
        BY <1>9, <2>4, <3>1, <3>2 DEF Spent, SpentOn, Added, Day
      <4> QED
        BY <1>5, <2>4, <4>1, <4>2, <4>3, <4>4
    <3>3. CASE Day(t) # Day(now')
      <4>1. Day(now') < Day(t) /\ Day(t) \in Nat
        BY <1>1, <1>6, <2>1, <3>3, DayMonotonic, DayRange
      <4>2. Spent(n, t)' = 0
        BY <1>9, <2>4, <3>1, <3>3 DEF Spent, SpentOn, Added, Day
      <4>3. daily[b].date # Day(t)
        <5>1. daily[b].date \in Nat => daily[b].date <= Day(now)
          BY <1>2, NoneNaNAssumption DEF DatesInThePast
        <5> QED
          BY <1>6, <4>1, <5>1
      <4>4. Spent(n, t) = 0
        BY <2>4, <3>1, <4>3 DEF Spent, SpentOn
      <4>5. PeriodOf(n, t) # P
        BY <2>4, <3>1, <3>3 DEF PeriodOf
      <4> QED
        BY <1>5, <2>1, <2>2, <4>2, <4>4, <4>5
    <3> QED
      BY <3>2, <3>3
  <2>5. CASE n.budget = b /\ m.kind # "daily"
    <3>1. n.kind # "daily"
      BY <2>5, BudgetsAssumption
    <3>2. PeriodOf(n, t) = P
      BY <2>5, <3>1 DEF PeriodOf
    <3>3. lifetime'[b] = Plus(lifetime[b], price)
      BY <1>2, <2>5 DEF RecordSpend, TypeOK
    <3>4. lifetime[b] = charged[b][P]
      BY <2>2, <2>5, <3>1, <3>2 DEF Spent
    <3>5. Spent(n, t)' = lifetime'[b]
      BY <2>5, <3>1 DEF Spent
    <3> QED
      BY <1>5, <2>5, <3>2, <3>3, <3>4, <3>5
  <2> QED
    BY <2>3, <2>4, <2>5
<1> QED
  BY <1>10, <1>11, <1>12

LEMMA InitBudgetInv == Init => BudgetInv
<1> SUFFICES ASSUME Init
             PROVE  BudgetInv
  OBVIOUS
<1>1. TypeOK
  <2>1. /\ daily \in [Budgets -> [total : Amounts, date : (0..MaxTime) \cup {None}]]
        /\ lifetime \in [Budgets -> Amounts]
        /\ charged \in [Budgets -> [Periods -> Amounts]]
    BY DEF Init, NoEntry, Amounts
  <2> QED
    BY <2>1, BoundsAssumption DEF Init, TypeOK, Phases
<1>2. DatesInThePast
  BY DEF Init, DatesInThePast, NoEntry
<1>3. FutureUncharged
  BY DEF Init, FutureUncharged
<1>4. TrackersMatchLedger
  <2> SUFFICES ASSUME NEW m \in Mandates, NEW t \in now..MaxTime
               PROVE  Spent(m, t) = charged[m.budget][PeriodOf(m, t)]
    BY DEF TrackersMatchLedger
  <2>1. /\ m.budget \in Budgets
        /\ t \in 0..MaxTime
        /\ boot \in 0..MaxRestarts
    BY MandatesAssumption, BoundsAssumption DEF MandateType, Init
  <2>2. charged[m.budget][PeriodOf(m, t)] = 0
    BY <2>1, PeriodRange DEF Init
  <2>3. Spent(m, t) = 0
    BY <2>1 DEF Init, Spent, SpentOn, NoEntry
  <2> QED
    BY <2>2, <2>3
<1> QED
  BY <1>1, <1>2, <1>3, <1>4 DEF BudgetInv

\* A new life of the process starts with empty trackers and an uncharged ledger.
LEMMA RestartKeepsBudgetInv ==
    ASSUME BudgetInv, TypeOK', Restart
    PROVE  BudgetInv'
<1> USE DEF BudgetInv
<1>1. /\ boot' = boot + 1
      /\ daily' = [b \in Budgets |-> NoEntry]
      /\ lifetime' = [b \in Budgets |-> 0]
      /\ UNCHANGED <<now, charged>>
  BY DEF Restart
<1>2. boot \in Nat /\ boot' \in 0..MaxRestarts
  BY BoundsAssumption DEF TypeOK
<1>3. DatesInThePast'
  BY <1>1 DEF DatesInThePast, NoEntry
<1>4. FutureUncharged'
  BY <1>1, <1>2 DEF FutureUncharged, Periods
<1>5. TrackersMatchLedger'
  <2> SUFFICES ASSUME NEW m \in Mandates, NEW t \in now..MaxTime
               PROVE  Spent(m, t)' = charged[m.budget][PeriodOf(m, t)']
    BY <1>1 DEF TrackersMatchLedger
  <2>1. m.budget \in Budgets /\ t \in 0..MaxTime
    BY MandatesAssumption, BoundsAssumption DEF MandateType, TypeOK
  <2>2. PeriodOf(m, t)' \in Periods /\ PeriodOf(m, t)'.boot = boot + 1
    BY <1>1, <1>2, <2>1, DayRange, BoundsAssumption DEF PeriodOf, Periods, Day
  <2>3. charged[m.budget][PeriodOf(m, t)'] = 0
    BY <1>2, <2>1, <2>2 DEF FutureUncharged
  <2>4. Spent(m, t)' = 0
    BY <1>1, <2>1 DEF Spent, SpentOn, NoEntry, Day
  <2> QED
    BY <2>3, <2>4
<1> QED
  BY <1>3, <1>4, <1>5

LEMMA NextKeepsBudgetInv ==
    ASSUME BudgetInv, TypeOK', [Next]_vars
    PROVE  BudgetInv'
<1>1. ASSUME NEW r \in Requests, Decide(r)
      PROVE  BudgetInv'
  <2>1. /\ now' \in now..MaxTime
        /\ UNCHANGED boot
        /\ pres[r].mandate \in Mandates
        /\ pres[r].price \in Amounts
        /\ \/ UNCHANGED <<daily, lifetime, charged>>
           \/ RecordSpend(pres[r].mandate, pres[r].price, now')
    BY <1>1, DecideCharges, PricesAssumption
  <2>2. CASE UNCHANGED <<daily, lifetime, charged>>
    <3>1. now \in 0..MaxTime /\ now' \in 0..MaxTime /\ now <= now'
      BY <2>1, BoundsAssumption DEF BudgetInv, TypeOK
    <3>2. Day(now) <= Day(now') /\ Day(now) \in Nat /\ Day(now') \in Nat
      BY <3>1, DayMonotonic, DayRange, BoundsAssumption
    <3>3. DatesInThePast'
      BY <2>2, <3>2 DEF BudgetInv, TypeOK, DatesInThePast, Day
    <3>4. FutureUncharged'
      BY <2>1, <2>2 DEF BudgetInv, FutureUncharged
    <3>5. TrackersMatchLedger'
      BY <2>1, <2>2, <3>1
         DEF BudgetInv, TrackersMatchLedger, Spent, SpentOn, PeriodOf, Day
    <3> QED
      BY <3>3, <3>4, <3>5 DEF BudgetInv
  <2>3. CASE RecordSpend(pres[r].mandate, pres[r].price, now')
    BY <2>1, <2>3, RecordKeepsMatch DEF BudgetInv
  <2> QED
    BY <2>1, <2>2, <2>3
<1>2. CASE Tick
  <2>1. /\ now' = now + 1
        /\ now \in 0..MaxTime /\ now' \in 0..MaxTime
        /\ UNCHANGED <<daily, lifetime, boot, charged>>
    BY <1>2, BoundsAssumption DEF Tick, trackers, BudgetInv, TypeOK
  <2>2. Day(now) <= Day(now') /\ Day(now) \in Nat /\ Day(now') \in Nat
    BY <2>1, DayMonotonic, DayRange, BoundsAssumption
  <2>3. DatesInThePast'
    BY <2>1, <2>2 DEF BudgetInv, TypeOK, DatesInThePast, Day
  <2>4. FutureUncharged'
    BY <2>1 DEF BudgetInv, FutureUncharged
  <2>5. TrackersMatchLedger'
    BY <2>1 DEF BudgetInv, TrackersMatchLedger, Spent, SpentOn, PeriodOf, Day
  <2> QED
    BY <2>3, <2>4, <2>5 DEF BudgetInv
<1>3. CASE Restart
  BY <1>3, RestartKeepsBudgetInv
<1>4. CASE \/ UNCHANGED vars
           \/ \E r \in Requests :
                \/ Skip(r)
                \/ Malformed(r)
                \/ \E m \in Mandates, tool \in Tools, price \in Prices :
                      Present(r, m, tool, price)
  <2>1. UNCHANGED <<now, daily, lifetime, boot, charged>>
    BY <1>4 DEF vars, trackers, Skip, Malformed, Present
  <2> QED
    BY <2>1 DEF BudgetInv, DatesInThePast, FutureUncharged, TrackersMatchLedger,
                Spent, SpentOn, PeriodOf, Day
<1> QED
  BY <1>1, <1>2, <1>3, <1>4 DEF Next

\* The invariant always holds.
THEOREM BudgetInvHolds == Spec => []BudgetInv
<1>1. BudgetInv /\ TypeOK' /\ [Next]_vars => BudgetInv'
  BY NextKeepsBudgetInv
<1> QED
  BY <1>1, InitBudgetInv, TypeCorrect, PTL DEF Spec

\* The trackers answer with what was charged, whatever prices are.
THEOREM TrackersMatchLedgerHolds == Spec => []TrackersMatchLedger
<1>1. BudgetInv => TrackersMatchLedger
  BY DEF BudgetInv
<1> QED
  BY <1>1, BudgetInvHolds, PTL

----------------------------------------------------------------------------
(* Mandate enforcement implements the capped ledger.                       *)

LEMMA InitImplementsLedger == Init => Ledger!Init
BY DEF Init, Ledger!Init

\* Every step charges within a cap, voids a budget, or charges nothing.
LEMMA StepImplementsLedger ==
    ASSUME BudgetInv, [Next]_vars
    PROVE  [Ledger!Next]_charged
<1>1. ASSUME NEW r \in Requests, Decide(r)
      PROVE  [Ledger!Next]_charged
  <2> DEFINE m == pres[r].mandate
             price == pres[r].price
             P == PeriodOf(m, now')
  <2>1. CASE UNCHANGED charged
    BY <2>1
  <2>2. CASE charged' # charged
    <3> DEFINE b == m.budget
               old == charged[b][P]
    <3>1. /\ now' \in now..MaxTime
          /\ m \in Mandates /\ m.signed
          /\ price \in Prices
          /\ RecordSpend(m, price, now')
          /\ Ledger!Voided(b) \/ ~Over(Plus(old, price), m.cap)
      BY <1>1, <2>2, DecideCharges
    <3>2. /\ b \in Budgets
          /\ m.cap \in Nat
          /\ m.cap \in Caps(b)
      BY <3>1, MandatesAssumption DEF MandateType, Caps
    <3>3. P \in Periods
      BY <3>1, PeriodRange, BoundsAssumption DEF BudgetInv, TypeOK
    <3>4. old \in Amounts /\ price \in Amounts
      BY <3>1, <3>2, <3>3, PricesAssumption DEF BudgetInv, TypeOK
    <3>5. charged' = [charged EXCEPT ![b][P] = Plus(old, price)]
      BY <3>1 DEF RecordSpend
    <3>6. old # NaN
      <4> SUFFICES ASSUME old = NaN
                   PROVE  charged' = charged
        BY <2>2
      <4>1. Plus(old, price) = old
        BY DEF Plus
      <4> QED
        BY <3>2, <3>3, <3>5, <4>1 DEF BudgetInv, TypeOK
    <3>7. CASE price = NaN
      <4>1. Ledger!Void(b, P)
        BY <3>1, <3>5, <3>7 DEF Ledger!Void, Plus
      <4> QED
        BY <3>2, <3>3, <4>1 DEF Ledger!Next
    <3>8. CASE price # NaN
      <4>1. Plus(old, price) = old + price /\ old + price \in Nat
        BY <3>4, <3>6, <3>8 DEF Plus, Amounts
      <4>2. Ledger!Voided(b) \/ old + price <= m.cap
        BY <3>1, <3>2, <4>1, NoneNaNAssumption DEF Over
      <4>3. Ledger!Charge(b, P, price)
        BY <3>2, <3>5, <3>6, <4>1, <4>2 DEF Ledger!Charge
      <4> QED
        BY <3>1, <3>2, <3>3, <3>8, <4>3 DEF Ledger!Next
    <3> QED
      BY <3>7, <3>8
  <2> QED
    BY <2>1, <2>2
<1>2. CASE ~\E r \in Requests : Decide(r)
  <2>1. UNCHANGED charged
    BY <1>2 DEF Next, vars, trackers, Skip, Malformed, Present, Tick, Restart
  <2> QED
    BY <2>1
<1> QED
  BY <1>1, <1>2

\* Mandate enforcement implements the capped ledger.
THEOREM ImplementsLedgerHolds == Spec => ImplementsLedger
<1>1. BudgetInv /\ [Next]_vars => [Ledger!Next]_charged
  BY StepImplementsLedger
<1> QED
  BY <1>1, InitImplementsLedger, BudgetInvHolds, PTL DEF Spec, ImplementsLedger, Ledger!Spec

\* No budget is overdrawn in any period, as long as it is charged numbers.
THEOREM BudgetsHoldAlways == Spec => []BudgetsHold
<1>1. Init => BudgetsHold
  BY DEF Init, BudgetsHold, Ledger!WithinCap
<1>2. BudgetInv /\ BudgetsHold /\ [Next]_vars => BudgetsHold'
  <2> SUFFICES ASSUME BudgetInv, BudgetsHold, [Next]_vars
               PROVE  BudgetsHold'
    OBVIOUS
  <2>1. [Ledger!Next]_charged
    BY StepImplementsLedger
  <2>2. CASE UNCHANGED charged
    BY <2>2 DEF BudgetsHold, Ledger!WithinCap, Ledger!Voided
  <2>3. CASE Ledger!Next
    <3>1. PICK b \in Budgets, p \in Periods :
            \/ \E amount \in Prices \ {NaN} : Ledger!Charge(b, p, amount)
            \/ Ledger!Void(b, p)
      BY <2>3 DEF Ledger!Next
    <3>2. CASE Ledger!Void(b, p)
      <4>1. \A c \in Budgets, q \in Periods :
              charged'[c][q] = IF c = b /\ q = p THEN NaN ELSE charged[c][q]
        BY <3>2 DEF BudgetInv, TypeOK, Ledger!Void
      <4> QED
        BY <4>1 DEF BudgetsHold, Ledger!WithinCap, Ledger!Voided
    <3>3. ASSUME NEW amount \in Prices \ {NaN}, Ledger!Charge(b, p, amount)
          PROVE  BudgetsHold'
      <4>1. \A c \in Budgets, q \in Periods :
              charged'[c][q] = IF c = b /\ q = p THEN charged[b][p] + amount ELSE charged[c][q]
        BY <3>3 DEF BudgetInv, TypeOK, Ledger!Charge
      <4>2. \A c \in Budgets : Ledger!Voided(c) => Ledger!Voided(c)'
        BY <3>3, <4>1 DEF Ledger!Charge, Ledger!Voided
      <4>3. \A q \in Periods :
              Ledger!Voided(b)' \/ charged'[b][q] = 0 \/ \E cap \in Caps(b) : charged'[b][q] <= cap
        BY <3>3, <4>1, <4>2 DEF Ledger!Charge, BudgetsHold, Ledger!WithinCap
      <4>4. \A c \in Budgets \ {b}, q \in Periods :
              Ledger!Voided(c)' \/ charged'[c][q] = 0 \/ \E cap \in Caps(c) : charged'[c][q] <= cap
        BY <4>1, <4>2 DEF BudgetsHold, Ledger!WithinCap
      <4>5. \A c \in Budgets, q \in Periods :
              Ledger!Voided(c)' \/ charged'[c][q] = 0 \/ \E cap \in Caps(c) : charged'[c][q] <= cap
        BY <4>3, <4>4, Zenon
      <4> QED
        BY <4>5 DEF BudgetsHold, Ledger!WithinCap, Ledger!Voided
    <3> QED
      BY <3>1, <3>2, <3>3
  <2> QED
    BY <2>1, <2>2, <2>3
<1> QED
  BY <1>1, <1>2, BudgetInvHolds, PTL DEF Spec

\* Every charge comes with the approval of a mandate whose own cap covers it,
\* unless the budget is void, and only a price that is no number voids it.
THEOREM ChargesCoveredHolds == Spec => ChargesCovered
<1>1. ASSUME BudgetInv, [Next]_vars, NEW b \in Budgets, NEW p \in Periods,
             charged'[b][p] # charged[b][p]
      PROVE  \E r \in Requests :
                 /\ verdict[r] = "verifying" /\ verdict'[r] = "OK"
                 /\ pres[r].mandate.budget = b
                 /\ Over(charged'[b][p], pres[r].mandate.cap) => Ledger!Voided(b)
                 /\ charged'[b][p] = NaN => pres[r].price = NaN
  <2>1. PICK r \in Requests : Decide(r)
    BY <1>1 DEF Next, vars, trackers, Skip, Malformed, Present, Tick, Restart
  <2> DEFINE m == pres[r].mandate
             price == pres[r].price
             P == PeriodOf(m, now')
             old == charged[m.budget][P]
  <2>2. /\ now' \in now..MaxTime
        /\ verdict[r] = "verifying" /\ verdict'[r] = "OK"
        /\ m \in Mandates
        /\ price \in Prices
        /\ RecordSpend(m, price, now')
        /\ Ledger!Voided(m.budget) \/ ~Over(Plus(old, price), m.cap)
    BY <1>1, <2>1, DecideCharges
  <2>3. m.budget \in Budgets /\ P \in Periods
    BY <1>1, <2>2, MandatesAssumption, PeriodRange, BoundsAssumption
       DEF MandateType, BudgetInv, TypeOK
  <2>4. charged' = [charged EXCEPT ![m.budget][P] = Plus(old, price)]
    BY <2>2 DEF RecordSpend
  <2>5. b = m.budget /\ p = P /\ charged'[b][p] = Plus(old, price)
    BY <1>1, <2>3, <2>4 DEF BudgetInv, TypeOK
  <2>6. old \in Amounts /\ price \in Amounts /\ old # Plus(old, price)
    BY <1>1, <2>2, <2>3, <2>5, PricesAssumption DEF BudgetInv, TypeOK
  <2>7. Plus(old, price) = NaN => price = NaN
    BY <2>6, NoneNaNAssumption DEF Plus, Amounts
  <2> QED
    BY <2>2, <2>5, <2>7
<1>2. BudgetInv /\ [Next]_vars =>
        [\A b \in Budgets, p \in Periods :
            charged'[b][p] # charged[b][p] =>
                \E r \in Requests :
                    /\ verdict[r] = "verifying" /\ verdict'[r] = "OK"
                    /\ pres[r].mandate.budget = b
                    /\ Over(charged'[b][p], pres[r].mandate.cap) => Ledger!Voided(b)
                    /\ charged'[b][p] = NaN => pres[r].price = NaN]_vars
  BY <1>1
<1> QED
  BY <1>2, BudgetInvHolds, PTL DEF Spec, ChargesCovered

-----------------------------------------------------------------------------
(* What is charged is charged to a period that has begun.                  *)

\* A budget is charged for lives of the process and days gone by, and for other
\* days than day 0, the one of intents, only under a daily mandate.
OnlyBegunCharged ==
    \A b \in Budgets, p \in Periods :
        charged[b][p] # 0 =>
            /\ p.boot <= boot /\ p.day <= Day(now)
            /\ p.day = 0 \/ \E m \in Mandates : m.budget = b /\ m.kind = "daily"

LEMMA OnlyBegunStep ==
    ASSUME BudgetInv, TypeOK', OnlyBegunCharged, [Next]_vars
    PROVE  OnlyBegunCharged'
<1>1. boot \in Nat /\ boot' \in Nat /\ now \in 0..MaxTime /\ now' \in 0..MaxTime
  BY BoundsAssumption DEF BudgetInv, TypeOK
<1>2. now <= now' /\ boot <= boot'
  <2>1. ASSUME NEW r \in Requests, Decide(r)
        PROVE  now <= now' /\ boot <= boot'
    BY <1>1, <2>1, BoundsAssumption DEF Decide
  <2>2. CASE Tick \/ Restart
    BY <1>1, <2>2, BoundsAssumption DEF Tick, Restart, trackers
  <2>3. CASE \/ UNCHANGED vars
             \/ \E r \in Requests :
                  \/ Skip(r)
                  \/ Malformed(r)
                  \/ \E m \in Mandates, tool \in Tools, price \in Prices :
                        Present(r, m, tool, price)
    BY <1>1, <2>3, BoundsAssumption DEF vars, trackers, Skip, Malformed, Present
  <2> QED
    BY <2>1, <2>2, <2>3 DEF Next
<1>3. Day(now) <= Day(now') /\ Day(now) \in Nat /\ Day(now') \in Nat
  BY <1>1, <1>2, DayMonotonic, DayRange, BoundsAssumption
<1>4. ASSUME charged' = charged
      PROVE  OnlyBegunCharged'
  <2> SUFFICES ASSUME NEW b \in Budgets, NEW p \in Periods, charged[b][p] # 0
               PROVE  /\ p.boot <= boot' /\ p.day <= Day(now')
                      /\ p.day = 0
                         \/ \E m \in Mandates : m.budget = b /\ m.kind = "daily"
    BY <1>4 DEF OnlyBegunCharged, Periods, Day
  <2>1. p.boot \in Nat /\ p.day \in Nat
    BY BoundsAssumption DEF Periods
  <2>2. p.boot <= boot /\ p.day <= Day(now)
    BY DEF OnlyBegunCharged
  <2> QED
    BY <1>1, <1>2, <1>3, <2>1, <2>2 DEF OnlyBegunCharged
<1>5. ASSUME NEW r \in Requests, Decide(r), charged' # charged
      PROVE  OnlyBegunCharged'
  <2> DEFINE m == pres[r].mandate
             P == PeriodOf(m, now')
  <2>1. /\ m \in Mandates /\ boot' = boot
        /\ charged' = [charged EXCEPT ![m.budget][P] = Plus(@, pres[r].price)]
    BY <1>5, DecideCharges DEF RecordSpend
  <2> SUFFICES ASSUME NEW b \in Budgets, NEW p \in Periods, charged'[b][p] # 0
               PROVE  /\ p.boot <= boot' /\ p.day <= Day(now')
                      /\ p.day = 0
                         \/ \E n \in Mandates : n.budget = b /\ n.kind = "daily"
    BY DEF OnlyBegunCharged, Periods, Day
  <2>2. CASE b = m.budget /\ p = P
    BY <1>1, <1>3, <2>1, <2>2 DEF PeriodOf
  <2>3. CASE ~(b = m.budget /\ p = P)
    <3>1. charged'[b][p] = charged[b][p]
      BY <2>1, <2>3 DEF BudgetInv, TypeOK
    <3>2. p.boot <= boot /\ p.day <= Day(now) /\ p.boot \in Nat /\ p.day \in Nat
      BY <3>1, BoundsAssumption DEF OnlyBegunCharged, Periods
    <3> QED
      BY <1>1, <1>3, <2>1, <3>1, <3>2 DEF OnlyBegunCharged
  <2> QED
    BY <2>2, <2>3
<1>6. ASSUME charged' # charged
      PROVE  \E r \in Requests : Decide(r)
  BY <1>6 DEF Next, vars, trackers, Skip, Malformed, Present, Tick, Restart
<1> QED
  BY <1>4, <1>5, <1>6

\* The ledger has entries for periods that have begun only, so there are no more
\* of them than days and lives of the process.
THEOREM OnlyBegunChargedHolds == Spec => []OnlyBegunCharged
<1>1. Init => OnlyBegunCharged
  BY DEF Init, OnlyBegunCharged
<1>2. BudgetInv /\ TypeOK' /\ OnlyBegunCharged /\ [Next]_vars => OnlyBegunCharged'
  BY OnlyBegunStep
<1> QED
  BY <1>1, <1>2, BudgetInvHolds, TypeCorrect, PTL DEF Spec
=============================================================================
