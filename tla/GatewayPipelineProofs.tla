----------------------- MODULE GatewayPipelineProofs -----------------------
(***************************************************************************)
(* The pipeline uses its two components as they are specified: its         *)
(* behaviours, seen through the variables of ReplayGuard and of Mandates,  *)
(* are behaviours of those modules, so what is proved there holds here.    *)
(* With it: a receipt names only a transaction that paid for its request,  *)
(* and a request whose upstream call failed is never charged (MoneyInv); a *)
(* call with a key is forwarded once (LinkInv); and, while no price is     *)
(* edited, nothing with a price is served unpaid unless the facilitator    *)
(* failed (PriceInv), and the money that moves was counted against the     *)
(* budgets (LedgerInv), so that the caps of the mandates cap it.           *)
(***************************************************************************)
EXTENDS GatewayPipeline, Folding, TLAPS

----------------------------------------------------------------------------
(* What the steps read: the request, its quote, the route prices.          *)

\* Stages between the route match and the end.
Matched == {"replay", "mandate", "verifying", "payment", "paying", "proxy",
            "answered", "settling"}

ControlOK ==
    /\ stage \in [Requests -> Stages]
    /\ req \in [Requests -> Incoming \cup {NoRequest}]
    /\ toolId \in [Requests -> Tools \cup {None}]
    /\ quoted \in [Requests -> Prices \cup {None}]
    /\ ahead \subseteq Tools \X Tools
    /\ price \in [Tools -> Prices \cup {None}]
    /\ \A r \in Requests : stage[r] \in Stages \ {"new", "gone"} => req[r] \in Incoming
    /\ \A r \in Requests : stage[r] \in Matched => toolId[r] \in Tools /\ quoted[r] \in Prices

\* A step of the handler that moves r to stage s and reads nothing new.
Moves(r, s) ==
    /\ stage[r] \in Stages \ {"new", "gone"} /\ s \in Stages \ {"new"}
    /\ s \in Matched => stage[r] \in Matched
    /\ stage' = [stage EXCEPT ![r] = s]
    /\ UNCHANGED <<req, toolId, quoted, price, ahead>>

LEMMA MovesKeepControl ==
    ASSUME ControlOK, NEW r \in Requests, NEW s, Moves(r, s)
    PROVE  ControlOK'
BY DEF ControlOK, Moves, Matched, Stages

\* The steps of the handler that only move on.
LEMMA HandlerMoves ==
    ASSUME ControlOK, NEW r \in Requests,
           \/ \E code \in {401, 403} : Refuse(r, code)
           \/ NotFound(r) \/ Replayed(r) \/ Fresh(r)
           \/ WithoutMandate(r) \/ GarbledMandate(r) \/ ReadMandate(r) \/ JudgeMandate(r)
           \/ NothingToPay(r) \/ ProcessPayment(r)
           \/ PaymentRefused(r) \/ PaymentVerified(r) \/ PaymentDegraded(r)
           \/ UpstreamAnswers(r) \/ UpstreamFails(r)
           \/ AskSettlement(r) \/ FinishUnpaid(r) \/ FinishPaid(r)
    PROVE  \E s \in Stages : Moves(r, s)
<1> USE DEF ControlOK, Moves, Goto, Stages, Matched, routing
<1>1. CASE \E code \in {401, 403} : Refuse(r, code)
  BY <1>1 DEF Refuse
<1>2. CASE NotFound(r)
  BY <1>2 DEF NotFound
<1>3. CASE Replayed(r)
  BY <1>3 DEF Replayed
<1>4. CASE Fresh(r)
  BY <1>4 DEF Fresh
<1>5. CASE WithoutMandate(r)
  BY <1>5 DEF WithoutMandate
<1>6. CASE GarbledMandate(r)
  BY <1>6 DEF GarbledMandate
<1>7. CASE ReadMandate(r)
  BY <1>7 DEF ReadMandate
<1>8. CASE JudgeMandate(r)
  BY <1>8 DEF JudgeMandate
<1>9. CASE NothingToPay(r)
  BY <1>9 DEF NothingToPay, decided
<1>10. CASE ProcessPayment(r)
  BY <1>10 DEF ProcessPayment, decided
<1>11. CASE PaymentRefused(r)
  BY <1>11 DEF PaymentRefused, decided
<1>12. CASE PaymentVerified(r)
  BY <1>12 DEF PaymentVerified, decided
<1>13. CASE PaymentDegraded(r)
  BY <1>13 DEF PaymentDegraded, decided
<1>14. CASE UpstreamAnswers(r)
  BY <1>14 DEF UpstreamAnswers, decided
<1>15. CASE UpstreamFails(r)
  BY <1>15 DEF UpstreamFails, decided
<1>16. CASE AskSettlement(r)
  BY <1>16 DEF AskSettlement, decided
<1>17. CASE FinishUnpaid(r)
  BY <1>17 DEF FinishUnpaid, Finish, decided
<1>18. CASE FinishPaid(r)
  BY <1>18 DEF FinishPaid, Finish, decided
<1> QED
  BY <1>1, <1>2, <1>3, <1>4, <1>5, <1>6, <1>7, <1>8, <1>9, <1>10, <1>11, <1>12,
     <1>13, <1>14, <1>15, <1>16, <1>17, <1>18

LEMMA ControlStep ==
    ASSUME ControlOK, [Next]_vars
    PROVE  ControlOK'
<1> USE IncomingAssumption, EditsAssumption
<1>1. ASSUME NEW r \in Requests, NEW i \in Incoming, Arrive(r, i)
      PROVE  ControlOK'
  BY <1>1 DEF Arrive, ControlOK, Goto, Stages, Matched, routing
<1>2. ASSUME NEW r \in Requests, Match(r)
      PROVE  ControlOK'
  <2>1. PICK t \in Tools : /\ price[t] # None
                           /\ toolId' = [toolId EXCEPT ![r] = t]
                           /\ quoted' = [quoted EXCEPT ![r] = price[t]]
    BY <1>2 DEF Match, Best
  <2>2. price[t] \in Prices
    BY <2>1 DEF ControlOK
  <2>3. \/ stage' = [stage EXCEPT ![r] = "mandate"]
        \/ stage' = [stage EXCEPT ![r] = "replay"]
    BY <1>2 DEF Match, Goto
  <2> QED
    BY <1>2, <2>1, <2>2, <2>3 DEF Match, ControlOK, Stages, Matched, routing
<1>3. ASSUME NEW r \in Requests, Step(r), ~Match(r)
      PROVE  ControlOK'
  BY <1>3, HandlerMoves, MovesKeepControl DEF Step
<1>4. ASSUME NEW r \in Requests, Chain(r) \/ TimerFires(r)
      PROVE  ControlOK'
  BY <1>4 DEF Chain, Settles, SettlementDropped, TimerFires, decided, pipeline, routing,
     ControlOK
<1>5. ASSUME NEW tool \in Tools, NEW p \in Prices \cup {None}, EditRoute(tool, p)
      PROVE  ControlOK'
  <2>1. ahead' \subseteq Tools \X Tools
    BY <1>5 DEF EditRoute, ControlOK
  <2> QED
    BY <1>5, <2>1 DEF EditRoute, ControlOK
<1>6. CASE Tick \/ Stop
  BY <1>6 DEF Tick, Stop, pipeline, routing, ControlOK
<1>7. CASE Restart
  BY <1>7 DEF Restart, AtRest, ControlOK, Stages, Matched
<1>8. CASE UNCHANGED vars
  BY <1>8 DEF vars, routing, ControlOK
<1> QED
  BY <1>1, <1>2, <1>3, <1>4, <1>5, <1>6, <1>7, <1>8 DEF Next

\* The control state of every request keeps its type, and a request past the
\* route match carries a price that a route had.
THEOREM ControlCorrect == Spec => []ControlOK
<1>1. Init => ControlOK
  BY FilesAssumption DEF Init, FileType, ControlOK, Stages, Matched
<1> QED
  BY <1>1, ControlStep, PTL DEF Spec

----------------------------------------------------------------------------
(* The clock, which both components share.                                 *)

ClockOK == now \in 0..Horizon

\* Time stands still or goes one tick on, within the horizon.
LEMMA ClockMoves ==
    ASSUME ClockOK, [Next]_vars
    PROVE  now' = now \/ (now < Horizon /\ now' = now + 1)
<1> USE HorizonAssumption DEF ClockOK
<1>1. ASSUME NEW r \in Requests, JudgeMandate(r)
      PROVE  now' = now \/ (now < Horizon /\ now' = now + 1)
  BY <1>1 DEF JudgeMandate, M!Decide
<1>2. ASSUME NEW r \in Requests, Step(r), ~JudgeMandate(r)
      PROVE  now' = now
  BY <1>2 DEF Step, Refuse, NotFound, Match, Replayed, Fresh, WithoutMandate,
     GarbledMandate, ReadMandate, NothingToPay, ProcessPayment, PaymentRefused,
     PaymentVerified, PaymentDegraded, UpstreamAnswers, UpstreamFails, AskSettlement,
     FinishUnpaid, FinishPaid, Finish, decided, RG!Exempt, RG!Check, RG!Reject,
     RG!Insert, M!Skip, M!Malformed, M!Present
<1>3. ASSUME NEW r \in Requests, Chain(r) \/ TimerFires(r)
      PROVE  now' = now
  BY <1>3 DEF Chain, Settles, SettlementDropped, TimerFires, RG!Expire, decided
<1>4. ASSUME NEW r \in Requests, NEW i \in Incoming, Arrive(r, i)
      PROVE  now' = now
  BY <1>4 DEF Arrive, RG!Arrive
<1>5. ASSUME NEW tool \in Tools, NEW p \in Prices \cup {None}, EditRoute(tool, p)
      PROVE  now' = now
  BY <1>5 DEF EditRoute
<1>6. CASE Tick
  BY <1>6 DEF Tick, M!Tick
<1>7. CASE Stop \/ Restart \/ UNCHANGED vars
  BY <1>7 DEF Stop, Restart, RG!Stop, RG!Restart, vars
<1> QED
  BY <1>1, <1>2, <1>3, <1>4, <1>5, <1>6, <1>7 DEF Next

LEMMA ClockCorrect == Spec => []ClockOK
<1>1. Init => ClockOK
  BY HorizonAssumption DEF Init, RG!Init, ClockOK
<1>2. ClockOK /\ [Next]_vars => ClockOK'
  BY ClockMoves, HorizonAssumption DEF ClockOK
<1> QED
  BY <1>1, <1>2, PTL DEF Spec

----------------------------------------------------------------------------
(* The pipeline implements ReplayGuard.                                    *)

LEMMA ReplayStep ==
    ASSUME ControlOK, ClockOK, [Next]_vars
    PROVE  [RG!Next]_RG!vars
<1>1. ASSUME NEW r \in Requests, NEW i \in Incoming, Arrive(r, i)
      PROVE  RG!Next
  BY <1>1 DEF Arrive, RG!Next
<1>2. ASSUME NEW r \in Requests, Match(r)
      PROVE  RG!Next
  <2>1. req[r] \in RequestType
    BY <1>2, IncomingAssumption DEF Match, ControlOK, Stages
  <2>2. CASE req[r].key = None
    BY <1>2, <2>2 DEF Match, RG!Next, RG!Step
  <2>3. CASE req[r].key # None
    <3>1. quoted'[r] \in Prices
      BY <1>2 DEF Match, Best, ControlOK
    <3>2. <<req[r].key, quoted'[r]>> \in Keys \X Prices
      BY <2>1, <2>3, <3>1 DEF RequestType
    <3> QED
      BY <1>2, <2>3, <3>2 DEF Match, RG!Next, RG!Step
  <2> QED
    BY <2>2, <2>3
<1>3. ASSUME NEW r \in Requests, Replayed(r) \/ Fresh(r)
      PROVE  RG!Next
  BY <1>3 DEF Replayed, Fresh, RG!Next, RG!Step
<1>4. ASSUME NEW r \in Requests, Step(r), ~Match(r), ~Replayed(r), ~Fresh(r)
      PROVE  UNCHANGED rgState
  BY <1>4 DEF rgState, Step, Refuse, NotFound, WithoutMandate, GarbledMandate, ReadMandate,
     JudgeMandate, NothingToPay, ProcessPayment, PaymentRefused, PaymentVerified,
     PaymentDegraded, UpstreamAnswers, UpstreamFails, AskSettlement, FinishUnpaid,
     FinishPaid, Finish, decided
<1>5. ASSUME NEW r \in Requests, Chain(r)
      PROVE  UNCHANGED rgState
  BY <1>5 DEF Chain, Settles, SettlementDropped, decided
<1>6. ASSUME NEW r \in Requests, TimerFires(r)
      PROVE  RG!Next
  BY <1>6 DEF TimerFires, RG!Next
<1>7. ASSUME NEW tool \in Tools, NEW p \in Prices \cup {None}, EditRoute(tool, p)
      PROVE  UNCHANGED rgState
  BY <1>7 DEF EditRoute
<1>8. ASSUME Tick \/ UNCHANGED vars
      PROVE  UNCHANGED rgState
  BY <1>8 DEF Tick, vars
<1>9. ASSUME Stop \/ Restart
      PROVE  RG!Next
  BY <1>9 DEF Stop, Restart, RG!Next
<1>10. CASE UNCHANGED rgState
  <2>1. CASE now' = now
    BY <1>10, <2>1 DEF RG!vars, rgState
  <2>2. CASE now < Horizon /\ now' = now + 1
    BY <1>10, <2>2 DEF RG!Next, RG!Tick, rgState
  <2> QED
    BY <2>1, <2>2, ClockMoves
<1>11. RG!Next \/ UNCHANGED rgState
  BY <1>1, <1>2, <1>3, <1>4, <1>5, <1>6, <1>7, <1>8, <1>9 DEF Next
<1> QED
  BY <1>10, <1>11

\* The idempotency middleware inside the handler, with whatever the other
\* components do around it, behaves as the module ReplayGuard says, so what is
\* proved of that module is true of the gateway.
THEOREM ReplaySpecHolds == Spec => ReplaySpec
<1>1. Init => RG!Init
  BY DEF Init
<1> QED
  BY <1>1, ReplayStep, ControlCorrect, ClockCorrect, PTL DEF Spec, ReplaySpec, RG!Spec

----------------------------------------------------------------------------
(* The pipeline implements Mandates.                                       *)

LEMMA MandateStep ==
    ASSUME ControlOK, [Next]_vars
    PROVE  [M!Next]_M!vars
<1> USE DEF M!vars, mState
<1>1. ASSUME NEW r \in Requests, WithoutMandate(r) \/ GarbledMandate(r) \/ JudgeMandate(r)
      PROVE  M!Next
  BY <1>1 DEF WithoutMandate, GarbledMandate, JudgeMandate, M!Next
<1>2. ASSUME NEW r \in Requests, ReadMandate(r)
      PROVE  M!Next
  <2>1. toolId[r] \in Tools /\ quoted[r] \in Prices
    BY <1>2 DEF ReadMandate, ControlOK, Matched
  <2> QED
    BY <1>2, <2>1 DEF ReadMandate, M!Next
<1>3. ASSUME NEW r \in Requests, Step(r), ~WithoutMandate(r), ~GarbledMandate(r),
             ~ReadMandate(r), ~JudgeMandate(r)
      PROVE  UNCHANGED M!vars
  BY <1>3 DEF Step, Refuse, NotFound, Match, Replayed, Fresh, NothingToPay,
     ProcessPayment, PaymentRefused, PaymentVerified, PaymentDegraded, UpstreamAnswers,
     UpstreamFails, AskSettlement, FinishUnpaid, FinishPaid, Finish, decided,
     RG!Exempt, RG!Check, RG!Reject, RG!Insert
<1>4. ASSUME NEW r \in Requests, Chain(r) \/ TimerFires(r)
      PROVE  UNCHANGED M!vars
  BY <1>4 DEF Chain, Settles, SettlementDropped, TimerFires, RG!Expire, decided
<1>5. ASSUME NEW r \in Requests, NEW i \in Incoming, Arrive(r, i)
      PROVE  UNCHANGED M!vars
  BY <1>5 DEF Arrive, RG!Arrive
<1>6. ASSUME NEW tool \in Tools, NEW p \in Prices \cup {None}, EditRoute(tool, p)
      PROVE  UNCHANGED M!vars
  BY <1>6 DEF EditRoute
<1>7. CASE Tick \/ Restart
  BY <1>7 DEF Tick, Restart, M!Next
<1>8. CASE Stop \/ UNCHANGED vars
  BY <1>8 DEF Stop, RG!Stop, vars
<1> QED
  BY <1>1, <1>2, <1>3, <1>4, <1>5, <1>6, <1>7, <1>8 DEF Next

\* Mandate enforcement inside the handler behaves as the module Mandates says,
\* so its budgets hold in the gateway too.
THEOREM MandateSpecHolds == Spec => MandateSpec
<1>1. Init => M!Init
  BY DEF Init
<1> QED
  BY <1>1, MandateStep, ControlCorrect, PTL DEF Spec, MandateSpec, M!Spec

----------------------------------------------------------------------------
(* Money and receipts.                                                     *)

Codes == {200, 400, 401, 402, 403, 404, 409, 502, None}

\* The handler of the request has not come to its end.
Live(r) == stage[r] \notin {"finished", "failed", "stranded", "gone"}

\* The inductive invariant: beside the two properties, a live request has no
\* answer and no receipt yet, and a request under settlement has a payment.
MoneyInv ==
    /\ settledBy \in [Payments -> Requests \cup {None}]
    /\ submitted \subseteq Requests
    /\ status \in [Requests -> Codes]
    /\ \A x \in receipts : x.tx # None => x.req \in Requests /\ x.tx \in Payments
    /\ \A r \in Requests : Live(r) => status[r] = None /\ \A x \in receipts : x.req # r
    /\ ReceiptsTruthful
    /\ NoChargeWithoutAnswer

\* No request but r gets an answer.
AnswersOnly(r) ==
    /\ status' \in [Requests -> Codes]
    /\ \A q \in Requests \ {r} : status'[q] = status[q]

\* The handler moves r on without touching money: r may get its answer, and
\* receipts without a transaction, if that ends the handler.
Quiet(r) ==
    /\ Live(r) /\ stage[r] # "settling"
    /\ \E s \in Stages \ {"new", "settling", "gone"} :
          /\ stage' = [stage EXCEPT ![r] = s]
          /\ s \notin {"finished", "failed", "stranded"} => UNCHANGED <<status, receipts>>
    /\ AnswersOnly(r)
    /\ \A x \in receipts' : x \in receipts \/ (x.req = r /\ x.tx = None)
    /\ UNCHANGED <<submitted, settledBy>>

LEMMA QuietKeepsMoney ==
    ASSUME ControlOK, MoneyInv, NEW r \in Requests, Quiet(r)
    PROVE  MoneyInv'
<1>1. ~Charged(r)
  BY DEF MoneyInv, NoChargeWithoutAnswer, Quiet, Live, Charged
<1>2. PICK s \in Stages \ {"new", "settling", "gone"} :
          /\ stage' = [stage EXCEPT ![r] = s]
          /\ s \notin {"finished", "failed", "stranded"} => UNCHANGED <<status, receipts>>
  BY DEF Quiet
<1>3. \A x \in receipts' : x \in receipts \/ (x.req = r /\ x.tx = None)
  BY DEF Quiet
<1>4. \A q \in Requests : q # r =>
          /\ stage'[q] = stage[q] /\ status'[q] = status[q]
          /\ Charged(q)' = Charged(q)
  BY <1>2 DEF Quiet, AnswersOnly, Charged, ControlOK, MoneyInv
<1>5. ~Charged(r)'
  BY <1>1 DEF Charged, Quiet
<1>6. settledBy' = settledBy /\ submitted' = submitted
  BY DEF Quiet
<1>7. status' \in [Requests -> Codes]
  BY DEF Quiet, AnswersOnly
<1>8. \A q \in Requests : Live(q)' => status'[q] = None /\ \A x \in receipts' : x.req # q
  BY <1>2, <1>3, <1>4 DEF MoneyInv, Live, Quiet, ControlOK
<1>9. ReceiptsTruthful'
  BY <1>3, <1>6 DEF MoneyInv, ReceiptsTruthful
<1>10. NoChargeWithoutAnswer'
  BY <1>3, <1>4, <1>5 DEF MoneyInv, NoChargeWithoutAnswer, Charged
<1> QED
  BY <1>3, <1>6, <1>7, <1>8, <1>9, <1>10 DEF MoneyInv

LEMMA OneResponse ==
    ASSUME status \in [Requests -> Codes], NEW r \in Requests
    PROVE  /\ UNCHANGED status => AnswersOnly(r)
           /\ \A code \in Codes : Respond(r, code) => AnswersOnly(r)
BY DEF Respond, AnswersOnly

\* A step that ends the handler of r without touching money.
LEMMA QuietEnd ==
    ASSUME NEW r \in Requests, Live(r), stage[r] # "settling",
           NEW s \in {"finished", "failed", "stranded"}, stage' = [stage EXCEPT ![r] = s],
           AnswersOnly(r), \A x \in receipts' : x \in receipts \/ (x.req = r /\ x.tx = None),
           UNCHANGED <<submitted, settledBy>>
    PROVE  Quiet(r)
BY DEF Quiet, Stages

LEMMA HandlerQuiet ==
    ASSUME ControlOK, status \in [Requests -> Codes],
           NEW r \in Requests, Step(r), ~AskSettlement(r), ~FinishPaid(r)
    PROVE  Quiet(r)
<1> USE OneResponse DEF ControlOK, Quiet, Live, Goto, Stages, money
<1>1. ASSUME NEW code \in {401, 403}, Refuse(r, code)
      PROVE  Quiet(r)
  <2>1. AnswersOnly(r)
    BY <1>1 DEF Refuse, Codes
  <2>2. /\ stage[r] = "checking" /\ stage' = [stage EXCEPT ![r] = "finished"]
        /\ \A x \in receipts' : x \in receipts \/ (x.req = r /\ x.tx = None)
        /\ UNCHANGED <<submitted, settledBy>>
    BY <1>1 DEF Refuse
  <2> QED
    BY <2>1, <2>2, QuietEnd
<1>2. CASE NotFound(r)
  <2>1. AnswersOnly(r)
    BY <1>2 DEF NotFound, Codes
  <2>2. /\ stage[r] = "checking" /\ stage' = [stage EXCEPT ![r] = "finished"]
        /\ \A x \in receipts' : x \in receipts \/ (x.req = r /\ x.tx = None)
        /\ UNCHANGED <<submitted, settledBy>>
    BY <1>2 DEF NotFound, Receipt
  <2> QED
    BY <2>1, <2>2, QuietEnd
<1>3. CASE Match(r)
  BY <1>3 DEF Match
<1>4. CASE Replayed(r)
  <2>1. AnswersOnly(r)
    BY <1>4 DEF Replayed, Codes
  <2> QED
    BY <1>4, <2>1 DEF Replayed
<1>5. CASE Fresh(r)
  BY <1>5 DEF Fresh
<1>6. CASE WithoutMandate(r)
  BY <1>6 DEF WithoutMandate
<1>7. CASE GarbledMandate(r)
  <2>1. AnswersOnly(r)
    BY <1>7 DEF GarbledMandate, Codes
  <2> QED
    BY <1>7, <2>1 DEF GarbledMandate
<1>8. CASE ReadMandate(r)
  BY <1>8 DEF ReadMandate
<1>9. CASE JudgeMandate(r)
  <2>1. AnswersOnly(r)
    BY <1>9 DEF JudgeMandate, Codes
  <2> QED
    BY <1>9, <2>1 DEF JudgeMandate
<1>10. CASE NothingToPay(r)
  BY <1>10 DEF NothingToPay
<1>11. CASE ProcessPayment(r)
  BY <1>11 DEF ProcessPayment
<1>12. CASE PaymentRefused(r)
  <2>1. AnswersOnly(r)
    BY <1>12 DEF PaymentRefused, Codes
  <2> QED
    BY <1>12, <2>1 DEF PaymentRefused
<1>13. CASE PaymentVerified(r)
  BY <1>13 DEF PaymentVerified
<1>14. CASE PaymentDegraded(r)
  BY <1>14 DEF PaymentDegraded
<1>15. CASE UpstreamAnswers(r)
  BY <1>15 DEF UpstreamAnswers
<1>16. CASE UpstreamFails(r)
  <2>1. AnswersOnly(r)
    BY <1>16 DEF UpstreamFails, Codes
  <2>2. /\ stage[r] = "proxy" /\ stage' = [stage EXCEPT ![r] = "failed"]
        /\ \A x \in receipts' : x \in receipts \/ (x.req = r /\ x.tx = None)
        /\ UNCHANGED <<submitted, settledBy>>
    BY <1>16 DEF UpstreamFails, NoCharge, Receipt
  <2> QED
    BY <2>1, <2>2, QuietEnd
<1>17. CASE FinishUnpaid(r)
  <2>1. AnswersOnly(r)
    BY <1>17 DEF FinishUnpaid, Finish, Codes
  <2>2. /\ stage[r] = "answered" /\ stage' = [stage EXCEPT ![r] = "finished"]
        /\ \A x \in receipts' : x \in receipts \/ (x.req = r /\ x.tx = None)
        /\ UNCHANGED <<submitted, settledBy>>
    BY <1>17 DEF FinishUnpaid, Finish, NoCharge, Receipt
  <2> QED
    BY <2>1, <2>2, QuietEnd
<1> QED
  BY <1>1, <1>2, <1>3, <1>4, <1>5, <1>6, <1>7, <1>8, <1>9, <1>10, <1>11, <1>12,
     <1>13, <1>14, <1>15, <1>16, <1>17 DEF Step

LEMMA MoneyStep ==
    ASSUME ControlOK, MoneyInv, [Next]_vars
    PROVE  MoneyInv'
<1> USE IncomingAssumption, NobodyAssumption
<1>1. ASSUME NEW r \in Requests, NEW i \in Incoming, Arrive(r, i)
      PROVE  MoneyInv'
  BY <1>1 DEF Arrive, Goto, MoneyInv, Live, ReceiptsTruthful, NoChargeWithoutAnswer, Charged, money,
     ControlOK, Stages
<1>2. ASSUME NEW r \in Requests, Step(r), ~AskSettlement(r), ~FinishPaid(r)
      PROVE  MoneyInv'
  BY <1>2, HandlerQuiet, QuietKeepsMoney DEF MoneyInv
<1>3. ASSUME NEW r \in Requests, AskSettlement(r)
      PROVE  MoneyInv'
  <2>1. /\ stage[r] = "answered" /\ stage' = [stage EXCEPT ![r] = "settling"]
        /\ submitted' = submitted \cup {r}
        /\ UNCHANGED <<settledBy, receipts, status>>
    BY <1>3 DEF AskSettlement, Goto
  <2>2. \A q \in Requests : Live(q)' = Live(q) /\ (q # r => stage'[q] = stage[q])
    BY <2>1 DEF Live, ControlOK
  <2>3. NoChargeWithoutAnswer'
    <3>1. stage'[r] = "settling"
      BY <2>1 DEF ControlOK
    <3>2. \A q \in Requests \ {r} : Charged(q)' => Charged(q)
      BY <2>1 DEF Charged
    <3> QED
      BY <2>2, <3>1, <3>2 DEF MoneyInv, NoChargeWithoutAnswer
  <2> QED
    BY <2>1, <2>2, <2>3 DEF MoneyInv, ReceiptsTruthful
<1>4. ASSUME NEW r \in Requests, FinishPaid(r)
      PROVE  MoneyInv'
  <2>1. PICK tx : /\ Finish(r, tx)
                  /\ tx = None \/ (settledBy[tx] = r /\ tx = req[r].payment)
    BY <1>4 DEF FinishPaid
  <2>2. tx \in Payments \cup {None}
    BY <1>4, <2>1 DEF FinishPaid, ControlOK, RequestType, Stages
  <2>3. /\ stage[r] = "settling"
        /\ stage' = [stage EXCEPT ![r] = "finished"]
        /\ \E code \in {200, 502} : status' = [status EXCEPT ![r] = code]
        /\ UNCHANGED <<submitted, settledBy>>
    BY <1>4, <2>1 DEF FinishPaid, Finish, Goto, Respond, money
  <2>4. \A x \in receipts' : x \in receipts \/ (x.req = r /\ x.tx \in {tx, None})
    BY <2>1 DEF Finish, NoCharge, Receipt
  <2>5. ReceiptsTruthful'
    BY <2>1, <2>3, <2>4 DEF MoneyInv, ReceiptsTruthful
  <2>6. NoChargeWithoutAnswer'
    BY <2>3 DEF MoneyInv, NoChargeWithoutAnswer, Charged, ControlOK
  <2> QED
    BY <2>2, <2>3, <2>4, <2>5, <2>6 DEF MoneyInv, Live, ControlOK, Codes
<1>5. ASSUME NEW r \in Requests, Settles(r)
      PROVE  MoneyInv'
  <2>1. /\ \A x \in receipts : x.tx # None => x.tx # req[r].payment
        /\ \A q \in Requests : Charged(q)' => Charged(q)
    BY <1>5 DEF Settles, MoneyInv, ReceiptsTruthful, Charged
  <2>2. ReceiptsTruthful'
    BY <1>5, <2>1 DEF Settles, MoneyInv, ReceiptsTruthful
  <2>3. NoChargeWithoutAnswer'
    BY <1>5, <2>1 DEF Settles, MoneyInv, NoChargeWithoutAnswer, Charged
  <2> QED
    BY <1>5, <2>2, <2>3 DEF Settles, MoneyInv, Live
<1>6. ASSUME NEW r \in Requests, SettlementDropped(r)
      PROVE  MoneyInv'
  BY <1>6 DEF SettlementDropped, MoneyInv, Live, ReceiptsTruthful, NoChargeWithoutAnswer, Charged
<1>7. CASE Restart
  BY <1>7 DEF Restart, AtRest, MoneyInv, Live, ReceiptsTruthful, NoChargeWithoutAnswer, Charged, money,
     ControlOK, Stages
<1>8. CASE UNCHANGED <<stage, money, receipts, status>>
  BY <1>8 DEF MoneyInv, Live, ReceiptsTruthful, NoChargeWithoutAnswer, Charged, money
<1>9. ASSUME NEW r \in Requests, TimerFires(r)
      PROVE  UNCHANGED <<stage, money, receipts, status>>
  BY <1>9 DEF TimerFires, pipeline
<1>10. ASSUME NEW tool \in Tools, NEW p \in Prices \cup {None}, EditRoute(tool, p)
       PROVE  UNCHANGED <<stage, money, receipts, status>>
  BY <1>10 DEF EditRoute
<1>11. ASSUME Tick \/ Stop \/ UNCHANGED vars
       PROVE  UNCHANGED <<stage, money, receipts, status>>
  BY <1>11 DEF Tick, Stop, vars, pipeline
<1> QED
  BY <1>1, <1>2, <1>3, <1>4, <1>5, <1>6, <1>7, <1>8, <1>9, <1>10, <1>11 DEF Next, Chain

\* The money invariant holds in every state: what the handler, the facilitator
\* and the chain did so far never charged a request without its answer.
THEOREM MoneyInvHolds == Spec => []MoneyInv
<1>1. Init => MoneyInv
  BY NobodyAssumption DEF Init, MoneyInv, Live, ReceiptsTruthful, NoChargeWithoutAnswer, Charged, Codes
<1> QED
  BY <1>1, MoneyStep, ControlCorrect, PTL DEF Spec

\* A receipt never names a transaction that did not pay for its request, in
\* any interleaving of handlers, facilitator and restarts.
THEOREM ReceiptsTruthfulHolds == Spec => []ReceiptsTruthful
<1>1. MoneyInv => ReceiptsTruthful
  BY DEF MoneyInv
<1> QED
  BY <1>1, MoneyInvHolds, PTL

\* No money moves for a request whose upstream call failed, nor for any before
\* the upstream's answer is there, in any interleaving with the facilitator, the
\* chain and a restart.
THEOREM NoChargeWithoutAnswerHolds == Spec => []NoChargeWithoutAnswer
<1>1. MoneyInv => NoChargeWithoutAnswer
  BY DEF MoneyInv
<1> QED
  BY <1>1, MoneyInvHolds, PTL

----------------------------------------------------------------------------
(* Type correctness: that of the parts, and of the variables of its own.   *)

RGP == INSTANCE ReplayGuardProofs WITH Calls <- Keys \X Prices, MaxTime <- Horizon
MP == INSTANCE MandatesProofs WITH MaxTime <- Horizon

\* The replay guard under its two names.
LEMMA SameReplay ==
    /\ RG!Init => RGP!Init
    /\ [RG!Next]_RG!vars => [RGP!Next]_RGP!vars
    /\ RGP!TypeOK => RG!TypeOK
    /\ RGP!HashAdmittedOnce => RG!HashAdmittedOnce
<1>1. RG!Init => RGP!Init
  BY DEF RG!Init, RGP!Init, RG!NoHash, RGP!NoHash
<1>2. [RG!Next]_RG!vars => [RGP!Next]_RGP!vars
  BY DEF RG!vars, RGP!vars, RG!Next, RGP!Next, RG!Arrive, RGP!Arrive, RG!Step, RGP!Step,
         RG!Exempt, RGP!Exempt, RG!Check, RGP!Check, RG!Reject, RGP!Reject,
         RG!Insert, RGP!Insert, RG!Expire, RGP!Expire, RG!Stop, RGP!Stop,
         RG!Restart, RGP!Restart, RG!Tick, RGP!Tick, RG!Goto, RGP!Goto,
         RG!Window, RGP!Window, RG!Stored, RGP!Stored, RG!Without, RGP!Without,
         RG!NoHash, RGP!NoHash
<1>3. RGP!TypeOK => RG!TypeOK
  BY DEF RG!TypeOK, RGP!TypeOK, RG!Phases, RGP!Phases, RG!Hashes, RGP!Hashes,
         RG!NoHash, RGP!NoHash
<1>4. RGP!HashAdmittedOnce => RG!HashAdmittedOnce
  BY DEF RG!HashAdmittedOnce, RGP!HashAdmittedOnce
<1> QED
  BY <1>1, <1>2, <1>3, <1>4

\* The mandates under their two names.
LEMMA SameMandates ==
    /\ M!Init => MP!Init
    /\ [M!Next]_M!vars => [MP!Next]_MP!vars
    /\ MP!TypeOK => M!TypeOK
<1>1. M!Init => MP!Init
  BY DEF M!Init, MP!Init, M!NoEntry, MP!NoEntry, M!Periods, MP!Periods
<1>2. [M!Next]_M!vars => [MP!Next]_MP!vars
  BY DEF M!vars, MP!vars, M!trackers, MP!trackers, M!Next, MP!Next, M!Skip, MP!Skip,
         M!Malformed, MP!Malformed, M!Present, MP!Present, M!Decide, MP!Decide,
         M!Tick, MP!Tick, M!Restart, MP!Restart, M!RecordSpend, MP!RecordSpend,
         M!Added, MP!Added, M!SpentOn, MP!SpentOn, M!Spent, MP!Spent, M!Day, MP!Day,
         M!PeriodOf, MP!PeriodOf, M!NoEntry, MP!NoEntry, M!Code, MP!Code,
         M!ExceedsBudget, MP!ExceedsBudget, M!NeedsConfirm, MP!NeedsConfirm,
         M!Plus, MP!Plus, M!Over, MP!Over
<1>3. MP!TypeOK => M!TypeOK
  BY DEF M!TypeOK, MP!TypeOK, M!Phases, MP!Phases, M!Refusals, MP!Refusals,
         M!Amounts, MP!Amounts, M!Periods, MP!Periods
<1> QED
  BY <1>1, <1>2, <1>3

LEMMA ReplayTyped == Spec => []RG!TypeOK
<1>1. TTL \in Nat \ {0} /\ Horizon \in Nat /\ SameTurn \in BOOLEAN
  BY PartsAssumption, HorizonAssumption
<1>2. None \notin Nat /\ None \notin Keys \X Prices
  BY PartsAssumption, NobodyAssumption
<1>3. RGP!Spec => []RGP!TypeOK
  BY <1>1, <1>2, RGP!TypeCorrect
<1>4. Init => RGP!Init
  BY SameReplay DEF Init
<1>5. ControlOK /\ ClockOK /\ [Next]_vars => [RGP!Next]_RGP!vars
  BY ReplayStep, SameReplay
<1>6. RGP!TypeOK => RG!TypeOK
  BY SameReplay
<1> QED
  BY <1>3, <1>4, <1>5, <1>6, ControlCorrect, ClockCorrect, PTL DEF Spec, RGP!Spec

\* What Mandates and its proofs assume holds of the pipeline's parameters.
LEMMA MandateParameters ==
    /\ Mandates \subseteq MP!MandateType
    /\ \A m, n \in Mandates : m.budget = n.budget => m.kind = n.kind
    /\ Prices \subseteq MP!Amounts
    /\ DayLen \in Nat \ {0}
    /\ Horizon \in Nat /\ MaxRestarts \in Nat
    /\ None \notin Nat /\ NaN \notin Nat /\ None # NaN
BY PartsAssumption, HorizonAssumption, NobodyAssumption
   DEF M!MandateType, MP!MandateType, M!Amounts, MP!Amounts

LEMMA MandatesTyped == Spec => []M!TypeOK
<1>1. MP!Spec => []MP!TypeOK
  BY MandateParameters, MP!TypeCorrect
<1>2. Init => MP!Init
  BY SameMandates DEF Init
<1>3. ControlOK /\ [Next]_vars => [MP!Next]_MP!vars
  BY MandateStep, SameMandates
<1>4. MP!TypeOK => M!TypeOK
  BY SameMandates
<1> QED
  BY <1>1, <1>2, <1>3, <1>4, ControlCorrect, PTL DEF Spec, MP!Spec
\* The prices of the x402 server, what is owed and the receipts.  A payment is
\* processed for a listed price only.
PayTypes ==
    /\ x402 \in [Lines -> Prices \cup {0}]
    /\ owed \in [Requests -> Prices \cup {None}]
    /\ degraded \in [Requests -> BOOLEAN]
    /\ \A r \in Requests : stage[r] = "paying" => x402[req[r].line] \in Prices
    /\ receipts \subseteq [req : Requests, outcome : {"SUCCESS", "DENIED", "ERROR"},
                           price : Prices \cup {0}, tx : Payments \cup {None}]

\* Steps of the handler that leave prices and debts alone.
LEMMA HandlerKeepsPayment ==
    ASSUME NEW r \in Requests, Step(r), ~PaymentVerified(r), ~PaymentDegraded(r)
    PROVE  UNCHANGED <<x402, owed, degraded>>
BY DEF Step, Refuse, NotFound, Match, Replayed, Fresh, WithoutMandate, GarbledMandate,
   ReadMandate, JudgeMandate, NothingToPay, ProcessPayment, PaymentRefused,
   UpstreamAnswers, UpstreamFails, AskSettlement, FinishUnpaid, FinishPaid, Finish,
   decided, routing, money

\* Steps of the handler that write no receipt.
LEMMA HandlerKeepsReceipts ==
    ASSUME NEW r \in Requests, Step(r), ~NotFound(r), ~UpstreamFails(r),
           ~FinishUnpaid(r), ~FinishPaid(r)
    PROVE  UNCHANGED receipts
BY DEF Step, Refuse, Match, Replayed, Fresh, WithoutMandate, GarbledMandate, ReadMandate,
   JudgeMandate, NothingToPay, ProcessPayment, PaymentRefused, PaymentVerified,
   PaymentDegraded, UpstreamAnswers, AskSettlement

\* Only ProcessPayment brings a request to the payment.
LEMMA BeginsPaying ==
    ASSUME NEW r \in Requests, ControlOK, Step(r), ~ProcessPayment(r), NEW q \in Requests,
           stage'[q] = "paying"
    PROVE  stage[q] = "paying"
BY DEF Step, ControlOK, Goto, Refuse, NotFound, Match, Replayed, Fresh, WithoutMandate,
   GarbledMandate, ReadMandate, JudgeMandate, NothingToPay, PaymentRefused,
   PaymentVerified, PaymentDegraded, UpstreamAnswers, UpstreamFails, AskSettlement,
   FinishUnpaid, FinishPaid, Finish

\* A request is under way with what it brought once and for all.
LEMMA HandlerKeepsRequest ==
    ASSUME ControlOK, NEW r \in Requests, Step(r)
    PROVE  UNCHANGED req
<1>1. CASE Match(r)
  BY <1>1 DEF Match
<1>2. CASE ~Match(r)
  BY <1>2, HandlerMoves DEF Step, Moves
<1> QED
  BY <1>1, <1>2

LEMMA PayStep ==
    ASSUME ControlOK, PayTypes, [Next]_vars
    PROVE  PayTypes'
<1> USE IncomingAssumption, NobodyAssumption
<1>1. ASSUME NEW r \in Requests, NEW i \in Incoming, Arrive(r, i)
      PROVE  PayTypes'
  BY <1>1 DEF Arrive, Goto, PayTypes, ControlOK, routing, money
<1>2. ASSUME NEW r \in Requests, Step(r)
      PROVE  PayTypes'
  <2>1. UNCHANGED <<x402, req>>
    BY <1>2, HandlerKeepsPayment, HandlerKeepsRequest
       DEF PaymentVerified, PaymentDegraded, decided, routing
  <2>2. /\ owed' \in [Requests -> Prices \cup {None}]
        /\ degraded' \in [Requests -> BOOLEAN]
    <3>1. CASE PaymentVerified(r)
      BY <3>1 DEF PaymentVerified, PayTypes
    <3>2. CASE PaymentDegraded(r)
      BY <3>2 DEF PaymentDegraded, PayTypes
    <3> QED
      BY <1>2, <3>1, <3>2, HandlerKeepsPayment DEF PayTypes
  <2>3. \A q \in Requests : stage'[q] = "paying" => x402[req[q].line] \in Prices
    <3>1. CASE ProcessPayment(r)
      <4>1. req[r].line \in Lines
        BY <3>1 DEF ProcessPayment, ControlOK, RequestType, Stages
      <4>2. x402[req[r].line] \in Prices
        BY <3>1, <4>1 DEF ProcessPayment, PayTypes
      <4> QED
        BY <3>1, <4>2 DEF ProcessPayment, PayTypes, ControlOK, Goto
    <3> QED
      BY <1>2, <3>1, BeginsPaying DEF PayTypes
  <2>4. receipts' \subseteq [req : Requests, outcome : {"SUCCESS", "DENIED", "ERROR"},
                             price : Prices \cup {0}, tx : Payments \cup {None}]
    <3>1. CASE NotFound(r)
      BY <3>1 DEF NotFound, Receipt, PayTypes
    <3>2. CASE UpstreamFails(r)
      BY <3>2 DEF UpstreamFails, NoCharge, Receipt, PayTypes
    <3>3. CASE FinishUnpaid(r) \/ FinishPaid(r)
      <4>1. quoted[r] \in Prices /\ req[r].payment \in Payments \cup {None}
        BY <3>3 DEF FinishUnpaid, FinishPaid, ControlOK, Matched, Stages, RequestType
      <4> QED
        BY <3>3, <4>1 DEF FinishUnpaid, FinishPaid, Finish, NoCharge, Receipt, PayTypes
    <3> QED
      BY <1>2, <3>1, <3>2, <3>3, HandlerKeepsReceipts DEF PayTypes
  <2> QED
    BY <2>1, <2>2, <2>3, <2>4 DEF PayTypes
<1>3. CASE Restart
  BY <1>3 DEF Restart, AtRest, ListsRules, PayTypes, ControlOK, money
<1>4. CASE UNCHANGED <<x402, owed, degraded, stage, req, receipts>>
  BY <1>4 DEF PayTypes
<1>5. ASSUME NEW r \in Requests, Chain(r) \/ TimerFires(r)
      PROVE  UNCHANGED <<x402, owed, degraded, stage, req, receipts>>
  BY <1>5 DEF Chain, Settles, SettlementDropped, TimerFires, decided, pipeline, routing, money
<1>6. ASSUME NEW tool \in Tools, NEW p \in Prices \cup {None}, EditRoute(tool, p)
      PROVE  UNCHANGED <<x402, owed, degraded, stage, req, receipts>>
  BY <1>6 DEF EditRoute, money
<1>7. ASSUME Tick \/ Stop \/ UNCHANGED vars
      PROVE  UNCHANGED <<x402, owed, degraded, stage, req, receipts>>
  BY <1>7 DEF Tick, Stop, pipeline, vars, routing, money
<1> QED
  BY <1>1, <1>2, <1>3, <1>4, <1>5, <1>6, <1>7 DEF Next

LEMMA PayTyped == Spec => []PayTypes
<1>1. Init => PayTypes
  BY DEF Init, PayTypes, ListsRules
<1> QED
  BY <1>1, PayStep, ControlCorrect, PTL DEF Spec

\* Every variable of the gateway keeps to its type, those of the replay guard
\* and of the mandates included: they follow from the theorems on these parts.
THEOREM TypeCorrect == Spec => []TypeOK
<1>1. RG!TypeOK /\ M!TypeOK /\ ControlOK /\ PayTypes /\ MoneyInv => TypeOK
  BY DEF TypeOK, ControlOK, PayTypes, MoneyInv, Codes
<1> QED
  BY <1>1, ReplayTyped, MandatesTyped, ControlCorrect, PayTyped, MoneyInvHolds, PTL
----------------------------------------------------------------------------
(* A call with a key is forwarded once.                                    *)

\* Past the idempotency middleware of this life of the process, and not
\* refused since by a check that comes before the upstream.
Checked(r) ==
    /\ \/ stage[r] \in Matched \ {"replay"}
       \/ stage[r] \in {"finished", "failed"} /\ status[r] \in {None, 200, 502}
    /\ idem[r] # "gone"

\* Where the handler of a request stands, the replay guard agrees: nothing is
\* hashed before the route match, and what gets past the middleware with a key
\* was admitted by it, under a hash of its own.
LinkInv ==
    \A r \in Requests :
        /\ stage[r] = "checking" => idem[r] = "arrived"
        /\ stage[r] = "replay" => idem[r] \in {"absent", "present"}
        /\ stage[r] \in {"checking", "new"} => hash[r] = RG!NoHash
        /\ stage[r] = "replay" => hash[r] # RG!NoHash
        /\ stage[r] = "replay" => req[r].key # None
        /\ Checked(r) /\ req[r].key = None => hash[r] = RG!NoHash
        /\ Checked(r) /\ req[r].key # None => idem[r] = "admitted" /\ hash[r] # RG!NoHash

\* A step of the handler past the idempotency middleware that gets no further
\* than the checks allow.
LEMMA LaterKeepsLink ==
    ASSUME ControlOK, RG!TypeOK, status \in [Requests -> Codes], LinkInv,
           NEW r \in Requests, Step(r), ~Match(r), ~Replayed(r), ~Fresh(r)
    PROVE  LinkInv'
<1>1. UNCHANGED <<idem, hash>>
  BY DEF rgState, Step, Refuse, NotFound, WithoutMandate, GarbledMandate, ReadMandate,
     JudgeMandate, NothingToPay, ProcessPayment, PaymentRefused, PaymentVerified,
     PaymentDegraded, UpstreamAnswers, UpstreamFails, AskSettlement, FinishUnpaid,
     FinishPaid, Finish, decided
<1>2. UNCHANGED req
  BY HandlerKeepsRequest
<1>3. PICK s \in Stages : Moves(r, s)
  BY HandlerMoves DEF Step
<1>4. \A q \in Requests \ {r} : UNCHANGED <<stage[q], status[q]>>
  BY <1>3 DEF Moves, ControlOK, Step, Refuse, NotFound, WithoutMandate, GarbledMandate,
     ReadMandate, JudgeMandate, NothingToPay, ProcessPayment, PaymentRefused,
     PaymentVerified, PaymentDegraded, UpstreamAnswers, UpstreamFails, AskSettlement,
     FinishUnpaid, FinishPaid, Finish, Respond
<1>5. stage'[r] \notin {"new", "checking", "replay"}
  BY DEF ControlOK, Goto, Step, Refuse, NotFound, WithoutMandate, GarbledMandate,
     ReadMandate, JudgeMandate, NothingToPay, ProcessPayment, PaymentRefused,
     PaymentVerified, PaymentDegraded, UpstreamAnswers, UpstreamFails, AskSettlement,
     FinishUnpaid, FinishPaid, Finish
<1>6. Checked(r)' => Checked(r)
  BY <1>1, NobodyAssumption DEF Checked, Matched, ControlOK, Goto, Respond, Step, Refuse, NotFound,
     WithoutMandate, GarbledMandate, ReadMandate, JudgeMandate, NothingToPay,
     ProcessPayment, PaymentRefused, PaymentVerified, PaymentDegraded, UpstreamAnswers,
     UpstreamFails, AskSettlement, FinishUnpaid, FinishPaid, Finish
<1> QED
  BY <1>1, <1>2, <1>4, <1>5, <1>6 DEF LinkInv, Checked

LEMMA LinkStep ==
    ASSUME ControlOK, RG!TypeOK, MoneyInv, LinkInv, [Next]_vars
    PROVE  LinkInv'
<1> USE IncomingAssumption, NobodyAssumption DEF Checked, ControlOK, RG!TypeOK
<1>1. ASSUME NEW r \in Requests, NEW i \in Incoming, Arrive(r, i)
      PROVE  LinkInv'
  BY <1>1 DEF Arrive, Goto, RG!Arrive, RG!Goto, LinkInv, Matched
<1>2. ASSUME NEW r \in Requests, Match(r)
      PROVE  LinkInv'
  <2>1. stage[r] = "checking" /\ req[r] \in RequestType
    BY <1>2 DEF Match, Stages
  <2>2. CASE req[r].key = None
    BY <1>2, <2>1, <2>2 DEF Match, Goto, RG!Exempt, RG!Goto, LinkInv, Matched
  <2>3. CASE req[r].key # None
    <3> DEFINE h == [call |-> <<req[r].key, quoted'[r]>>, window |-> RG!Window(now)]
    <3>1. h # RG!NoHash
      <4>1. quoted'[r] \in Prices
        BY <1>2 DEF Match, Best
      <4>2. <<req[r].key, quoted'[r]>> \in Keys \X Prices
        BY <2>1, <2>3, <4>1 DEF RequestType
      <4> QED
        BY <4>2, PartsAssumption DEF RG!NoHash
    <3>2. /\ hash' = [hash EXCEPT ![r] = h]
          /\ \E s \in {"absent", "present"} : idem' = [idem EXCEPT ![r] = s]
          /\ stage' = [stage EXCEPT ![r] = "replay"]
          /\ UNCHANGED <<req, status>>
      BY <1>2, <2>3 DEF Match, Goto, RG!Check, RG!Goto
    <3> HIDE DEF h
    <3> QED
      BY <2>1, <2>3, <3>1, <3>2 DEF LinkInv, Matched
  <2> QED
    BY <2>2, <2>3
<1>3. ASSUME NEW r \in Requests, Replayed(r)
      PROVE  LinkInv'
  BY <1>3 DEF Replayed, Goto, Respond, RG!Reject, RG!Goto, LinkInv, Matched, MoneyInv
<1>4. ASSUME NEW r \in Requests, Fresh(r)
      PROVE  LinkInv'
  BY <1>4 DEF Fresh, Goto, RG!Insert, RG!Goto, LinkInv, Matched
<1>5. ASSUME NEW r \in Requests, Step(r), ~Match(r), ~Replayed(r), ~Fresh(r)
      PROVE  LinkInv'
  BY <1>5, LaterKeepsLink DEF MoneyInv
<1>6. CASE Restart
  BY <1>6 DEF Restart, AtRest, RG!Restart, LinkInv, Matched, Stages
<1>7. CASE UNCHANGED <<stage, idem, hash, req, status>>
  BY <1>7 DEF LinkInv
<1>8. ASSUME NEW r \in Requests, Chain(r) \/ TimerFires(r)
      PROVE  UNCHANGED <<stage, idem, hash, req, status>>
  BY <1>8 DEF Chain, Settles, SettlementDropped, TimerFires, RG!Expire, decided, pipeline,
     rgState
<1>9. ASSUME NEW tool \in Tools, NEW p \in Prices \cup {None}, EditRoute(tool, p)
      PROVE  UNCHANGED <<stage, idem, hash, req, status>>
  BY <1>9 DEF EditRoute, rgState
<1>10. ASSUME Tick \/ Stop \/ UNCHANGED vars
       PROVE  UNCHANGED <<stage, idem, hash, req, status>>
  BY <1>10 DEF Tick, Stop, RG!Stop, pipeline, vars, rgState
<1> QED
  BY <1>1, <1>2, <1>3, <1>4, <1>5, <1>6, <1>7, <1>8, <1>9, <1>10 DEF Next

THEOREM LinkInvHolds == Spec => []LinkInv
<1>1. Init => LinkInv
  BY NobodyAssumption DEF Init, RG!Init, LinkInv, Checked, Matched
<1> QED
  BY <1>1, LinkStep, ControlCorrect, ReplayTyped, MoneyInvHolds, PTL DEF Spec

\* The replay guard's promise, seen from the pipeline.
LEMMA ReplayAdmitsOnce == Spec => [](~SameTurn => RG!HashAdmittedOnce)
<1>1. TTL \in Nat \ {0} /\ Horizon \in Nat /\ SameTurn \in BOOLEAN
  BY PartsAssumption, HorizonAssumption
<1>2. None \notin Nat /\ None \notin Keys \X Prices
  BY PartsAssumption, NobodyAssumption
<1>3. RGP!Spec => [](~SameTurn => RGP!HashAdmittedOnce)
  BY <1>1, <1>2, RGP!HashAdmittedOnceHolds
<1>4. Init => RGP!Init
  BY SameReplay DEF Init
<1>5. ControlOK /\ ClockOK /\ [Next]_vars => [RGP!Next]_RGP!vars
  BY ReplayStep, SameReplay
<1>6. (~SameTurn => RGP!HashAdmittedOnce) => (~SameTurn => RG!HashAdmittedOnce)
  BY SameReplay
<1> QED
  BY <1>3, <1>4, <1>5, <1>6, ControlCorrect, ClockCorrect, PTL DEF Spec, RGP!Spec

\* Where requests come one after the other, a call with an idempotency key
\* reaches the upstream once per window while the process runs: the guard lets
\* one request of a hash through, and none gets to the upstream around it.
THEOREM KeyedCallForwardedOnceHolds == Spec => [](~SameTurn => KeyedCallForwardedOnce)
<1>1. ASSUME ControlOK, MoneyInv, LinkInv, ~SameTurn => RG!HashAdmittedOnce
      PROVE  ~SameTurn => KeyedCallForwardedOnce
  <2>1. ASSUME NEW q \in Requests, Forwarded(q)
        PROVE  Checked(q)
    BY <1>1, <2>1 DEF MoneyInv, Forwarded, Checked, Matched, Live, ControlOK
  <2> QED
    BY <1>1, <2>1 DEF LinkInv, KeyedCallForwardedOnce, RG!HashAdmittedOnce
<1> QED
  BY <1>1, LinkInvHolds, ReplayAdmitsOnce, ControlCorrect, MoneyInvHolds, PTL
----------------------------------------------------------------------------
(* What is quoted, what is owed and what is served.                        *)

\* The admin changes no price; it may delete a route.
OnlyDeletions == \A e \in Edits : e[2] = None

\* Stages before the payment is decided, and after.
Unpaid == {"new", "checking", "replay", "mandate", "verifying", "payment", "paying"}
Paid == {"proxy", "answered", "settling"}

\* The request came on a line that both readings of the rules give to one rule.
IsClear(r) == req[r].line \in ClearLines

\* While no price is edited, the x402 server asks on a clear line what a request
\* was quoted there, so that is what a verified request owes and a charged one
\* paid; and whoever got past the payment owes it, met a failing facilitator, or
\* had nothing to pay.
PriceInv ==
    /\ \A line \in ClearLines, t \in Tools :
          price[t] # None /\ Serves(t, line) => x402[line] = price[t]
    /\ \A r \in Requests :
          /\ stage[r] \in Matched /\ IsClear(r) => quoted[r] = x402[req[r].line]
          /\ stage[r] \in Unpaid => owed[r] = None
          /\ owed[r] # None /\ IsClear(r) => owed[r] = quoted[r]
          /\ stage[r] \in Paid /\ IsClear(r) => degraded[r] \/ owed[r] # None \/ quoted[r] = 0
          /\ owed[r] # None => quoted[r] \in Prices
          /\ Charged(r) => owed[r] # None
    /\ ServedUnpaidOnlyIfDegraded

\* What the x402 server is made with asks on a clear line the price of the one
\* rule that serves it.
LEMMA AsksThePrice ==
    ASSUME NEW order, NEW listing \in ListsRules(price, order), NEW line \in ClearLines,
           NEW t \in Tools, price[t] # None, Serves(t, line)
    PROVE  listing[line] = price[t]
<1> DEFINE listed == {u \in Tools : Listed(u, price) /\ line \in Covered[u]}
<1>1. line \in Lines /\ line \in Covered[t] /\ \A u \in Tools : line \in Covered[u] => u = t
  BY DEF ClearLines
<1>2. Asks(line, price, order, listing[line])
  BY <1>1 DEF ListsRules
<1>3. \/ listed = {} /\ listing[line] = 0
      \/ \E last \in listed : listing[line] = price[last]
  BY <1>2 DEF Asks
<1>4. price[t] # 0 => t \in listed
  BY <1>1 DEF Listed
<1> QED
  BY <1>1, <1>3, <1>4 DEF Listed

\* A step of the handler of r leaves every other request where it is.
LEMMA OthersStay ==
    ASSUME ControlOK, PayTypes, NEW r \in Requests, Step(r), NEW q \in Requests, q # r
    PROVE  UNCHANGED <<stage[q], quoted[q], owed[q], degraded[q]>>
BY DEF ControlOK, PayTypes, Step, Goto, Refuse, NotFound, Match, Replayed, Fresh,
   WithoutMandate, GarbledMandate, ReadMandate, JudgeMandate, NothingToPay,
   ProcessPayment, PaymentRefused, PaymentVerified, PaymentDegraded, UpstreamAnswers,
   UpstreamFails, AskSettlement, FinishUnpaid, FinishPaid, Finish, decided, money

\* What r is quoted and owes is settled in two steps only.
LEMMA QuoteStays ==
    ASSUME NEW r \in Requests, Step(r), ~Match(r)
    PROVE  UNCHANGED <<quoted, price>>
BY DEF Step, Refuse, NotFound, Replayed, Fresh, WithoutMandate, GarbledMandate,
   ReadMandate, JudgeMandate, NothingToPay, ProcessPayment, PaymentRefused,
   PaymentVerified, PaymentDegraded, UpstreamAnswers, UpstreamFails, AskSettlement,
   FinishUnpaid, FinishPaid, Finish, decided, routing

\* Where r stands after a step that does not get it past the payment.
LEMMA StageMoves ==
    ASSUME ControlOK, NEW r \in Requests, Step(r), ~NothingToPay(r), ~PaymentVerified(r),
           ~PaymentDegraded(r)
    PROVE  /\ stage'[r] \in Paid => stage[r] \in Paid
           /\ stage'[r] \in Unpaid => stage[r] \in Unpaid
           /\ stage'[r] \in Matched /\ ~Match(r) => stage[r] \in Matched
BY DEF ControlOK, Paid, Unpaid, Matched, Step, Goto, Refuse, NotFound, Match, Replayed,
   Fresh, WithoutMandate, GarbledMandate, ReadMandate, JudgeMandate, ProcessPayment,
   PaymentRefused, UpstreamAnswers, UpstreamFails, AskSettlement, FinishUnpaid,
   FinishPaid, Finish

\* The step of r keeps what the invariant says of r.
LEMMA HandlerKeepsPrices ==
    ASSUME ControlOK, PayTypes, PriceInv, NEW r \in Requests, Step(r)
    PROVE  /\ stage'[r] \in Matched /\ IsClear(r) => quoted'[r] = x402[req[r].line]
           /\ stage'[r] \in Unpaid => owed'[r] = None
           /\ owed'[r] # None /\ IsClear(r) => owed'[r] = quoted'[r]
           /\ stage'[r] \in Paid /\ IsClear(r)
                 => degraded'[r] \/ owed'[r] # None \/ quoted'[r] = 0
           /\ owed'[r] # None => quoted'[r] \in Prices
           /\ owed[r] # None => owed'[r] = owed[r]
           /\ degraded[r] => degraded'[r]
<1> USE NobodyAssumption DEF ControlOK, PayTypes, PriceInv
<1>1. CASE Match(r)
  <2>1. PICK t \in Tools : /\ price[t] # None /\ Serves(t, req[r].line)
                           /\ quoted' = [quoted EXCEPT ![r] = price[t]]
    BY <1>1 DEF Match, Best
  <2>2. /\ quoted'[r] = price[t]
        /\ stage[r] = "checking" /\ stage'[r] \in {"mandate", "replay"}
        /\ UNCHANGED <<owed, degraded>>
    BY <1>1, <2>1 DEF Match, Goto, money
  <2>3. IsClear(r) => quoted'[r] = x402[req[r].line]
    BY <2>1, <2>2 DEF IsClear
  <2> QED
    BY <2>2, <2>3 DEF Unpaid, Paid, Matched
<1>2. CASE NothingToPay(r)
  BY <1>2 DEF NothingToPay, Goto, decided, money, Unpaid, Paid, Matched
<1>3. CASE PaymentVerified(r)
  BY <1>3 DEF PaymentVerified, Goto, decided, Unpaid, Paid, Matched
<1>4. CASE PaymentDegraded(r)
  BY <1>4 DEF PaymentDegraded, Goto, decided, Unpaid, Paid, Matched
<1>5. CASE ~Match(r) /\ ~NothingToPay(r) /\ ~PaymentVerified(r) /\ ~PaymentDegraded(r)
  <2>1. UNCHANGED <<quoted, owed, degraded>>
    BY <1>5, QuoteStays, HandlerKeepsPayment
  <2> QED
    BY <1>5, <2>1, StageMoves
<1> QED
  BY <1>1, <1>2, <1>3, <1>4, <1>5

\* A receipt a step adds is no success, or that of a request that owes its
\* price, met a failing facilitator or had nothing to pay.
LEMMA SuccessAccounted ==
    ASSUME ControlOK, PriceInv, NEW r \in Requests, Step(r), NEW x \in receipts',
           x \notin receipts
    PROVE  /\ x.req = r
           /\ x.outcome = "SUCCESS" /\ IsClear(r) =>
                 x.price = quoted[r] /\ (degraded[r] \/ owed[r] # None \/ quoted[r] = 0)
<1>1. CASE NotFound(r)
  BY <1>1 DEF NotFound, Receipt
<1>2. CASE UpstreamFails(r)
  BY <1>2 DEF UpstreamFails, NoCharge, Receipt
<1>3. CASE FinishUnpaid(r) \/ FinishPaid(r)
  BY <1>3 DEF FinishUnpaid, FinishPaid, Finish, NoCharge, Receipt, PriceInv, Paid
<1> QED
  BY <1>1, <1>2, <1>3, HandlerKeepsReceipts

LEMMA PriceStep ==
    ASSUME OnlyDeletions, ControlOK, PayTypes, MoneyInv, PriceInv, [Next]_vars
    PROVE  PriceInv'
<1> USE IncomingAssumption, NobodyAssumption DEF PriceInv, IsClear
<1>1. ASSUME NEW r \in Requests, NEW i \in Incoming, Arrive(r, i)
      PROVE  PriceInv'
  <2>1. /\ stage[r] = "new" /\ stage' = [stage EXCEPT ![r] = "checking"]
        /\ req' = [req EXCEPT ![r] = i]
        /\ UNCHANGED <<price, x402, quoted, owed, degraded, submitted, settledBy, receipts>>
    BY <1>1 DEF Arrive, Goto, routing, money
  <2>2. \A q \in Requests \ {r} : stage'[q] = stage[q] /\ req'[q] = req[q]
    BY <2>1
  <2>3. stage'[r] = "checking" /\ \A x \in receipts : x.req \in Requests \ {r}
    BY <2>1 DEF ControlOK, PayTypes, MoneyInv, Live
  <2>4. ServedUnpaidOnlyIfDegraded'
    BY <2>1, <2>2, <2>3 DEF ServedUnpaidOnlyIfDegraded, GivenAway
  <2> QED
    BY <2>1, <2>2, <2>3, <2>4 DEF Unpaid, Paid, Matched, Charged
<1>2. ASSUME NEW r \in Requests, Step(r)
      PROVE  PriceInv'
  <2>1. UNCHANGED <<x402, req, price>>
    BY <1>2, HandlerKeepsPayment, HandlerKeepsRequest, QuoteStays
       DEF PaymentVerified, PaymentDegraded, Match, decided, routing
  <2>2. ASSUME NEW q \in Requests
        PROVE  /\ stage'[q] \in Matched /\ IsClear(q) => quoted'[q] = x402[req[q].line]
               /\ stage'[q] \in Unpaid => owed'[q] = None
               /\ owed'[q] # None /\ IsClear(q) => owed'[q] = quoted'[q]
               /\ stage'[q] \in Paid /\ IsClear(q)
                     => degraded'[q] \/ owed'[q] # None \/ quoted'[q] = 0
               /\ owed'[q] # None => quoted'[q] \in Prices
               /\ owed[q] # None => owed'[q] = owed[q]
               /\ degraded[q] => degraded'[q]
    BY <1>2, HandlerKeepsPrices, OthersStay
  <2>3. ASSUME NEW q \in Requests, Charged(q)'
        PROVE  owed'[q] # None
    <3>1. CASE AskSettlement(r) /\ q = r
      BY <2>2, <3>1 DEF AskSettlement
    <3>2. CASE ~(AskSettlement(r) /\ q = r)
      <4>1. settledBy' = settledBy /\ submitted' \subseteq submitted \cup {r}
        BY <1>2 DEF Step, Refuse, NotFound, Match, Replayed, Fresh, WithoutMandate,
           GarbledMandate, ReadMandate, JudgeMandate, NothingToPay, ProcessPayment,
           PaymentRefused, PaymentVerified, PaymentDegraded, UpstreamAnswers,
           UpstreamFails, AskSettlement, FinishUnpaid, FinishPaid, Finish, money
      <4>2. ~AskSettlement(r) => submitted' = submitted
        BY <1>2 DEF Step, Refuse, NotFound, Match, Replayed, Fresh, WithoutMandate,
           GarbledMandate, ReadMandate, JudgeMandate, NothingToPay, ProcessPayment,
           PaymentRefused, PaymentVerified, PaymentDegraded, UpstreamAnswers,
           UpstreamFails, FinishUnpaid, FinishPaid, Finish, money
      <4>3. Charged(q)
        BY <2>3, <3>2, <4>1, <4>2 DEF Charged
      <4> QED
        BY <2>2, <4>3
    <3> QED
      BY <3>1, <3>2
  <2>4. ServedUnpaidOnlyIfDegraded'
    <3> SUFFICES ASSUME NEW x \in receipts', (req[x.req].line)' \in ClearLines,
                        x.outcome = "SUCCESS", x.price > 0, x.tx = None
                 PROVE  degraded'[x.req] \/ owed'[x.req] # None
      BY DEF ServedUnpaidOnlyIfDegraded, GivenAway
    <3>1. CASE x \in receipts
      <4>1. x.req \in Requests
        BY <3>1 DEF PayTypes
      <4> QED
        BY <2>1, <2>2, <3>1, <4>1 DEF ServedUnpaidOnlyIfDegraded, GivenAway
    <3>2. CASE x \notin receipts
      BY <1>2, <2>1, <2>2, <3>2, SuccessAccounted
    <3> QED
      BY <3>1, <3>2
  <2> QED
    BY <2>1, <2>2, <2>3, <2>4
<1>3. ASSUME NEW r \in Requests, Chain(r)
      PROVE  PriceInv'
  <2>1. /\ UNCHANGED <<price, x402, stage, quoted, req, owed, degraded, receipts>>
        /\ \A q \in Requests : Charged(q)' => Charged(q)
    BY <1>3 DEF Chain, Settles, SettlementDropped, decided, routing, Charged, MoneyInv
  <2> QED
    BY <2>1 DEF ServedUnpaidOnlyIfDegraded, GivenAway
<1>4. ASSUME NEW tool \in Tools, NEW p \in Prices \cup {None}, EditRoute(tool, p)
      PROVE  PriceInv'
  <2>1. p = None
    BY <1>4 DEF EditRoute, OnlyDeletions
  <2> QED
    BY <1>4, <2>1 DEF EditRoute, ControlOK, money, Charged, ServedUnpaidOnlyIfDegraded,
       GivenAway
<1>5. CASE Restart
  <2>1. /\ x402' \in ListsRules(price, ahead)
        /\ receipts' = {}
        /\ UNCHANGED <<req, quoted, price, money>>
        /\ \A q \in Requests :
              /\ stage'[q] \notin Matched \cup Paid
              /\ stage'[q] \in Unpaid => stage[q] \in Unpaid
    BY <1>5 DEF Restart, AtRest, Matched, Paid, Unpaid, ControlOK, Stages
  <2>2. \A line \in ClearLines, t \in Tools :
            price[t] # None /\ Serves(t, line) => x402'[line] = price[t]
    BY <2>1, AsksThePrice
  <2> QED
    BY <2>1, <2>2 DEF money, Charged, ServedUnpaidOnlyIfDegraded
<1>6. CASE UNCHANGED <<routing, stage, quoted, req, money, receipts>>
  BY <1>6 DEF routing, money, Charged, ServedUnpaidOnlyIfDegraded, GivenAway
<1>7. ASSUME NEW r \in Requests, TimerFires(r)
      PROVE  UNCHANGED <<routing, stage, quoted, req, money, receipts>>
  BY <1>7 DEF TimerFires, pipeline
<1>8. ASSUME Tick \/ Stop \/ UNCHANGED vars
      PROVE  UNCHANGED <<routing, stage, quoted, req, money, receipts>>
  BY <1>8 DEF Tick, Stop, pipeline, vars
<1> QED
  BY <1>1, <1>2, <1>3, <1>4, <1>5, <1>6, <1>7, <1>8 DEF Next

\* The invariant that ties quotes, debts and receipts together.
THEOREM PriceInvHolds == ASSUME OnlyDeletions PROVE Spec => []PriceInv
<1>1. Init => PriceInv
  <2> SUFFICES ASSUME Init PROVE PriceInv
    OBVIOUS
  <2>1. \A line \in ClearLines, t \in Tools :
            price[t] # None /\ Serves(t, line) => x402[line] = price[t]
    BY AsksThePrice DEF Init
  <2> QED
    BY <2>1, NobodyAssumption DEF Init, PriceInv, Unpaid, Paid, Matched, Charged,
       ServedUnpaidOnlyIfDegraded
<1>2. ControlOK /\ PayTypes /\ MoneyInv /\ PriceInv /\ [Next]_vars => PriceInv'
  BY PriceStep
<1> QED
  BY <1>1, <1>2, ControlCorrect, PayTyped, MoneyInvHolds, PTL DEF Spec

\* While no price is edited, a route with a price is served without a payment
\* only to a request for which the facilitator failed, on every line that x402
\* looks up under the rule that serves it.
THEOREM ServedUnpaidHolds == ASSUME OnlyDeletions PROVE Spec => []ServedUnpaidOnlyIfDegraded
<1>1. PriceInv => ServedUnpaidOnlyIfDegraded
  BY DEF PriceInv
<1> QED
  BY <1>1, PriceInvHolds, PTL
----------------------------------------------------------------------------
(* The money that moves was counted against the budgets.                   *)

\* Past the mandate, and not turned away before it owed anything.
Spending(r) ==
    \/ owed[r] # None
    \/ stage[r] \in {"payment", "paying", "proxy", "answered", "settling"}

\* What a request under a mandate weighs on its budget, settled or not.
Weight == [r \in Requests |->
              IF req[r].mandate \in Mandates /\ Spending(r) THEN quoted[r] ELSE 0]

\* The request whose mandate is verified is the one the middleware was given.
VerdictLink ==
    \A r \in Requests :
        stage[r] = "verifying" =>
            /\ req[r].mandate \in Mandates
            /\ verdict[r] = "verifying"
            /\ pres[r].mandate = req[r].mandate
            /\ pres[r].price = quoted[r]

\* The requests under budget b, on whatever line they came.
Bound(b) == {r \in Requests : req[r].mandate \in Mandates /\ req[r].mandate.budget = b}

\* What was charged to a budget covers every request past its mandate.
BudgetsCovered ==
    \A b \in Budgets :
        /\ IsFiniteSet(Bound(b))
        /\ SumFunctionOnSet(Weight, Bound(b)) <= SumFunctionOnSet(charged[b], M!Periods)

LedgerInv ==
    /\ \A r \in Requests : stage[r] = "new" => req[r] = NoRequest
    /\ VerdictLink
    /\ charged \in [Budgets -> [M!Periods -> Nat]]
    /\ BudgetsCovered

WeightOK == Weight \in [Requests -> Nat]

LEMMA WeightIsNat ==
    ASSUME NaN \notin Prices, ControlOK, PayTypes, PriceInv
    PROVE  Weight \in [Requests -> Nat]
<1>1. Prices \subseteq Nat
  BY PartsAssumption DEF M!Amounts
<1>2. ASSUME NEW r \in Requests, Spending(r)
      PROVE  quoted[r] \in Prices
  <2>1. CASE owed[r] # None
    BY <2>1 DEF PriceInv
  <2>2. CASE owed[r] = None
    BY <1>2, <2>2 DEF Spending, ControlOK, Matched
  <2> QED
    BY <2>1, <2>2
<1> QED
  BY <1>1, <1>2 DEF Weight

\* The periods of a budget are finitely many.
LEMMA PeriodsFinite == IsFiniteSet(M!Periods)
<1> DEFINE lives == 0..MaxRestarts
           days == 0..Horizon
           f == [p \in lives \X days |-> [boot |-> p[1], day |-> p[2]]]
<1>1. IsFiniteSet(lives \X days)
  <2>1. IsFiniteSet(lives) /\ IsFiniteSet(days)
    <3>1. 0 \in Int /\ MaxRestarts \in Int /\ Horizon \in Int
      BY PartsAssumption, HorizonAssumption
    <3> QED
      BY <3>1, FS_Interval
  <2> HIDE DEF lives, days
  <2> QED
    BY <2>1, FS_Product
<1>2. f \in Surjection(lives \X days, M!Periods)
  <2>1. f \in [lives \X days -> M!Periods]
    BY DEF M!Periods
  <2>2. ASSUME NEW p \in M!Periods
        PROVE  \E q \in lives \X days : f[q] = p
    <3>1. <<p.boot, p.day>> \in lives \X days /\ p = [boot |-> p.boot, day |-> p.day]
      BY DEF M!Periods
    <3>2. f[<<p.boot, p.day>>] = p
      BY <3>1
    <3> QED
      BY <3>1, <3>2
  <2> QED
    BY <2>1, <2>2 DEF Surjection
<1> QED
  BY <1>1, <1>2, FS_Surjection

\* The ledger's sums are numbers.
LEMMA ChargedIsNat ==
    ASSUME charged \in [Budgets -> [M!Periods -> Nat]], NEW b \in Budgets
    PROVE  SumFunctionOnSet(charged[b], M!Periods) \in Nat
BY PeriodsFinite, SumIsNat

\* A step that charges nothing and makes no request weigh more, but may bring
\* one that weighs nothing, keeps the budgets covered.
LEMMA CoveredKept ==
    ASSUME BudgetsCovered, charged' = charged, charged \in [Budgets -> [M!Periods -> Nat]],
           Weight \in [Requests -> Nat], Weight' \in [Requests -> Nat],
           \A q \in Requests : Weight'[q] <= Weight[q],
           NEW r \in Requests, req[r].mandate \in Mandates => UNCHANGED req,
           \A q \in Requests \ {r} : req'[q] = req[q],
           UNCHANGED req \/ Weight'[r] = 0
    PROVE  BudgetsCovered'
<1> SUFFICES ASSUME NEW b \in Budgets
             PROVE  /\ IsFiniteSet(Bound(b)')
                    /\ SumFunctionOnSet(Weight', Bound(b)')
                          <= SumFunctionOnSet(charged[b], M!Periods)
  BY DEF BudgetsCovered, M!Periods
<1> DEFINE old == Bound(b)
           new == Bound(b)'
<1>1. old \subseteq Requests /\ IsFiniteSet(old)
  BY DEF Bound, BudgetsCovered
<1>2. \/ new = old
      \/ new = old \cup {r} /\ r \notin old /\ Weight'[r] = 0
  BY DEF Bound
<1>3. /\ SumFunctionOnSet(Weight', old) <= SumFunctionOnSet(Weight, old)
      /\ SumFunctionOnSet(Weight', old) \in Nat
      /\ SumFunctionOnSet(Weight, old) \in Nat
  <2> HIDE DEF old
  <2>1. \A q \in old : Weight'[q] \in Nat /\ Weight[q] \in Nat /\ Weight'[q] <= Weight[q]
    BY <1>1
  <2> QED
    BY <1>1, <2>1, SumMonotone, SumIsNat
<1>4. IsFiniteSet(new) /\ SumFunctionOnSet(Weight', new) = SumFunctionOnSet(Weight', old)
  <2>1. CASE new = old
    BY <1>1, <2>1
  <2>2. CASE new = old \cup {r} /\ r \notin old /\ Weight'[r] = 0
    <3> HIDE DEF old, new
    <3>1. \A q \in old \cup {r} : Weight'[q] \in Nat
      BY <1>1
    <3>2. /\ IsFiniteSet(old \cup {r})
          /\ SumFunctionOnSet(Weight', old \cup {r}) = Weight'[r] + SumFunctionOnSet(Weight', old)
      BY <1>1, <2>2, <3>1, SumAdd
    <3> QED
      BY <1>3, <2>2, <3>2
  <2> QED
    BY <1>2, <2>1, <2>2
<1>5. SumFunctionOnSet(Weight, old) <= SumFunctionOnSet(charged[b], M!Periods)
  BY DEF BudgetsCovered
<1> HIDE DEF old, new
<1>6. SumFunctionOnSet(Weight', new) <= SumFunctionOnSet(charged[b], M!Periods)
  BY <1>3, <1>4, <1>5, ChargedIsNat
<1> QED
  BY <1>4, <1>6 DEF new

\* The verification under way is that of the mandate the request brought, at
\* the price it was quoted.
LEMMA VerdictStep ==
    ASSUME ControlOK, M!TypeOK, VerdictLink, [Next]_vars
    PROVE  VerdictLink'
<1> USE DEF VerdictLink
<1>1. ASSUME NEW r \in Requests, NEW i \in Incoming, Arrive(r, i)
      PROVE  VerdictLink'
  BY <1>1 DEF Arrive, Goto, ControlOK, mState
<1>2. ASSUME NEW r \in Requests, ReadMandate(r)
      PROVE  VerdictLink'
  BY <1>2 DEF ReadMandate, Goto, ControlOK, M!Present, M!TypeOK
<1>3. ASSUME NEW r \in Requests, JudgeMandate(r)
      PROVE  VerdictLink'
  BY <1>3 DEF JudgeMandate, Goto, ControlOK, M!Decide, M!TypeOK
<1>4. ASSUME NEW r \in Requests, WithoutMandate(r) \/ GarbledMandate(r)
      PROVE  VerdictLink'
  BY <1>4 DEF WithoutMandate, GarbledMandate, Goto, ControlOK, M!Skip, M!Malformed, M!TypeOK
<1>5. ASSUME NEW r \in Requests, Match(r)
      PROVE  VerdictLink'
  BY <1>5 DEF Match, Goto, ControlOK, mState
<1>6. ASSUME NEW r \in Requests, Step(r), ~Match(r), ~WithoutMandate(r), ~GarbledMandate(r),
             ~ReadMandate(r), ~JudgeMandate(r)
      PROVE  VerdictLink'
  <2>1. UNCHANGED <<verdict, pres, req, quoted>>
    BY <1>6, QuoteStays, HandlerKeepsRequest DEF Step, Refuse, NotFound, Replayed, Fresh,
       NothingToPay, ProcessPayment, PaymentRefused, PaymentVerified, PaymentDegraded,
       UpstreamAnswers, UpstreamFails, AskSettlement, FinishUnpaid, FinishPaid, Finish,
       decided, mState
  <2>2. \A q \in Requests : stage'[q] = "verifying" => stage[q] = "verifying"
    BY <1>6 DEF Step, Goto, ControlOK, Refuse, NotFound, Replayed, Fresh, NothingToPay,
       ProcessPayment, PaymentRefused, PaymentVerified, PaymentDegraded, UpstreamAnswers,
       UpstreamFails, AskSettlement, FinishUnpaid, FinishPaid, Finish
  <2> QED
    BY <2>1, <2>2
<1>7. CASE Restart
  BY <1>7 DEF Restart, AtRest, ControlOK, Stages
<1>8. CASE UNCHANGED <<stage, req, quoted, verdict, pres>>
  BY <1>8
<1>9. ASSUME NEW r \in Requests, Chain(r) \/ TimerFires(r)
      PROVE  UNCHANGED <<stage, req, quoted, verdict, pres>>
  BY <1>9 DEF Chain, Settles, SettlementDropped, TimerFires, decided, pipeline, mState
<1>10. ASSUME NEW tool \in Tools, NEW p \in Prices \cup {None}, EditRoute(tool, p)
       PROVE  UNCHANGED <<stage, req, quoted, verdict, pres>>
  BY <1>10 DEF EditRoute, mState
<1>11. ASSUME Tick \/ Stop \/ UNCHANGED vars
       PROVE  UNCHANGED <<stage, req, quoted, verdict, pres>>
  BY <1>11 DEF Tick, Stop, M!Tick, pipeline, vars, mState
<1> QED
  BY <1>1, <1>2, <1>3, <1>4, <1>5, <1>6, <1>7, <1>8, <1>9, <1>10, <1>11 DEF Next, Step

\* No step of a handler but the verdict makes a request weigh more.
LEMMA WeightFalls ==
    ASSUME ControlOK, PayTypes, PriceInv, NEW r \in Requests, Step(r), ~JudgeMandate(r),
           Weight \in [Requests -> Nat], NEW q \in Requests
    PROVE  Weight'[q] <= Weight[q]
<1>1. UNCHANGED req
  BY HandlerKeepsRequest
<1>2. CASE q # r
  BY <1>1, <1>2, OthersStay DEF Weight, Spending
<1>3. CASE Match(r) /\ q = r
  <2>1. ~Spending(r)'
    BY <1>3 DEF Match, Goto, ControlOK, PriceInv, Unpaid, Spending, money
  <2> QED
    BY <1>3, <2>1 DEF Weight
<1>4. CASE WithoutMandate(r) /\ q = r
  BY <1>1, <1>4, NobodyAssumption DEF WithoutMandate, Weight
<1>5. CASE ~Match(r) /\ ~WithoutMandate(r) /\ q = r
  <2>1. Spending(r)' => Spending(r)
    BY <1>5 DEF Spending, Step, Goto, ControlOK, Refuse, NotFound, Replayed, Fresh,
       GarbledMandate, ReadMandate, NothingToPay, ProcessPayment, PaymentRefused,
       PaymentVerified, PaymentDegraded, UpstreamAnswers, UpstreamFails, AskSettlement,
       FinishUnpaid, FinishPaid, Finish, money
  <2>2. UNCHANGED quoted
    BY <1>5, QuoteStays
  <2> QED
    BY <1>1, <1>5, <2>1, <2>2 DEF Weight
<1> QED
  BY <1>2, <1>3, <1>4, <1>5

\* An approval charges the budget what the request weighs from then on; a
\* denial charges nothing.
LEMMA JudgeCharges ==
    ASSUME NaN \notin Prices, ControlOK, M!TypeOK, LedgerInv, PriceInv,
           NEW r \in Requests, JudgeMandate(r)
    PROVE  \/ /\ charged' = charged
              /\ stage' = [stage EXCEPT ![r] = "stranded"]
           \/ /\ stage' = [stage EXCEPT ![r] = "payment"]
              /\ \E p \in M!Periods :
                    charged' = [charged EXCEPT ![req[r].mandate.budget][p] = @ + quoted[r]]
<1> DEFINE m == req[r].mandate
<1>1. /\ stage[r] = "verifying" /\ verdict[r] = "verifying"
      /\ m \in Mandates /\ pres[r].mandate = m /\ pres[r].price = quoted[r]
  BY DEF JudgeMandate, LedgerInv, VerdictLink
<1>2. PICK later \in {0, 1} :
          /\ now + later <= Horizon
          /\ verdict' = [verdict EXCEPT ![r] = M!Code(pres[r], now)]
          /\ IF M!Code(pres[r], now) = "OK" THEN M!RecordSpend(m, quoted[r], now + later)
                                            ELSE UNCHANGED <<daily, lifetime, charged>>
  BY <1>1 DEF JudgeMandate, M!Decide
<1>3. verdict'[r] = M!Code(pres[r], now)
  BY <1>2 DEF M!TypeOK
<1>4. CASE M!Code(pres[r], now) # "OK"
  BY <1>2, <1>3, <1>4 DEF JudgeMandate, Goto
<1>5. CASE M!Code(pres[r], now) = "OK"
  <2> DEFINE p == M!PeriodOf(m, now + later)
  <2>1. stage' = [stage EXCEPT ![r] = "payment"]
    BY <1>3, <1>5 DEF JudgeMandate, Goto
  <2>2. charged' = [charged EXCEPT ![m.budget][p] = M!Plus(@, quoted[r])]
    BY <1>2, <1>5 DEF M!RecordSpend
  <2>3. p \in M!Periods
    <3>1. now \in 0..Horizon /\ now + later \in 0..Horizon /\ boot \in 0..MaxRestarts
      BY <1>2, HorizonAssumption DEF M!TypeOK
    <3>2. (now + later) \div DayLen \in 0..Horizon
      BY <3>1, PartsAssumption, HorizonAssumption
    <3> QED
      BY <3>1, <3>2, HorizonAssumption DEF M!PeriodOf, M!Day, M!Periods
  <2>4. m.budget \in Budgets
    BY <1>1, PartsAssumption DEF M!MandateType
  <2>5. charged[m.budget][p] \in Nat /\ quoted[r] \in Prices
    BY <1>1, <2>3, <2>4 DEF LedgerInv, ControlOK, Matched
  <2>6. M!Plus(charged[m.budget][p], quoted[r]) = charged[m.budget][p] + quoted[r]
    BY <2>5, PartsAssumption DEF M!Plus
  <2> HIDE DEF p, m
  <2>7. charged' = [charged EXCEPT ![m.budget][p] = @ + quoted[r]]
    BY <2>2, <2>6
  <2> QED
    BY <2>1, <2>3, <2>7 DEF m
<1> QED
  BY <1>4, <1>5

LEMMA JudgeCovers ==
    ASSUME NaN \notin Prices, ControlOK, PayTypes, PriceInv, M!TypeOK, LedgerInv,
           ControlOK', NEW r \in Requests, JudgeMandate(r),
           Weight \in [Requests -> Nat], Weight' \in [Requests -> Nat]
    PROVE  charged' \in [Budgets -> [M!Periods -> Nat]] /\ BudgetsCovered'
<1> DEFINE b0 == req[r].mandate.budget
<1>1. /\ stage[r] = "verifying" /\ owed[r] = None
      /\ req[r].mandate \in Mandates /\ b0 \in Budgets
      /\ quoted[r] \in Nat
      /\ UNCHANGED <<req, quoted, owed>>
  <2>1. stage[r] = "verifying" /\ UNCHANGED <<req, quoted, owed>>
    BY DEF JudgeMandate, money
  <2>2. req[r].mandate \in Mandates /\ owed[r] = None /\ quoted[r] \in Prices
    BY <2>1 DEF LedgerInv, VerdictLink, PriceInv, Unpaid, ControlOK, Matched
  <2>3. b0 \in Budgets /\ quoted[r] \in Nat
    BY <2>2, PartsAssumption DEF M!MandateType, M!Amounts
  <2> QED
    BY <2>1, <2>2, <2>3
<1>2. \A q \in Requests \ {r} : Weight'[q] = Weight[q]
  BY <1>1 DEF Weight, Spending, JudgeMandate, Goto, ControlOK
<1>3. Weight[r] = 0
  BY <1>1 DEF Weight, Spending
<1>4. CASE charged' = charged /\ stage' = [stage EXCEPT ![r] = "stranded"]
  <2>1. Weight'[r] = 0
    BY <1>1, <1>4 DEF Weight, Spending, ControlOK
  <2>2. \A q \in Requests : Weight'[q] <= Weight[q]
    BY <1>2, <1>3, <2>1
  <2> QED
    BY <1>1, <1>4, <2>2, CoveredKept DEF LedgerInv
<1>5. ASSUME stage' = [stage EXCEPT ![r] = "payment"], NEW p \in M!Periods,
             charged' = [charged EXCEPT ![b0][p] = @ + quoted[r]]
      PROVE  charged' \in [Budgets -> [M!Periods -> Nat]] /\ BudgetsCovered'
  <2>1. Weight'[r] = quoted[r]
    BY <1>1, <1>5 DEF Weight, Spending, ControlOK
  <2>2. charged \in [Budgets -> [M!Periods -> Nat]] /\ BudgetsCovered
    BY DEF LedgerInv
  <2>3. charged' \in [Budgets -> [M!Periods -> Nat]]
    BY <1>1, <1>5, <2>2
  <2>4. ASSUME NEW b \in Budgets
        PROVE  /\ Bound(b)' = Bound(b) /\ IsFiniteSet(Bound(b))
               /\ SumFunctionOnSet(Weight', Bound(b))
                     <= SumFunctionOnSet(charged'[b], M!Periods)
    <3> DEFINE U == Bound(b)
    <3>1. U' = U /\ U \subseteq Requests /\ IsFiniteSet(U)
      BY <1>1, <2>2 DEF Bound, BudgetsCovered
    <3>2. r \in U <=> b = b0
      BY <1>1 DEF Bound
    <3>3. SumFunctionOnSet(Weight, U) <= SumFunctionOnSet(charged[b], M!Periods)
      BY <2>2 DEF BudgetsCovered
    <3> HIDE DEF U
    <3>4. /\ \A q \in U : Weight[q] \in Nat
          /\ SumFunctionOnSet(Weight, U) \in Nat
          /\ SumFunctionOnSet(charged[b], M!Periods) \in Nat
      BY <2>2, <3>1, SumIsNat, ChargedIsNat
    <3>5. CASE b = b0
      <4>1. SumFunctionOnSet(Weight', U) = SumFunctionOnSet(Weight, U) + quoted[r]
        BY <1>1, <1>2, <1>3, <2>1, <3>1, <3>2, <3>4, <3>5, SumBump
      <4>2. /\ charged'[b][p] = charged[b][p] + quoted[r]
            /\ \A x \in M!Periods \ {p} : charged'[b][x] = charged[b][x]
            /\ \A x \in M!Periods : charged[b][x] \in Nat
        BY <1>1, <1>5, <2>2, <3>5
      <4>3. SumFunctionOnSet(charged'[b], M!Periods)
              = SumFunctionOnSet(charged[b], M!Periods) + quoted[r]
        BY <1>1, <4>2, PeriodsFinite, SumBump
      <4> QED
        BY <1>1, <3>1, <3>3, <3>4, <4>1, <4>3 DEF U
    <3>6. CASE b # b0
      <4>1. \A q \in U : Weight'[q] = Weight[q]
        BY <1>2, <3>1, <3>2, <3>6
      <4>2. SumFunctionOnSet(Weight', U) = SumFunctionOnSet(Weight, U)
        BY <3>1, <3>4, <4>1, SumSame
      <4>3. charged'[b] = charged[b]
        BY <1>5, <2>2, <3>6
      <4> QED
        BY <3>1, <3>3, <4>2, <4>3 DEF U
    <3> QED
      BY <3>5, <3>6
  <2> QED
    BY <2>3, <2>4 DEF BudgetsCovered, M!Periods
<1> QED
  BY <1>4, <1>5, JudgeCharges

LEMMA LedgerStep ==
    ASSUME NaN \notin Prices, ControlOK, ControlOK', PayTypes, PriceInv, M!TypeOK,
           WeightOK, WeightOK', LedgerInv, [Next]_vars
    PROVE  LedgerInv'
<1>1. VerdictLink'
  BY VerdictStep DEF LedgerInv
<1>2. Weight \in [Requests -> Nat] /\ Weight' \in [Requests -> Nat]
  BY DEF WeightOK
<1>3. ASSUME NEW r \in Requests, NEW i \in Incoming, Arrive(r, i)
      PROVE  LedgerInv'
  <2>1. /\ req[r] = NoRequest /\ None \notin Mandates
        /\ stage' = [stage EXCEPT ![r] = "checking"]
        /\ req' = [req EXCEPT ![r] = i]
        /\ UNCHANGED <<quoted, owed, charged>>
        /\ owed[r] = None
    BY <1>3, NobodyAssumption DEF Arrive, Goto, LedgerInv, mState, money, PriceInv, Unpaid
  <2>2. Weight'[r] = 0 /\ \A q \in Requests : Weight'[q] <= Weight[q]
    BY <1>2, <2>1 DEF Weight, Spending, ControlOK
  <2>3. req[r].mandate \notin Mandates /\ \A q \in Requests \ {r} : req'[q] = req[q]
    BY <2>1 DEF NoRequest, ControlOK
  <2>4. BudgetsCovered'
    BY <1>2, <2>1, <2>2, <2>3, CoveredKept DEF LedgerInv
  <2> QED
    BY <1>1, <2>1, <2>4 DEF LedgerInv, ControlOK, M!Periods
<1>4. ASSUME NEW r \in Requests, Step(r)
      PROVE  LedgerInv'
  <2>1. UNCHANGED req /\ \A q \in Requests : stage'[q] = "new" => stage[q] = "new"
    <3>1. CASE Match(r)
      BY <3>1 DEF Match, Goto, ControlOK
    <3>2. CASE ~Match(r)
      BY <1>4, <3>2, HandlerMoves DEF Step, Moves, ControlOK
    <3> QED
      BY <3>1, <3>2
  <2>2. CASE JudgeMandate(r)
    BY <1>1, <1>2, <2>1, <2>2, JudgeCovers DEF LedgerInv, M!Periods
  <2>3. CASE ~JudgeMandate(r)
    <3>1. UNCHANGED charged
      BY <1>4, <2>3 DEF Step, Refuse, NotFound, Match, Replayed, Fresh, WithoutMandate,
         GarbledMandate, ReadMandate, NothingToPay, ProcessPayment, PaymentRefused,
         PaymentVerified, PaymentDegraded, UpstreamAnswers, UpstreamFails, AskSettlement,
         FinishUnpaid, FinishPaid, Finish, decided, mState, M!Skip, M!Malformed, M!Present,
         M!trackers
    <3>2. \A q \in Requests : Weight'[q] <= Weight[q]
      BY <1>2, <1>4, <2>3, WeightFalls
    <3>3. BudgetsCovered'
      BY <1>2, <2>1, <3>1, <3>2, CoveredKept DEF LedgerInv
    <3> QED
      BY <1>1, <2>1, <3>1, <3>3 DEF LedgerInv, M!Periods
  <2> QED
    BY <2>2, <2>3
<1>5. ASSUME UNCHANGED <<req, charged, quoted, owed>>,
             \A q \in Requests : stage'[q] \in {stage[q], "gone"}
      PROVE  LedgerInv'
  <2>1. \A q \in Requests : Weight'[q] <= Weight[q]
    BY <1>2, <1>5 DEF Weight, Spending
  <2>2. \A q \in Requests : stage'[q] = "new" => stage[q] = "new"
    BY <1>5
  <2>3. BudgetsCovered'
    <3>1. CASE Requests = {}
      BY <1>5, <3>1 DEF LedgerInv, BudgetsCovered, Bound, M!Periods, Weight
    <3>2. CASE Requests # {}
      BY <1>2, <1>5, <2>1, <3>2, CoveredKept DEF LedgerInv
    <3> QED
      BY <3>1, <3>2
  <2> QED
    BY <1>1, <1>5, <2>2, <2>3 DEF LedgerInv, M!Periods
<1>6. ASSUME NEW r \in Requests, Chain(r) \/ TimerFires(r)
      PROVE  UNCHANGED <<req, charged, quoted, owed, stage>>
  BY <1>6 DEF Chain, Settles, SettlementDropped, TimerFires, decided, pipeline, mState, money
<1>7. ASSUME NEW tool \in Tools, NEW p \in Prices \cup {None}, EditRoute(tool, p)
      PROVE  UNCHANGED <<req, charged, quoted, owed, stage>>
  BY <1>7 DEF EditRoute, mState, money
<1>8. ASSUME Tick \/ Stop \/ UNCHANGED vars
      PROVE  UNCHANGED <<req, charged, quoted, owed, stage>>
  BY <1>8 DEF Tick, Stop, M!Tick, M!trackers, pipeline, vars, mState, money
<1>9. CASE Restart
  <2>1. UNCHANGED <<req, charged, quoted, owed>>
    BY <1>9 DEF Restart, M!Restart, money
  <2>2. \A q \in Requests : stage'[q] \in {stage[q], "gone"}
    BY <1>9 DEF Restart
  <2> QED
    BY <1>5, <2>1, <2>2
<1> QED
  BY <1>3, <1>4, <1>5, <1>6, <1>7, <1>8, <1>9 DEF Next

\* While no price is edited, and none is no number, the verification under way
\* is that of the request, and its approval covers what the request may cost.
THEOREM LedgerInvHolds ==
    ASSUME OnlyDeletions, NaN \notin Prices
    PROVE  Spec => []LedgerInv
<1>1. Init => LedgerInv
  <2> SUFFICES ASSUME Init
               PROVE  LedgerInv
    OBVIOUS
  <2>1. charged \in [Budgets -> [M!Periods -> Nat]]
    BY DEF Init, M!Init
  <2>2. \A b \in Budgets : Bound(b) = {}
    BY NobodyAssumption DEF Init, Bound, NoRequest
  <2>3. BudgetsCovered
    <3> SUFFICES ASSUME NEW b \in Budgets
                 PROVE  /\ IsFiniteSet(Bound(b))
                        /\ SumFunctionOnSet(Weight, Bound(b))
                              <= SumFunctionOnSet(charged[b], M!Periods)
      BY DEF BudgetsCovered
    <3>1. IsFiniteSet({}) /\ SumFunctionOnSet(Weight, {}) = 0
      BY FS_EmptySet, SumEmpty
    <3>2. SumFunctionOnSet(charged[b], M!Periods) \in Nat
      BY <2>1, ChargedIsNat
    <3> QED
      BY <2>2, <3>1, <3>2
  <2> QED
    BY <2>1, <2>3 DEF Init, LedgerInv, VerdictLink
<1>2. ControlOK /\ PayTypes /\ PriceInv => WeightOK
  BY WeightIsNat DEF WeightOK
<1>3. /\ ControlOK /\ ControlOK' /\ PayTypes /\ PriceInv /\ M!TypeOK
      /\ WeightOK /\ WeightOK' /\ LedgerInv /\ [Next]_vars
      => LedgerInv'
  BY LedgerStep
<1> QED
  BY <1>1, <1>2, <1>3, ControlCorrect, PayTyped, PriceInvHolds, MandatesTyped, PTL DEF Spec

\* The money that moved for requests under a mandate was counted against its
\* budget, in the ledger that Mandates keeps within its caps: while no price is
\* edited (a settlement moves the price x402 was started with) and every price
\* is a number.
THEOREM SettledWithinLedgerHolds ==
    ASSUME OnlyDeletions, NaN \notin Prices
    PROVE  Spec => []SettledWithinLedger
<1>1. ASSUME WeightOK, PriceInv, LedgerInv
      PROVE  SettledWithinLedger
  <2> SUFFICES ASSUME NEW b \in Budgets
               PROVE  SumFunctionOnSet(SettledFor, Under(b))
                        <= SumFunctionOnSet(charged[b], M!Periods)
    BY DEF SettledWithinLedger
  <2> DEFINE U == Under(b)  B == Bound(b)  into == [r \in U |-> r]
  <2>1. IsFiniteSet(B) /\ B \subseteq Requests /\ U \subseteq B
    BY <1>1 DEF LedgerInv, BudgetsCovered, Under, Bound
  <2>2. \A r \in U : /\ SettledFor[r] \in Nat /\ SettledFor[r] <= Weight[r]
    <3> SUFFICES ASSUME NEW r \in U
                 PROVE  SettledFor[r] \in Nat /\ SettledFor[r] <= Weight[r]
      OBVIOUS
    <3>1. r \in Requests /\ Weight[r] \in Nat /\ req[r].mandate \in Mandates /\ IsClear(r)
      BY <1>1, <2>1 DEF WeightOK, Under, IsClear
    <3>2. CASE \E p \in Payments : settledBy[p] = r
      <4>1. owed[r] # None /\ owed[r] = quoted[r]
        BY <1>1, <3>1, <3>2 DEF PriceInv, Charged
      <4>2. SettledFor[r] = quoted[r] /\ Weight[r] = quoted[r]
        BY <3>1, <3>2, <4>1 DEF SettledFor, Weight, Spending
      <4> QED
        BY <3>1, <4>2
    <3>3. CASE ~\E p \in Payments : settledBy[p] = r
      BY <3>1, <3>3 DEF SettledFor
    <3> QED
      BY <3>2, <3>3
  <2>3. SumFunctionOnSet(Weight, B) <= SumFunctionOnSet(charged[b], M!Periods)
    BY <1>1 DEF LedgerInv, BudgetsCovered
  <2>4. SumFunctionOnSet(charged[b], M!Periods) \in Nat
    BY <1>1, ChargedIsNat DEF LedgerInv
  <2>5. /\ IsFiniteSet(U)
        /\ \A r \in B : Weight[r] \in Nat
        /\ \A r \in U : SettledFor[r] \in Nat
        /\ \A r \in U : SettledFor[r] # 0 => into[r] \in B /\ SettledFor[r] <= Weight[into[r]]
        /\ \A r, q \in U : SettledFor[r] # 0 /\ SettledFor[q] # 0 /\ into[r] = into[q] => r = q
    <3>1. IsFiniteSet(U)
      BY <2>1, FS_Subset
    <3> QED
      BY <1>1, <2>1, <2>2, <3>1 DEF WeightOK
  <2> HIDE DEF U, B, into
  <2>6. SumFunctionOnSet(SettledFor, U) <= SumFunctionOnSet(Weight, B)
    BY <2>1, <2>5, SumInjects
  <2>7. SumFunctionOnSet(SettledFor, U) \in Nat /\ SumFunctionOnSet(Weight, B) \in Nat
    BY <2>1, <2>5, SumIsNat
  <2> QED
    BY <2>3, <2>4, <2>6, <2>7 DEF U
<1>2. ControlOK /\ PayTypes /\ PriceInv => WeightOK
  BY WeightIsNat DEF WeightOK
<1> QED
  BY <1>1, <1>2, ControlCorrect, PayTyped, PriceInvHolds, LedgerInvHolds, PTL

-----------------------------------------------------------------------------
(* What an agent signed caps what it pays.                                 *)

\* What the ledger of the mandates guarantees, in the words of the pipeline.
LedgerCapped ==
    /\ M!BudgetsHold
    /\ \A b \in Budgets, p \in M!Periods : charged[b][p] # 0 => p \in Elapsed(b)

LEMMA LedgerCappedHolds == Spec => []LedgerCapped
<1>1. MP!Spec => []MP!BudgetsHold /\ []MP!OnlyBegunCharged
  BY MandateParameters, MP!BudgetsHoldAlways, MP!OnlyBegunChargedHolds, PTL
<1>2. Init => MP!Init
  BY SameMandates DEF Init
<1>3. ControlOK /\ [Next]_vars => [MP!Next]_MP!vars
  BY MandateStep, SameMandates
<1>4. MP!BudgetsHold => M!BudgetsHold
  BY DEF MP!BudgetsHold, M!BudgetsHold, MP!Ledger!WithinCap, M!Ledger!WithinCap,
         MP!Ledger!Voided, M!Ledger!Voided, MP!Periods, M!Periods, MP!Caps, M!Caps
<1>5. MP!OnlyBegunCharged
      => \A b \in Budgets, p \in M!Periods : charged[b][p] # 0 => p \in Elapsed(b)
  BY DEF MP!OnlyBegunCharged, MP!Periods, M!Periods, MP!Day, M!Day, Elapsed
<1>6. MP!BudgetsHold /\ MP!OnlyBegunCharged => LedgerCapped
  BY <1>4, <1>5 DEF LedgerCapped
<1> QED
  BY <1>1, <1>2, <1>3, <1>6, ControlCorrect, PTL DEF Spec, MP!Spec

\* Money moves in natural numbers.
LEMMA SettledIsNat ==
    ASSUME NaN \notin Prices, PayTypes, PriceInv, LedgerInv, NEW b \in Budgets
    PROVE  SumFunctionOnSet(SettledFor, Under(b)) \in Nat
<1> DEFINE U == Under(b)
<1>1. IsFiniteSet(U) /\ U \subseteq Requests
  <2>1. IsFiniteSet(Bound(b)) /\ U \subseteq Bound(b) /\ U \subseteq Requests
    BY DEF LedgerInv, BudgetsCovered, Under, Bound
  <2> QED
    BY <2>1, FS_Subset
<1>2. \A r \in U : SettledFor[r] \in Nat
  <2> SUFFICES ASSUME NEW r \in U
               PROVE  SettledFor[r] \in Nat
    OBVIOUS
  <2>1. CASE \E p \in Payments : settledBy[p] = r
    <3>1. owed[r] # None
      BY <1>1, <2>1 DEF PriceInv, Charged
    <3>2. owed[r] \in Prices
      BY <1>1, <3>1 DEF PayTypes
    <3>3. \A p \in Prices : p \in Nat
      BY PartsAssumption DEF M!Amounts
    <3>4. SettledFor[r] = owed[r]
      BY <1>1, <2>1 DEF SettledFor
    <3> QED
      BY <3>2, <3>3, <3>4
  <2>2. CASE ~\E p \in Payments : settledBy[p] = r
    BY <1>1, <2>2 DEF SettledFor
  <2> QED
    BY <2>1, <2>2
<1> HIDE DEF U
<1>3. SumFunctionOnSet(SettledFor, U) \in Nat
  BY <1>1, <1>2, SumIsNat
<1> QED
  BY <1>3 DEF U

\* No period of the ledger holds more than the highest cap.
LEMMA ChargedWithinCap ==
    ASSUME LedgerInv, LedgerCapped, NEW b \in Budgets, NEW cap \in Nat,
           \A other \in M!Caps(b) : other <= cap
    PROVE  SumFunctionOnSet(charged[b], M!Periods) <= cap * Cardinality(Elapsed(b))
<1> DEFINE P == M!Periods  E == Elapsed(b)  f == charged[b]
           into == [p \in P |-> p]
<1>1. IsFiniteSet(P) /\ IsFiniteSet(E) /\ E \subseteq P
  BY PeriodsFinite, FS_Subset DEF Elapsed
<1>2. \A p \in P : f[p] \in Nat /\ f[p] <= cap
  <2> SUFFICES ASSUME NEW p \in P
               PROVE  f[p] \in Nat /\ f[p] <= cap
    OBVIOUS
  <2>1. \A q \in P : f[q] \in Nat
    BY DEF LedgerInv
  <2>2. ~M!Ledger!Voided(b)
    BY <2>1, PartsAssumption DEF M!Ledger!Voided
  <2>3. f[p] = 0 \/ \E other \in M!Caps(b) : f[p] <= other
    BY <2>2 DEF LedgerCapped, M!BudgetsHold, M!Ledger!WithinCap
  <2>4. \A other \in M!Caps(b) : other \in Nat
    BY PartsAssumption DEF M!Caps, M!MandateType
  <2>5. f[p] \in Nat
    BY <2>1
  <2>6. \A i, j \in Nat : i <= j /\ j <= cap => i <= cap
    OBVIOUS
  <2> HIDE DEF f, P
  <2> QED
    BY <2>3, <2>4, <2>5, <2>6
<1>3. \A p \in P : f[p] # 0 => p \in E
  BY DEF LedgerCapped
<1>4. \A p \in P : f[p] # 0 => into[p] \in E /\ f[p] <= f[into[p]]
  BY <1>2, <1>3
<1>5. \A p, q \in P : f[p] # 0 /\ f[q] # 0 /\ into[p] = into[q] => p = q
  OBVIOUS
<1>6. \A p \in E : f[p] \in Nat /\ f[p] <= cap
  BY <1>1, <1>2
<1> HIDE DEF P, E, f, into
<1>7. SumFunctionOnSet(f, P) <= SumFunctionOnSet(f, E)
  BY <1>1, <1>2, <1>4, <1>5, <1>6, SumInjects
<1>8. SumFunctionOnSet(f, E) <= cap * Cardinality(E)
  BY <1>1, <1>6, SumAtMost
<1>9. /\ SumFunctionOnSet(f, P) \in Nat /\ SumFunctionOnSet(f, E) \in Nat
      /\ Cardinality(E) \in Nat
  BY <1>1, <1>2, <1>6, SumIsNat, FS_CardinalityType
<1>10. cap * Cardinality(E) \in Nat
  <2>1. \A k \in Nat : cap * k \in Nat
    OBVIOUS
  <2> QED
    BY <1>9, <2>1
<1>11. SumFunctionOnSet(f, P) <= cap * Cardinality(E)
  BY <1>7, <1>8, <1>9, <1>10
<1> QED
  BY <1>11 DEF P, E, f

\* An agent pays no more than it signed: the money that moved for requests under
\* a mandate is within one cap per day (per life of the process, for an intent),
\* while no price is edited and every price is a number.
THEOREM MoneyWithinCapsHolds ==
    ASSUME OnlyDeletions, NaN \notin Prices
    PROVE  Spec => []MoneyWithinCaps
<1>1. ASSUME PayTypes, PriceInv, LedgerInv, LedgerCapped, SettledWithinLedger
      PROVE  MoneyWithinCaps
  <2> SUFFICES ASSUME NEW b \in Budgets, NEW cap \in M!Caps(b) \cup {0},
                      \A other \in M!Caps(b) : other <= cap
               PROVE  SumFunctionOnSet(SettledFor, Under(b)) <= cap * Cardinality(Elapsed(b))
    BY DEF MoneyWithinCaps
  <2>1. cap \in Nat
    BY PartsAssumption DEF M!Caps, M!MandateType
  <2>2. SumFunctionOnSet(SettledFor, Under(b)) <= SumFunctionOnSet(charged[b], M!Periods)
    BY <1>1 DEF SettledWithinLedger
  <2>3. SumFunctionOnSet(charged[b], M!Periods) <= cap * Cardinality(Elapsed(b))
    BY <1>1, <2>1, ChargedWithinCap
  <2>4. /\ SumFunctionOnSet(SettledFor, Under(b)) \in Nat
        /\ SumFunctionOnSet(charged[b], M!Periods) \in Nat
    BY <1>1, SettledIsNat, ChargedIsNat DEF LedgerInv
  <2>5. Cardinality(Elapsed(b)) \in Nat
    BY PeriodsFinite, FS_Subset, FS_CardinalityType DEF Elapsed
  <2>6. \A i, j, k \in Nat : i <= j /\ j <= cap * k => i <= cap * k
    BY <2>1
  <2> QED
    BY <2>2, <2>3, <2>4, <2>5, <2>6
<1> QED
  BY <1>1, PayTyped, PriceInvHolds, LedgerInvHolds, LedgerCappedHolds,
     SettledWithinLedgerHolds, PTL
=============================================================================
