------------------------ MODULE ClientSessionProofs ------------------------
(***************************************************************************)
(* Proofs about the SDK client in front of the gateway, for any number of  *)
(* calls, requests, prices and payments.                                   *)
(*                                                                         *)
(* A session is a run of the gateway: what a client sends is a request of  *)
(* the pipeline, so all that is proved of the pipeline holds under the     *)
(* client.  On top of it the client's book is shown to be true, and its    *)
(* total to cover the money that moved.                                    *)
(***************************************************************************)
EXTENDS ClientSession, GatewayPipelineProofs

(* A session is a run of the gateway.                                      *)

\* r is under way, with what it brought.
Begun(r) == stage[r] # "new" /\ req[r] \in Incoming

\* A call that was made waits, or waited, for a request of its own.
Legs ==
    /\ leg \in [Calls -> Requests \cup {None}]
    /\ outcome \in [Calls -> {"idle", "waiting", "returned", "thrown"}]
    /\ \A c \in Calls : outcome[c] # "idle" => leg[c] \in Requests
    /\ \A c \in Calls : leg[c] \in Requests => Begun(leg[c])
    /\ \A c, d \in Calls : leg[c] = leg[d] /\ leg[c] \in Requests => c = d

\* What a call sends is a request that was not there.
LEMMA SendArrives ==
    ASSUME NEW c \in Calls, NEW i, Send(c, i)
    PROVE  \E r \in Requests :
              /\ Arrive(r, i) /\ stage[r] = "new"
              /\ leg' = [leg EXCEPT ![c] = r]
              /\ outcome' = [outcome EXCEPT ![c] = "waiting"]
              /\ UNCHANGED <<book, wire>>
BY DEF Send

\* The second request of a call is the first with a payment.
LEMMA PayRepeats ==
    ASSUME Legs, NEW c \in Calls, NEW p \in Payments, Pay(c, p)
    PROVE  [req[leg[c]] EXCEPT !.payment = p] \in Incoming
<1>1. leg[c] \in Requests /\ req[leg[c]] \in Incoming
  BY DEF Pay, Legs, Begun
<1> QED
  BY <1>1, RepeatAssumption

LEMMA SessionRefines ==
    ASSUME Legs, [SessionNext]_session
    PROVE  [Next]_vars
<1>1. ASSUME NEW c \in Calls, NEW i \in Incoming, Send(c, i)
      PROVE  Next
  BY <1>1, SendArrives DEF Next
<1>2. ASSUME NEW c \in Calls, NEW i \in Incoming, Call(c, i)
      PROVE  Next
  BY <1>1, <1>2 DEF Call
<1>3. ASSUME NEW c \in Calls, NEW p \in Payments, Pay(c, p)
      PROVE  Next
  <2>1. [req[leg[c]] EXCEPT !.payment = p] \in Incoming
    BY <1>3, PayRepeats
  <2> QED
    BY <1>1, <1>3, <2>1 DEF Pay
<1>4. ASSUME NEW c \in Calls, Return(c) \/ Throw(c)
      PROVE  UNCHANGED vars
  BY <1>4 DEF Return, Throw
<1>5. ASSUME NEW r \in Requests, Gateway(Step(r))
      PROVE  Next
  BY <1>5 DEF Gateway, Next
<1>6. CASE Gateway(Around)
  BY <1>6 DEF Gateway, Around, Next
<1>7. CASE UNCHANGED session
  BY <1>7 DEF session
<1> QED
  BY <1>2, <1>3, <1>4, <1>5, <1>6, <1>7 DEF SessionNext

\* A request under way stays under way, with what it brought.
LEMMA BegunStays ==
    ASSUME ControlOK, [Next]_vars, NEW r \in Requests, Begun(r)
    PROVE  Begun(r)'
<1> USE DEF ControlOK, Begun
<1>1. ASSUME NEW q \in Requests, NEW i \in Incoming, Arrive(q, i)
      PROVE  Begun(r)'
  BY <1>1 DEF Arrive, Goto
<1>2. ASSUME NEW q \in Requests, Step(q)
      PROVE  Begun(r)'
  <2>1. UNCHANGED req
    BY <1>2, HandlerKeepsRequest
  <2>2. stage'[r] # "new"
    <3>1. CASE Match(q)
      BY <3>1 DEF Match, Goto
    <3>2. CASE ~Match(q)
      <4>1. PICK s \in Stages : Moves(q, s)
        BY <1>2, <3>2, HandlerMoves DEF Step
      <4> QED
        BY <4>1 DEF Moves
    <3> QED
      BY <3>1, <3>2
  <2> QED
    BY <2>1, <2>2
<1>3. CASE Restart
  BY <1>3 DEF Restart
<1>4. CASE UNCHANGED <<stage, req>>
  BY <1>4
<1>5. ASSUME NEW q \in Requests, Chain(q) \/ TimerFires(q)
      PROVE  UNCHANGED <<stage, req>>
  BY <1>5 DEF Chain, Settles, SettlementDropped, TimerFires, decided, pipeline
<1>6. ASSUME NEW tool \in Tools, NEW p \in Prices \cup {None}, EditRoute(tool, p)
      PROVE  UNCHANGED <<stage, req>>
  BY <1>6 DEF EditRoute
<1>7. ASSUME Tick \/ Stop \/ UNCHANGED vars
      PROVE  UNCHANGED <<stage, req>>
  BY <1>7 DEF Tick, Stop, pipeline, vars
<1> QED
  BY <1>1, <1>2, <1>3, <1>4, <1>5, <1>6, <1>7 DEF Next

\* A call that sends gets a leg of its own.
LEMMA SendKeepsLegs ==
    ASSUME ControlOK, Legs, NEW c \in Calls, NEW i \in Incoming, Send(c, i)
    PROVE  Legs'
<1> USE NobodyAssumption
<1>1. PICK r \in Requests :
          /\ Arrive(r, i) /\ stage[r] = "new"
          /\ leg' = [leg EXCEPT ![c] = r]
          /\ outcome' = [outcome EXCEPT ![c] = "waiting"]
          /\ UNCHANGED <<book, wire>>
  BY SendArrives
<1>2. Begun(r)' /\ [Next]_vars
  BY <1>1 DEF Arrive, Goto, Begun, Next, ControlOK
<1>3. \A d \in Calls : leg[d] \in Requests =>
          stage'[leg[d]] # "new" /\ req'[leg[d]] \in Incoming /\ leg[d] # r
  <2> SUFFICES ASSUME NEW d \in Calls, leg[d] \in Requests
               PROVE  stage'[leg[d]] # "new" /\ req'[leg[d]] \in Incoming /\ leg[d] # r
    OBVIOUS
  <2>1. Begun(leg[d])
    BY DEF Legs
  <2>2. \A q \in Requests : Begun(q) => Begun(q)'
    BY <1>2, BegunStays
  <2> QED
    BY <1>1, <2>1, <2>2 DEF Begun
<1> QED
  BY <1>1, <1>2, <1>3 DEF Legs, Begun

LEMMA LegsStep ==
    ASSUME ControlOK, Legs, [SessionNext]_session
    PROVE  Legs'
<1>1. \A q \in Requests : Begun(q) => Begun(q)'
  BY SessionRefines, BegunStays
<1>2. ASSUME NEW c \in Calls, NEW i \in Incoming, Call(c, i)
      PROVE  Legs'
  BY <1>2, SendKeepsLegs DEF Call
<1>3. ASSUME NEW c \in Calls, NEW p \in Payments, Pay(c, p)
      PROVE  Legs'
  <2>1. [req[leg[c]] EXCEPT !.payment = p] \in Incoming
    BY <1>3, PayRepeats
  <2> QED
    BY <1>3, <2>1, SendKeepsLegs DEF Pay
<1>4. ASSUME NEW c \in Calls, Return(c) \/ Throw(c)
      PROVE  Legs'
  BY <1>4 DEF Return, Throw, Legs, vars, Begun
<1>5. ASSUME UNCHANGED <<leg, outcome>>
      PROVE  Legs'
  BY <1>1, <1>5 DEF Legs, Begun
<1>6. ASSUME NEW r \in Requests, Gateway(Step(r))
      PROVE  UNCHANGED <<leg, outcome>>
  BY <1>6 DEF Gateway, client
<1>7. CASE Gateway(Around)
  BY <1>5, <1>7 DEF Gateway, client
<1>8. CASE UNCHANGED session
  BY <1>5, <1>8 DEF session, client
<1> QED
  BY <1>2, <1>3, <1>4, <1>5, <1>6, <1>7, <1>8 DEF SessionNext

\* Calls keep to requests of their own, which come to the gateway once: the
\* legs are what makes the session a run of the pipeline.
LEMMA LegsHold == SessionSpec => []Legs /\ []ControlOK
<1>1. SessionInit => Legs /\ ControlOK
  BY NobodyAssumption, FilesAssumption DEF SessionInit, Legs, Init, FileType, ControlOK, Stages, Matched
<1>2. Legs /\ ControlOK /\ [SessionNext]_session => Legs' /\ ControlOK'
  BY LegsStep, SessionRefines, ControlStep
<1> QED
  BY <1>1, <1>2, PTL DEF SessionSpec

\* The gateway behind the client runs as the pipeline is specified, retries
\* with a payment included: every theorem on the pipeline is one on sessions.
THEOREM SessionIsPipeline == SessionSpec => Spec
<1>1. SessionInit => Init
  BY DEF SessionInit
<1>2. Legs /\ [SessionNext]_session => [Next]_vars
  BY SessionRefines
<1> QED
  BY <1>1, <1>2, LegsHold, PTL DEF SessionSpec, Spec

\* Under the client, too, a call with a key is forwarded once per window: the
\* retry with a payment, which repeats the key, adds no second call.
THEOREM SessionForwardsOnce == SessionSpec => [](~SameTurn => KeyedCallForwardedOnce)
BY SessionIsPipeline, KeyedCallForwardedOnceHolds, PTL

-----------------------------------------------------------------------------
(* What the book says of the money stays true.                             *)

\* The chain moves a payment once.
LEMMA SettledStays ==
    ASSUME MoneyInv, [Next]_vars, NEW p \in Payments, settledBy[p] # None
    PROVE  settledBy'[p] = settledBy[p]
<1>1. ASSUME NEW r \in Requests, Settles(r)
      PROVE  settledBy'[p] = settledBy[p]
  BY <1>1 DEF Settles, MoneyInv
<1>2. ASSUME NEW r \in Requests, NEW i \in Incoming, Arrive(r, i)
      PROVE  UNCHANGED settledBy
  BY <1>2 DEF Arrive, money
<1>3. ASSUME NEW r \in Requests, Step(r)
      PROVE  UNCHANGED settledBy
  BY <1>3 DEF Step, Refuse, NotFound, Match, Replayed, Fresh, WithoutMandate,
     GarbledMandate, ReadMandate, JudgeMandate, NothingToPay, ProcessPayment,
     PaymentRefused, PaymentVerified, PaymentDegraded, UpstreamAnswers, UpstreamFails,
     AskSettlement, FinishUnpaid, FinishPaid, Finish, decided, money
<1>4. ASSUME NEW r \in Requests, SettlementDropped(r) \/ TimerFires(r)
      PROVE  UNCHANGED settledBy
  BY <1>4 DEF SettlementDropped, TimerFires, pipeline, money
<1>5. ASSUME NEW tool \in Tools, NEW q \in Prices \cup {None}, EditRoute(tool, q)
      PROVE  UNCHANGED settledBy
  BY <1>5 DEF EditRoute, money
<1>6. ASSUME Restart \/ Tick \/ Stop \/ UNCHANGED vars
      PROVE  UNCHANGED settledBy
  BY <1>6 DEF Restart, Tick, Stop, pipeline, vars, money
<1> QED
  BY <1>1, <1>2, <1>3, <1>4, <1>5, <1>6 DEF Next, Chain

\* The book is copied from what the gateway sent, and whatever it sent, then
\* or before a restart, names the request its transaction paid for.
BookInv ==
    /\ receipts \subseteq wire
    /\ book \subseteq wire
    /\ \A x \in wire :
          x.tx # None =>
              x.req \in Requests /\ x.tx \in Payments /\ settledBy[x.tx] = x.req

\* What goes over the wire in a step is in the store after it.
LEMMA WireGrows ==
    ASSUME BookInv, Legs, [SessionNext]_session
    PROVE  /\ wire' = wire \/ wire' = wire \cup receipts'
           /\ receipts' \subseteq wire'
           /\ book' \subseteq wire'
<1>1. ASSUME NEW c \in Calls, NEW i, Send(c, i)
      PROVE  UNCHANGED <<wire, book, receipts>>
  BY <1>1 DEF Send, Arrive
<1>2. ASSUME NEW c \in Calls, NEW i, Call(c, i)
      PROVE  UNCHANGED <<wire, book, receipts>>
  BY <1>1, <1>2 DEF Call
<1>3. ASSUME NEW c \in Calls, NEW p \in Payments, Pay(c, p)
      PROVE  UNCHANGED <<wire, book, receipts>>
  BY <1>1, <1>3 DEF Pay
<1>4. ASSUME NEW c \in Calls, Return(c)
      PROVE  UNCHANGED <<wire, receipts>> /\ book' \subseteq wire
  BY <1>4 DEF Return, ReceiptOf, BookInv, vars
<1>5. ASSUME NEW c \in Calls, Throw(c)
      PROVE  UNCHANGED <<wire, book, receipts>>
  BY <1>5 DEF Throw, vars
<1>6. ASSUME NEW r \in Requests, Gateway(Step(r))
      PROVE  UNCHANGED book /\ wire' = wire \cup receipts'
  BY <1>6 DEF Gateway, client
<1>7. ASSUME Gateway(Around)
      PROVE  UNCHANGED book /\ wire' = wire \cup receipts'
  BY <1>7 DEF Gateway, client
<1>8. CASE UNCHANGED session
  BY <1>8 DEF session, client, vars, BookInv
<1> QED
  BY <1>2, <1>3, <1>4, <1>5, <1>6, <1>7, <1>8 DEF SessionNext, BookInv

LEMMA BookStep ==
    ASSUME MoneyInv, MoneyInv', Legs, BookInv, [SessionNext]_session
    PROVE  BookInv'
<1> USE NobodyAssumption
<1>1. \A p \in Payments : settledBy[p] # None => settledBy'[p] = settledBy[p]
  BY SessionRefines, SettledStays
<1>2. \A x \in receipts' :
          x.tx # None =>
              x.req \in Requests /\ x.tx \in Payments /\ settledBy'[x.tx] = x.req
  BY DEF MoneyInv, ReceiptsTruthful
<1>3. \A x \in wire :
          x.tx # None =>
              x.req \in Requests /\ x.tx \in Payments /\ settledBy'[x.tx] = x.req
  BY <1>1 DEF BookInv
<1> QED
  BY <1>2, <1>3, WireGrows DEF BookInv

LEMMA BookInvHolds == SessionSpec => []BookInv
<1>1. SessionInit => BookInv
  BY DEF SessionInit, Init, BookInv
<1>2. SessionSpec => []MoneyInv
  BY SessionIsPipeline, MoneyInvHolds, PTL
<1>3. MoneyInv /\ MoneyInv' /\ Legs /\ BookInv /\ [SessionNext]_session => BookInv'
  BY BookStep
<1> QED
  BY <1>1, <1>2, <1>3, LegsHold, PTL DEF SessionSpec

\* A transaction on a receipt in the client's book moved the payment of that
\* very request, also after the gateway lost its store in a restart.
THEOREM BookTruthfulHolds == SessionSpec => []BookTruthful
<1>1. BookInv => BookTruthful
  BY DEF BookInv, BookTruthful
<1> QED
  BY <1>1, BookInvHolds, PTL

\* Every variable of a session keeps to its type.
THEOREM SessionTypeCorrect == SessionSpec => []SessionTypeOK
<1>1. TypeOK /\ Legs /\ BookInv => SessionTypeOK
  BY DEF Legs, BookInv, SessionTypeOK
<1> QED
  BY <1>1, SessionIsPipeline, TypeCorrect, LegsHold, BookInvHolds, PTL

-----------------------------------------------------------------------------
(* The total covers the money that moved.                                  *)

\* Among the receipts in S is the one of a successful answer to r.
Told(r, S) == \E x \in S : x.req = r /\ x.outcome = "SUCCESS" /\ x.price = quoted[r]

\* Only the handler of a request answers it, and it has not done so before.
LEMMA AnswerOrigin ==
    ASSUME ControlOK, MoneyInv, [Next]_vars, NEW r \in Requests,
           status'[r] # status[r] \/ quoted'[r] # quoted[r]
    PROVE  Step(r) /\ Live(r) /\ status[r] = None
<1>1. ASSUME NEW q \in Requests, Step(q)
      PROVE  Live(q)
  BY <1>1 DEF Live, Step, Refuse, NotFound, Match, Replayed, Fresh, WithoutMandate,
     GarbledMandate, ReadMandate, JudgeMandate, NothingToPay, ProcessPayment,
     PaymentRefused, PaymentVerified, PaymentDegraded, UpstreamAnswers, UpstreamFails,
     AskSettlement, FinishUnpaid, FinishPaid
<1>2. ASSUME NEW q \in Requests, Step(q), q # r
      PROVE  status'[r] = status[r] /\ quoted'[r] = quoted[r]
  BY <1>2 DEF MoneyInv, ControlOK, Respond, Step, Refuse, NotFound, Match, Replayed, Fresh,
     WithoutMandate, GarbledMandate, ReadMandate, JudgeMandate, NothingToPay,
     ProcessPayment, PaymentRefused, PaymentVerified, PaymentDegraded, UpstreamAnswers,
     UpstreamFails, AskSettlement, FinishUnpaid, FinishPaid, Finish, decided
<1>3. ASSUME NEW q \in Requests, NEW i \in Incoming, Arrive(q, i)
      PROVE  UNCHANGED <<status, quoted>>
  BY <1>3 DEF Arrive
<1>4. ASSUME NEW q \in Requests, Chain(q) \/ TimerFires(q)
      PROVE  UNCHANGED <<status, quoted>>
  BY <1>4 DEF Chain, Settles, SettlementDropped, TimerFires, decided, pipeline
<1>5. ASSUME NEW tool \in Tools, NEW p \in Prices \cup {None}, EditRoute(tool, p)
      PROVE  UNCHANGED <<status, quoted>>
  BY <1>5 DEF EditRoute
<1>6. ASSUME Restart \/ Tick \/ Stop \/ UNCHANGED vars
      PROVE  UNCHANGED <<status, quoted>>
  BY <1>6 DEF Restart, Tick, Stop, pipeline, vars
<1>7. Step(r)
  BY <1>2, <1>3, <1>4, <1>5, <1>6 DEF Next
<1> QED
  BY <1>1, <1>7 DEF MoneyInv

\* The answer 200 comes with the receipt of the price that was quoted.
LEMMA AnswerTells ==
    ASSUME ControlOK, MoneyInv, NEW r \in Requests, Step(r), status[r] = None, status'[r] = 200
    PROVE  Told(r, receipts)'
<1>1. CASE FinishUnpaid(r) \/ FinishPaid(r)
  <2>1. PICK tx : Finish(r, tx)
    BY <1>1 DEF FinishUnpaid, FinishPaid
  <2>2. ~Respond(r, 502)
    BY DEF Respond, MoneyInv
  <2>3. UNCHANGED quoted /\ Receipt(r, "SUCCESS", quoted[r], tx) \in receipts'
    BY <2>1, <2>2 DEF Finish, decided
  <2> QED
    BY <2>3 DEF Told, Receipt
<1>2. ASSUME ~FinishUnpaid(r), ~FinishPaid(r)
      PROVE  status'[r] # 200
  BY <1>2, NobodyAssumption DEF MoneyInv, Respond, Step, Refuse, NotFound, Match, Replayed,
     Fresh, WithoutMandate, GarbledMandate, ReadMandate, JudgeMandate, NothingToPay,
     ProcessPayment, PaymentRefused, PaymentVerified, PaymentDegraded, UpstreamAnswers,
     UpstreamFails, AskSettlement, decided
<1> QED
  BY <1>1, <1>2

\* A request is charged before its answer, if it gets one.
LEMMA ChargedBefore ==
    ASSUME MoneyInv, [Next]_vars, NEW r \in Requests, Charged(r)'
    PROVE  Charged(r) \/ AskSettlement(r)
<1>1. ASSUME NEW q \in Requests, Settles(q)
      PROVE  Charged(r)
  BY <1>1 DEF Settles, Charged, MoneyInv
<1>2. ASSUME NEW q \in Requests, AskSettlement(q)
      PROVE  Charged(r) \/ AskSettlement(r)
  BY <1>2 DEF AskSettlement, Charged
<1>3. ASSUME NEW q \in Requests, Step(q), ~AskSettlement(q)
      PROVE  UNCHANGED <<submitted, settledBy>>
  BY <1>3 DEF Step, Refuse, NotFound, Match, Replayed, Fresh, WithoutMandate,
     GarbledMandate, ReadMandate, JudgeMandate, NothingToPay, ProcessPayment,
     PaymentRefused, PaymentVerified, PaymentDegraded, UpstreamAnswers, UpstreamFails,
     FinishUnpaid, FinishPaid, Finish, decided, money
<1>4. ASSUME NEW q \in Requests, SettlementDropped(q)
      PROVE  Charged(r)
  BY <1>4 DEF SettlementDropped, Charged
<1>5. ASSUME NEW q \in Requests, NEW i \in Incoming, Arrive(q, i)
      PROVE  UNCHANGED <<submitted, settledBy>>
  BY <1>5 DEF Arrive, money
<1>6. ASSUME NEW q \in Requests, TimerFires(q)
      PROVE  UNCHANGED <<submitted, settledBy>>
  BY <1>6 DEF TimerFires, pipeline, money
<1>7. ASSUME NEW tool \in Tools, NEW p \in Prices \cup {None}, EditRoute(tool, p)
      PROVE  UNCHANGED <<submitted, settledBy>>
  BY <1>7 DEF EditRoute, money
<1>8. ASSUME Restart \/ Tick \/ Stop \/ UNCHANGED vars
      PROVE  UNCHANGED <<submitted, settledBy>>
  BY <1>8 DEF Restart, Tick, Stop, pipeline, vars, money
<1>9. UNCHANGED <<submitted, settledBy>> => Charged(r)
  BY DEF Charged
<1> QED
  BY <1>1, <1>2, <1>3, <1>4, <1>5, <1>6, <1>7, <1>8, <1>9 DEF Next, Chain

\* A charged request is answered with 200, with the 502 of the catch, or not at
\* all, and whoever was answered with 200 was sent the receipt; a call that
\* returned kept it.
AnswerInv ==
    /\ \A r \in Requests : Charged(r) => status[r] \in {None, 200, 502}
    /\ \A r \in Requests : status[r] = 200 => Told(r, wire)
    /\ \A c \in Calls :
          outcome[c] = "returned" =>
              status[leg[c]] # None /\ (status[leg[c]] = 200 => Told(leg[c], book))

LEMMA ChargedAnswered ==
    ASSUME ControlOK, MoneyInv, AnswerInv, [Next]_vars, NEW r \in Requests, Charged(r)'
    PROVE  status'[r] \in {None, 200, 502}
<1>1. CASE AskSettlement(r)
  BY <1>1 DEF AskSettlement, decided, MoneyInv, Live
<1>2. CASE Charged(r) /\ status'[r] # status[r]
  <2>1. Step(r) /\ Live(r)
    BY <1>2, AnswerOrigin
  <2>2. stage[r] = "settling"
    BY <1>2, <2>1 DEF MoneyInv, NoChargeWithoutAnswer, Live
  <2>3. FinishPaid(r)
    BY <2>1, <2>2 DEF Step, Refuse, NotFound, Match, Replayed, Fresh, WithoutMandate,
       GarbledMandate, ReadMandate, JudgeMandate, NothingToPay, ProcessPayment,
       PaymentRefused, PaymentVerified, PaymentDegraded, UpstreamAnswers, UpstreamFails,
       AskSettlement, FinishUnpaid
  <2> QED
    BY <2>3 DEF FinishPaid, Finish, Respond, MoneyInv
<1>3. CASE Charged(r) /\ status'[r] = status[r]
  BY <1>3 DEF AnswerInv
<1> QED
  BY <1>1, <1>2, <1>3, ChargedBefore

\* What a call that returned was told is in the book for good.
LEMMA ReturnedKept ==
    ASSUME ControlOK, MoneyInv, Legs, AnswerInv, [SessionNext]_session,
           NEW c \in Calls, outcome'[c] = "returned"
    PROVE  /\ leg'[c] = leg[c]
           /\ \/ outcome[c] = "returned" /\ book \subseteq book'
              \/ Return(c)
<1>1. ASSUME NEW d \in Calls, NEW i \in Incoming, Call(d, i)
      PROVE  outcome[c] = "returned" /\ leg'[c] = leg[c] /\ book' = book
  BY <1>1, SendArrives DEF Call, Legs
<1>2. ASSUME NEW d \in Calls, NEW p \in Payments, Pay(d, p)
      PROVE  outcome[c] = "returned" /\ leg'[c] = leg[c] /\ book' = book
  BY <1>2, SendArrives DEF Pay, Legs
<1>3. ASSUME NEW d \in Calls, Return(d)
      PROVE  leg'[c] = leg[c] /\ (c = d \/ (outcome[c] = "returned" /\ book \subseteq book'))
  BY <1>3 DEF Return, Legs
<1>4. ASSUME NEW d \in Calls, Throw(d)
      PROVE  outcome[c] = "returned" /\ leg'[c] = leg[c] /\ book' = book
  BY <1>4 DEF Throw, Legs
<1>5. ASSUME NEW r \in Requests, Gateway(Step(r))
      PROVE  outcome[c] = "returned" /\ leg'[c] = leg[c] /\ book' = book
  BY <1>5 DEF Gateway, client
<1>6. ASSUME Gateway(Around) \/ UNCHANGED session
      PROVE  outcome[c] = "returned" /\ leg'[c] = leg[c] /\ book' = book
  BY <1>6 DEF Gateway, client, session
<1> QED
  BY <1>1, <1>2, <1>3, <1>4, <1>5, <1>6 DEF SessionNext

LEMMA AnswerStep ==
    ASSUME ControlOK, MoneyInv, Legs, BookInv, AnswerInv, [SessionNext]_session
    PROVE  AnswerInv'
<1>1. [Next]_vars /\ wire \subseteq wire' /\ receipts' \subseteq wire'
  BY SessionRefines, WireGrows
<1>2. \A r \in Requests : status[r] # None =>
          status'[r] = status[r] /\ quoted'[r] = quoted[r]
  BY <1>1, AnswerOrigin
<1>3. ASSUME NEW r \in Requests, status'[r] = 200
      PROVE  Told(r, wire)'
  <2>1. CASE status[r] = 200
    BY <1>1, <1>2, <2>1, NobodyAssumption DEF AnswerInv, Told
  <2>2. CASE status[r] # 200
    <3>1. Told(r, receipts)'
      BY <1>1, <1>3, <2>2, AnswerOrigin, AnswerTells
    <3> QED
      BY <1>1, <3>1 DEF Told
  <2> QED
    BY <2>1, <2>2
<1>4. ASSUME NEW c \in Calls, outcome'[c] = "returned"
      PROVE  /\ status'[leg'[c]] # None
             /\ status'[leg'[c]] = 200 => Told(leg[c], book)'
  <2>1. leg'[c] = leg[c] /\ leg[c] \in Requests
    BY <1>4, ReturnedKept DEF Legs, Return
  <2>2. CASE outcome[c] = "returned" /\ book \subseteq book'
    BY <1>2, <2>1, <2>2 DEF AnswerInv, Told
  <2>3. CASE Return(c)
    <3>1. status[leg[c]] # None /\ UNCHANGED <<status, quoted>>
      BY <2>3 DEF Return, vars
    <3>2. \A x \in wire : x.req = leg[c] /\ x.outcome = "SUCCESS" => x \in book'
      BY <2>3 DEF Return, ReceiptOf
    <3> QED
      BY <2>1, <3>1, <3>2 DEF AnswerInv, Told
  <2> QED
    BY <1>4, <2>2, <2>3, ReturnedKept
<1>5. \A r \in Requests : Charged(r)' => status'[r] \in {None, 200, 502}
  BY <1>1, ChargedAnswered
<1> QED
  BY <1>3, <1>4, <1>5 DEF AnswerInv

LEMMA AnswerInvHolds == SessionSpec => []AnswerInv
<1>1. SessionInit => AnswerInv
  BY NobodyAssumption DEF SessionInit, Init, AnswerInv, Charged
<1>2. SessionSpec => []MoneyInv
  BY SessionIsPipeline, MoneyInvHolds, PTL
<1>3. ControlOK /\ MoneyInv /\ Legs /\ BookInv /\ AnswerInv /\ [SessionNext]_session
      => AnswerInv'
  BY AnswerStep
<1> QED
  BY <1>1, <1>2, <1>3, LegsHold, BookInvHolds, PTL DEF SessionSpec

\* The requests of all calls that returned.
Heard == {leg[c] : c \in {d \in Calls : outcome[d] = "returned"}}

ReceiptType == [req : Requests, outcome : {"SUCCESS", "DENIED", "ERROR"},
                price : Prices \cup {0}, tx : Payments \cup {None}]

\* There is an end to what was sent and kept at any time.
CountInv ==
    /\ IsFiniteSet(receipts) /\ IsFiniteSet(wire) /\ IsFiniteSet(book)
    /\ IsFiniteSet(Heard)
    /\ wire \subseteq ReceiptType

\* The store grows by two receipts at a time, at most.
LEMMA ReceiptsFinite ==
    ASSUME IsFiniteSet(receipts), [Next]_vars
    PROVE  IsFiniteSet(receipts')
<1>1. ASSUME NEW r \in Requests, Step(r)
      PROVE  receipts' = receipts \/ \E x, y : receipts' = receipts \cup {x, y}
  BY <1>1 DEF Step, Refuse, NotFound, Match, Replayed, Fresh, WithoutMandate,
     GarbledMandate, ReadMandate, JudgeMandate, NothingToPay, ProcessPayment,
     PaymentRefused, PaymentVerified, PaymentDegraded, UpstreamAnswers, UpstreamFails,
     AskSettlement, FinishUnpaid, FinishPaid, Finish
<1>2. ASSUME NEW r \in Requests, NEW i \in Incoming, Arrive(r, i)
      PROVE  receipts' = receipts
  BY <1>2 DEF Arrive
<1>3. ASSUME NEW r \in Requests, Chain(r) \/ TimerFires(r)
      PROVE  receipts' = receipts
  BY <1>3 DEF Chain, Settles, SettlementDropped, TimerFires, pipeline
<1>4. ASSUME NEW tool \in Tools, NEW p \in Prices \cup {None}, EditRoute(tool, p)
      PROVE  receipts' = receipts
  BY <1>4 DEF EditRoute
<1>5. ASSUME Tick \/ Stop \/ UNCHANGED vars
      PROVE  receipts' = receipts
  BY <1>5 DEF Tick, Stop, pipeline, vars
<1>6. CASE Restart
  BY <1>6, FS_EmptySet DEF Restart
<1>7. \A x, y : IsFiniteSet(receipts \cup {x, y})
  <2>1. \A x, y : receipts \cup {x, y} = (receipts \cup {x}) \cup {y}
    OBVIOUS
  <2> QED
    BY <2>1, FS_AddElement
<1>8. ASSUME NEW r \in Requests, Step(r)
      PROVE  IsFiniteSet(receipts')
  <2>1. CASE receipts' = receipts
    BY <2>1
  <2>2. CASE \E x, y : receipts' = receipts \cup {x, y}
    BY <1>7, <2>2
  <2> QED
    BY <1>1, <1>8, <2>1, <2>2
<1>9. CASE receipts' = receipts
  BY <1>9
<1> QED
  BY <1>2, <1>3, <1>4, <1>5, <1>6, <1>8, <1>9 DEF Next

LEMMA CountStep ==
    ASSUME ControlOK, MoneyInv, PayTypes', Legs, BookInv, AnswerInv, CountInv,
           [SessionNext]_session
    PROVE  CountInv'
<1>1. IsFiniteSet(receipts')
  BY SessionRefines, ReceiptsFinite DEF CountInv
<1>2. IsFiniteSet(wire') /\ wire' \subseteq ReceiptType
  <2>1. IsFiniteSet(wire \cup receipts')
    BY <1>1, FS_Union DEF CountInv
  <2>2. receipts' \subseteq ReceiptType
    BY DEF PayTypes, ReceiptType
  <2> QED
    BY <2>1, <2>2, WireGrows DEF CountInv
<1>3. IsFiniteSet(book')
  BY <1>2, WireGrows, FS_Subset
<1>4. IsFiniteSet(Heard')
  <2>1. ASSUME NEW c \in Calls, Return(c)
        PROVE  IsFiniteSet(Heard')
    <3>1. Heard' \subseteq Heard \cup {leg[c]}
      BY <2>1 DEF Return, Heard, Legs
    <3>2. IsFiniteSet(Heard \cup {leg[c]})
      BY FS_AddElement DEF CountInv
    <3> QED
      BY <3>1, <3>2, FS_Subset
  <2>2. ASSUME ~\E c \in Calls : Return(c)
        PROVE  Heard' \subseteq Heard
    BY <2>2, ReturnedKept DEF Heard
  <2> QED
    BY <2>1, <2>2, FS_Subset DEF CountInv
<1> QED
  BY <1>1, <1>2, <1>3, <1>4 DEF CountInv, ReceiptType

LEMMA CountInvHolds == SessionSpec => []CountInv
<1>1. SessionInit => CountInv
  <2> SUFFICES ASSUME SessionInit
               PROVE  CountInv
    OBVIOUS
  <2>1. Heard = {}
    BY DEF SessionInit, Heard
  <2> QED
    BY <2>1, FS_EmptySet DEF SessionInit, Init, CountInv
<1>2. SessionSpec => []MoneyInv /\ []PayTypes
  BY SessionIsPipeline, MoneyInvHolds, PayTyped, PTL
<1>3. /\ ControlOK /\ MoneyInv /\ PayTypes' /\ Legs /\ BookInv /\ AnswerInv /\ CountInv
      /\ [SessionNext]_session
      => CountInv'
  BY CountStep
<1> QED
  BY <1>1, <1>2, <1>3, LegsHold, BookInvHolds, AnswerInvHolds, PTL DEF SessionSpec

\* What a receipt adds to the total.
Counts == [x \in book |-> IF x.outcome = "SUCCESS" THEN x.price ELSE 0]

\* The money that moved for calls that returned with another answer than 502 is
\* in getTotalSpent: each such request has a receipt of its own in the book, of
\* what it owed.  On lines that x402 prices as the gateway does, while no price
\* is edited (a settlement moves the price x402 was started with, the receipt
\* names the one quoted) and every price is a number.
THEOREM SpentIsReportedHolds ==
    ASSUME OnlyDeletions, NaN \notin Prices
    PROVE  SessionSpec => []SpentIsReported
<1>1. Prices \subseteq Nat
  BY PartsAssumption DEF M!Amounts
<1>2. ASSUME PayTypes, PriceInv, Legs, BookInv, AnswerInv, CountInv
      PROVE  SpentIsReported
  <2> DEFINE own == [r \in Returned |-> CHOOSE x \in book :
                        x.req = r /\ x.outcome = "SUCCESS" /\ x.price = quoted[r]]
  <2>1. /\ Returned \subseteq Requests /\ Returned \subseteq Heard
        /\ \A r \in Returned :
              /\ IsClear(r) /\ status[r] # 502
              /\ \E c \in Calls : outcome[c] = "returned" /\ leg[c] = r
    BY DEF Returned, Heard, IsClear
  <2>2. \A r \in Returned : SettledFor[r] \in Nat
    <3> SUFFICES ASSUME NEW r \in Returned
                 PROVE  SettledFor[r] \in Nat
      OBVIOUS
    <3>1. CASE \E p \in Payments : settledBy[p] = r
      <4>1. r \in Requests /\ owed[r] # None
        BY <1>2, <2>1, <3>1 DEF PriceInv, Charged
      <4>2. owed[r] \in Prices
        BY <1>2, <4>1 DEF PayTypes
      <4> QED
        BY <1>1, <3>1, <4>1, <4>2 DEF SettledFor
    <3>2. CASE ~\E p \in Payments : settledBy[p] = r
      BY <2>1, <3>2 DEF SettledFor
    <3> QED
      BY <3>1, <3>2
  <2>3. \A x \in book : Counts[x] \in Nat
    <3> SUFFICES ASSUME NEW x \in book
                 PROVE  Counts[x] \in Nat
      OBVIOUS
    <3>1. x \in ReceiptType
      BY <1>2 DEF CountInv, BookInv
    <3>2. x.price \in Prices \cup {0}
      BY <3>1 DEF ReceiptType
    <3>3. \A p \in Prices \cup {0} : p \in Nat
      BY <1>1
    <3> QED
      BY <3>2, <3>3 DEF Counts
  <2>4. ASSUME NEW r \in Returned, SettledFor[r] # 0
        PROVE  /\ own[r] \in book /\ own[r].req = r
               /\ SettledFor[r] = Counts[own[r]]
    <3>1. \E p \in Payments : settledBy[p] = r
      BY <2>1, <2>4 DEF SettledFor
    <3>2. SettledFor[r] = quoted[r]
      BY <1>2, <2>1, <3>1 DEF SettledFor, PriceInv, Charged
    <3>3. Told(r, book)
      BY <1>2, <2>1, <3>1 DEF AnswerInv, Charged
    <3>4. own[r] \in book /\ own[r].req = r /\ own[r].outcome = "SUCCESS"
          /\ own[r].price = quoted[r]
      BY <3>3 DEF Told
    <3> QED
      BY <3>2, <3>4 DEF Counts
  <2>5. IsFiniteSet(Returned) /\ IsFiniteSet(book)
    BY <1>2, <2>1, FS_Subset DEF CountInv
  <2> HIDE DEF own
  <2>6. \A r \in Returned : SettledFor[r] # 0 =>
            own[r] \in book /\ SettledFor[r] <= Counts[own[r]]
    BY <2>2, <2>4
  <2>7. \A r, q \in Returned :
            SettledFor[r] # 0 /\ SettledFor[q] # 0 /\ own[r] = own[q] => r = q
    BY <2>4
  <2>8. SumFunctionOnSet(SettledFor, Returned) <= SumFunctionOnSet(Counts, book)
    BY <2>2, <2>3, <2>5, <2>6, <2>7, SumInjects
  <2>9. TotalSpent = SumFunctionOnSet(Counts, book)
    BY DEF TotalSpent, SumFunction, Counts
  <2> QED
    BY <2>8, <2>9 DEF SpentIsReported
<1>3. SessionSpec => []PayTypes /\ []PriceInv
  BY SessionIsPipeline, PayTyped, PriceInvHolds, PTL
<1> QED
  BY <1>2, <1>3, LegsHold, BookInvHolds, AnswerInvHolds, CountInvHolds, PTL
=============================================================================
