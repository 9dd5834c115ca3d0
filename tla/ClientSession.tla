--------------------------- MODULE ClientSession ---------------------------
(***************************************************************************)
(* The SDK client (packages/sdk/src/client.ts) in front of the gateway.    *)
(*                                                                         *)
(* A call sends a request; if it is told to pay, the wrapped fetch sends   *)
(* the same request once more, same idempotency key included, with a       *)
(* payment it has just signed.  From the answer it takes the receipt and   *)
(* keeps it for getReceipts and getTotalSpent.  The connection may break,  *)
(* and then the call throws and nothing is kept.                           *)
(***************************************************************************)
EXTENDS GatewayPipeline

CONSTANT Calls

\* What was sent without a payment may be sent again with one.
ASSUME RepeatAssumption ==
    \A i \in Incoming, p \in Payments : [i EXCEPT !.payment = p] \in Incoming

VARIABLES
    leg,       \* the request each call waits for, or None
    outcome,   \* "idle", "waiting", "returned" or "thrown"
    book,      \* this.receipts
    wire       \* every receipt the gateway ever stored and sent (history)

client == <<leg, outcome, book>>

session == <<vars, client, wire>>

SessionInit ==
    /\ Init
    /\ leg = [c \in Calls |-> None]
    /\ outcome = [c \in Calls |-> "idle"]
    /\ book = {}
    /\ wire = {}

----------------------------------------------------------------------------
\* What call c sends reaches the gateway as the next request.
Send(c, i) ==
    LET new == {r \in Requests : stage[r] = "new"}
        r == CHOOSE q \in new : TRUE
    IN  /\ new # {}
        /\ Arrive(r, i)
        /\ leg' = [leg EXCEPT ![c] = r]
        /\ outcome' = [outcome EXCEPT ![c] = "waiting"]
        /\ UNCHANGED <<book, wire>>

\* request(): without a payment, under a key of the caller or a fresh one.
Call(c, i) ==
    /\ outcome[c] = "idle"
    /\ i.payment = None
    /\ Send(c, i)

\* The first answer is 402: the same request again, with a fresh payment.
Pay(c, p) ==
    /\ outcome[c] = "waiting"
    /\ status[leg[c]] = 402 /\ req[leg[c]].payment = None
    /\ \A q \in Requests : req[q].payment # p
    /\ Send(c, [req[leg[c]] EXCEPT !.payment = p])

\* Mutant: the receipt is looked for in the body only.
ReceiptInBody(r) == {x \in wire : x.req = r /\ x.outcome # "SUCCESS"}

\* The receipt with the answer to r: the one in the header, if there is one (a
\* success, though the answer may be a 502), else the body itself (of these the
\* model keeps those that name a price).
ReceiptOf(r) ==
    LET success == {x \in wire : x.req = r /\ x.outcome = "SUCCESS"}
    IN  IF success # {} THEN success ELSE {x \in wire : x.req = r}

\* The answer is there, and is returned to the caller.  (A 402 too: the client
\* may have no wallet, or no funds to sign for.)
Return(c) ==
    /\ outcome[c] = "waiting"
    /\ status[leg[c]] # None
    /\ book' = book \cup ReceiptOf(leg[c])
    /\ outcome' = [outcome EXCEPT ![c] = "returned"]
    /\ UNCHANGED <<vars, leg, wire>>

\* The connection breaks, before or after the answer was sent.
Throw(c) ==
    /\ outcome[c] = "waiting"
    /\ outcome' = [outcome EXCEPT ![c] = "thrown"]
    /\ UNCHANGED <<vars, leg, book, wire>>

\* A step of the gateway; the receipts it stores go out with its answers.
Gateway(A) == A /\ wire' = wire \cup receipts' /\ UNCHANGED client

Around ==
    \/ \E r \in Requests : Chain(r) \/ TimerFires(r)
    \/ \E tool \in Tools, p \in Prices \cup {None} : EditRoute(tool, p)
    \/ Tick
    \/ Stop
    \/ Restart

SessionNext ==
    \/ \E c \in Calls :
          \/ \E i \in Incoming : Call(c, i)
          \/ \E p \in Payments : Pay(c, p)
          \/ Return(c)
          \/ Throw(c)
    \/ \E r \in Requests : Gateway(Step(r))
    \/ Gateway(Around)

\* Handlers of the gateway run on, and every call they await is answered or
\* times out (fetch gives up after 300 s without headers).  A client hears the
\* answer, or that there is none since the process it was connected to ended.
SessionFairness ==
    /\ \A r \in Requests : WF_session(Gateway(Step(r)))
    /\ \A c \in Calls :
          /\ WF_session(Return(c))
          /\ WF_session(outcome[c] = "waiting" /\ stage[leg[c]] = "gone" /\ Throw(c))

SessionSpec == SessionInit /\ [][SessionNext]_session /\ SessionFairness

----------------------------------------------------------------------------
SessionTypeOK ==
    /\ TypeOK
    /\ leg \in [Calls -> Requests \cup {None}]
    /\ outcome \in [Calls -> {"idle", "waiting", "returned", "thrown"}]
    /\ book \subseteq wire

\* What a client was told stays true, whatever becomes of the gateway and of
\* its receipt store: a transaction on a receipt in its book moved the payment
\* of that very request.
BookTruthful == \A x \in book : x.tx # None => settledBy[x.tx] = x.req

\* getTotalSpent, over the receipts of the book.
TotalSpent == SumFunction([x \in book |-> IF x.outcome = "SUCCESS" THEN x.price ELSE 0])

\* The requests whose answer was returned to the caller, other than the 502
\* that says nothing was charged, on lines x402 prices as the gateway does.
Returned ==
    {r \in Requests :
        /\ \E c \in Calls : outcome[c] = "returned" /\ leg[c] = r
        /\ status[r] # 502
        /\ req[r].line \in ClearLines}

\* A client never spends more than it says: the money that moved for calls
\* that returned is in getTotalSpent, also where the settlement was reported
\* as failed and went through afterwards.
SpentIsReported == SumFunctionOnSet(SettledFor, Returned) <= TotalSpent

\* Every call returns or throws.
EveryCallEnds ==
    \A c \in Calls : (outcome[c] = "waiting") ~> (outcome[c] \in {"returned", "thrown"})
=============================================================================
