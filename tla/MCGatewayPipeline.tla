------------------------- MODULE MCGatewayPipeline -------------------------
(***************************************************************************)
(* GatewayPipeline on small instances: requests that share an idempotency  *)
(* key, a budget or a payment, on lines that one rule serves or two.       *)
(***************************************************************************)
EXTENDS GatewayPipeline, TLC

CONSTANTS idA, t1, t2, t3, k1, p1, p2

\* GET /users/:id, GET /users/me and GET /items/:item-id
Patterns == [t \in Tools |->
    IF t = t1 THEN <<Literal("GET"), Literal("users"), [param |-> TRUE, word |-> TRUE, text |-> ""]>>
    ELSE IF t = t2 THEN <<Literal("GET"), Literal("users"), Literal("me")>>
    ELSE <<Literal("GET"), Literal("items"), [param |-> TRUE, word |-> TRUE, text |-> "-id"]>>]

You == <<"GET", "users", "you">>
Me == <<"GET", "users", "me">>
Item == <<"GET", "items", "7">>

AllLines == {You, Me, Item}

\* No text in these lines ends with the tail of a parameter.
NoTails == {"GET", "users", "you", "me", "items", "7"} \X {""}

\* The first rule alone, or all three in their order.
FirstAt(q) == [price |-> [t \in Tools |-> IF t = t1 THEN q ELSE None],
               ahead |-> {<<t1, t2>>, <<t1, t3>>, <<t2, t3>>} \cap (Tools \X Tools)]
OneRoute == {FirstAt(q) : q \in Prices}
AllRoutes == [FirstAt(2) EXCEPT !.price = [t \in Tools |-> IF t = t1 THEN 2 ELSE 1]]
FreeOrAll == {FirstAt(0), AllRoutes}

Daily == [kind |-> "daily", budget |-> idA, cap |-> 2, expiry |-> 9,
          scope |-> {t1}, confirmOver |-> None, signed |-> TRUE]

Request(line, key, mandate, payment) ==
    [line |-> line, key |-> key, mandate |-> mandate, payment |-> payment]

AllMandates == {Daily}

\* Keyed and under a mandate; the same with another payment; on the line that
\* two rules serve; on the line x402 does not find; and one whose mandate does
\* not parse.
Mixed == {Request(You, k1, Daily, p1), Request(You, None, Daily, p2),
          Request(Me, k1, None, p1), Request(Item, None, None, p2),
          Request(You, None, Garbled, None)}

\* A call of the SDK, and the same call sent again with its payment.
Retried == {Request(You, k1, None, None), Request(You, k1, None, p1)}

Overlapping == {Request(Me, None, None, p1)}

Deletion == {<<t1, None>>}
PriceEdits == {<<t1, 1>>, <<t1, 2>>}
NoEdits == {}

Symmetry == Permutations(Requests)
=============================================================================
