-------------------------- MODULE MCClientSession --------------------------
(***************************************************************************)
(* ClientSession with two calls that may share their idempotency key.      *)
(***************************************************************************)
EXTENDS ClientSession

CONSTANTS idA, t1, k1, p1

\* GET /users/:id, and a line it serves
Users == [t \in Tools |->
    <<Literal("GET"), Literal("users"), [param |-> TRUE, word |-> TRUE, text |-> ""]>>]

You == <<"GET", "users", "you">>
OneLine == {You}
NoTails == {"GET", "users", "you"} \X {""}

OneRoute == {[price |-> [t \in Tools |-> q], ahead |-> {}] : q \in Prices}

Daily == [kind |-> "daily", budget |-> idA, cap |-> 2, expiry |-> 9,
          scope |-> {t1}, confirmOver |-> None, signed |-> TRUE]

AllMandates == {Daily}

\* A client without a mandate that names its key.
Sent == {[line |-> You, key |-> k1, mandate |-> None, payment |-> p] : p \in {None, p1}}

NoEdits == {}
=============================================================================
