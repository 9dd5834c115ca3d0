---------------------------- MODULE MCRouteTable ----------------------------
(***************************************************************************)
(* The route table on a small instance: three rules that match the same    *)
(* request lines with more or fewer parameters, one public and one private *)
(* upstream.                                                               *)
(***************************************************************************)
EXTENDS RouteTable, TLC

CONSTANTS public, local, cheap, c1, c2

Rule(tool, pattern, backend) ==
    [tool |-> tool, pattern |-> pattern, price |-> cheap,
     backend |-> backend, bypass |-> FALSE]

AnyUser == Rule("anyUser", <<"GET", "users", Param>>, public)
Myself  == Rule("myself", <<"GET", "users", "me">>, public)
Inner   == Rule("inner", <<"GET", Param, "me">>, local)

ThreeRules == {AnyUser, Myself, Inner}
TwoRules   == {AnyUser, Myself}
Echo       == [Rule("e2e", <<"GET", "echo">>, local) EXCEPT !.bypass = TRUE]

RequestLines == {<<"GET", "users", "me">>, <<"GET", "users", "you">>,
                 <<"GET", "items", "me">>, <<"POST", "users", "me">>,
                 <<"GET", "echo">>}

Symmetry == Permutations(Calls)
=============================================================================
