--------------------------- MODULE MCBiteService ---------------------------
(***************************************************************************)
(* BiteService with one intent that is anchored and revealed, each perhaps *)
(* more than once or in the wrong order; one more account uses the         *)
(* contract, perhaps with a text of its own.                               *)
(***************************************************************************)
EXTENDS BiteService

CONSTANTS c1, c2, c3, i1, x1, x2, a1

AnchorsAndReveals ==
    {[fn |-> "storeIntent", intent |-> i1, text |-> x1],
     [fn |-> "markPaid", intent |-> i1, text |-> None]}
=============================================================================
