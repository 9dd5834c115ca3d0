-------------------------- MODULE MCAgentAdmission --------------------------
(***************************************************************************)
(* AgentAdmission with one agent at one address and one API key.           *)
(***************************************************************************)
EXTENDS AgentAdmission, TLC

CONSTANTS w1, n1, key

Named == [key |-> key, address |-> "0xa", id |-> "7"]
Anonymous == [key |-> Unset, address |-> Unset, id |-> Unset]

Callers == {Named, [Named EXCEPT !.id = Unset], Anonymous}

EnvOnly == [payTo |-> w1, network |-> n1]

Symmetry == Permutations(Requests)
=============================================================================
