----------------------------- MODULE MCSettings -----------------------------
(***************************************************************************)
(* Settings with two wallets, networks and addresses and one API key.      *)
(***************************************************************************)
EXTENDS Settings

CONSTANTS w1, w2, n1, n2

\* The environment names the network that is the default, too.
EnvAtHome == [payTo |-> w1, network |-> n1]
=============================================================================
