----------------------------- MODULE IntentStore -----------------------------
(***************************************************************************)
(* The contract that keeps intents (contracts/src/BiteIntentStore.sol).    *)
(* Any account may call it; a transaction whose require fails changes      *)
(* nothing.  The gateway encrypts the transaction and not the blob in it,  *)
(* so the text the contract keeps is in the clear once it is executed.     *)
(***************************************************************************)
CONSTANTS Intents,    \* intent ids
          Accounts,   \* accounts that send transactions
          Texts,      \* intent data
          None        \* no value

VARIABLES owner,   \* who stored the intent; None while storedAt is 0
          blob,    \* encryptedBlob: the text that was stored
          paid,    \* the intents marked paid
          shown    \* decryptedBlob once revealed, None before

vars == <<owner, blob, paid, shown>>

Init ==
    /\ owner = [i \in Intents |-> None]
    /\ blob = [i \in Intents |-> None]
    /\ paid = {}
    /\ shown = [i \in Intents |-> None]

\* The requirements of the three functions.
MayStore(i) == owner[i] = None
MayPay(a, i) == owner[i] = a /\ i \notin paid
\* Mutant: onDecrypt does not ask for the payment.
MayDecryptUnpaid(i) == owner[i] # None /\ shown[i] = None
MayDecrypt(i) == owner[i] # None /\ i \in paid /\ shown[i] = None

StoreIntent(a, i, text) ==
    /\ MayStore(i)
    /\ owner' = [owner EXCEPT ![i] = a]
    /\ blob' = [blob EXCEPT ![i] = text]
    /\ UNCHANGED <<paid, shown>>

MarkPaid(a, i) ==
    /\ MayPay(a, i)
    /\ paid' = paid \cup {i}
    /\ UNCHANGED <<owner, blob, shown>>

\* Anyone may call it, with any text: the caller is not looked at.
OnDecrypt(i, text) ==
    /\ MayDecrypt(i)
    /\ shown' = [shown EXCEPT ![i] = text]
    /\ UNCHANGED <<owner, blob, paid>>

Next ==
    \E i \in Intents :
        \/ \E a \in Accounts :
              (\E text \in Texts : StoreIntent(a, i, text)) \/ MarkPaid(a, i)
        \/ \E text \in Texts : OnDecrypt(i, text)

Spec == Init /\ [][Next]_vars

----------------------------------------------------------------------------
TypeOK ==
    /\ owner \in [Intents -> Accounts \cup {None}]
    /\ blob \in [Intents -> Texts \cup {None}]
    /\ paid \subseteq Intents
    /\ shown \in [Intents -> Texts \cup {None}]
=============================================================================
