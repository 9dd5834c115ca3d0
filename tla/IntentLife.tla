----------------------------- MODULE IntentLife -----------------------------
(***************************************************************************)
(* What the gateway and its contract promise of an intent: it is stored    *)
(* once, by the account that holds it from then on, then paid for, then    *)
(* opened, one step at a time.  The gateway opens only what it holds, and  *)
(* the gateway and the protocol open it as it was stored; the contract     *)
(* takes any text from anybody else.                                       *)
(***************************************************************************)
CONSTANTS Intents, Texts, Wallet, Protocol, Others, None

VARIABLES holder,   \* the account that stored the intent, or None
          sealed,   \* the text stored, or None
          settled,  \* the intents that are paid for
          opened,   \* the text shown, or None
          opener    \* who showed it, or None

vars == <<holder, sealed, settled, opened, opener>>

Init ==
    /\ holder = [i \in Intents |-> None]
    /\ sealed = [i \in Intents |-> None]
    /\ settled = {}
    /\ opened = [i \in Intents |-> None]
    /\ opener = [i \in Intents |-> None]

Seal(i, who, text) ==
    /\ holder[i] = None
    /\ holder' = [holder EXCEPT ![i] = who]
    /\ sealed' = [sealed EXCEPT ![i] = text]
    /\ UNCHANGED <<settled, opened, opener>>

Pay(i) ==
    /\ holder[i] # None
    /\ i \notin settled
    /\ settled' = settled \cup {i}
    /\ UNCHANGED <<holder, sealed, opened, opener>>

Open(i, who, text) ==
    /\ i \in settled
    /\ opened[i] = None
    /\ who = Wallet => holder[i] = Wallet
    /\ who \in {Wallet, Protocol} => text = sealed[i]
    /\ opened' = [opened EXCEPT ![i] = text]
    /\ opener' = [opener EXCEPT ![i] = who]
    /\ UNCHANGED <<holder, sealed, settled>>

Next ==
    \E i \in Intents :
        \/ \E text \in Texts :
              \/ \E who \in {Wallet} \cup Others : Seal(i, who, text)
              \/ \E who \in {Wallet, Protocol} \cup Others : Open(i, who, text)
        \/ Pay(i)

Spec == Init /\ [][Next]_vars
=============================================================================
