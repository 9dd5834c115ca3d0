---------------------------- MODULE BiteService ----------------------------
(***************************************************************************)
(* The BITE service of the gateway (packages/gateway/src/bite.ts), called  *)
(* by the admin handlers under /admin/skale (admin-routes.ts), composed    *)
(* with the contract (IntentStore) and the chain that executes the         *)
(* wallet's transactions in the order of their nonces.  Other accounts may *)
(* use the contract too, for any intent and with any text.                 *)
(*                                                                         *)
(* Writes are serialised by a promise chain: the next call starts when the *)
(* one before it has settled, however it did.  Within a call every await   *)
(* ends a step, and the chain, the BITE protocol and a restart may come in *)
(* between.  The node refuses a nonce that is taken, and the client        *)
(* refuses a contract call that would revert now (it estimates the gas);   *)
(* storeIntent has its gas fixed and is sent unseen.                       *)
(***************************************************************************)
EXTENDS Integers, Sequences

CONSTANTS Calls,        \* calls of the service
          Intents, Texts,
          Asks,         \* what a call may ask for (see AskType)
          Wallet,       \* the account of the gateway
          Others,       \* further accounts that use the contract
          Protocol,     \* who calls onDecrypt for the chain
          MaxRestarts,  \* bound on restarts
          None

\* encryptIntent comes with a text, triggerReveal without.
AskType == [fn : {"storeIntent"}, intent : Intents, text : Texts]
             \cup [fn : {"markPaid"}, intent : Intents, text : {None}]

ASSUME AsksAssumption == Asks \subseteq AskType
\* An id stands for one text: the handlers make both of the same instant.
ASSUME OneTextAssumption ==
    \A a, b \in Asks : a.intent = b.intent /\ None \notin {a.text, b.text} => a.text = b.text
ASSUME NoneAssumption ==
    /\ None \notin Texts \cup Others \cup {Wallet} /\ None \notin Nat
    /\ Wallet \notin Others \cup {Protocol} /\ Protocol \notin Others
ASSUME RestartsAssumption == MaxRestarts \in Nat

VARIABLES
    owner, blob, paid, shown,   \* the contract (IntentStore)
    opener,    \* who showed an intent (history)
    mined,     \* transactions of the wallet the chain has executed
    pool,      \* those it has not
    landed,    \* <<call, fn>> of those executed: their receipts can be had
    queue,     \* the calls behind txQueue, the running one in front
    nonce,     \* localNonce, None before the first use
    cache,     \* plaintextCache
    ask,       \* what each call asks for
    stage,     \* where each call stands
    fn,        \* the contract function the call is at
    held,      \* the nonce the call has taken
    life,      \* restarts so far
    begun,     \* intents encryptIntent was run for in this life (history)
    blind      \* reveals that found no plaintext (history)

contract == <<owner, blob, paid, shown, opener>>
chain == <<contract, mined, pool, landed>>
vars == <<chain, queue, nonce, cache, ask, stage, fn, held, life, begun, blind>>

Store == INSTANCE IntentStore WITH Accounts <- {Wallet} \cup Others

Init ==
    /\ Store!Init
    /\ opener = [i \in Intents |-> None]
    /\ mined = 0 /\ pool = {} /\ landed = {}
    /\ queue = <<>> /\ nonce = None
    /\ cache = [i \in Intents |-> None]
    /\ ask = [c \in Calls |-> None]
    /\ stage = [c \in Calls |-> "idle"]
    /\ fn = [c \in Calls |-> None]
    /\ held = [c \in Calls |-> None]
    /\ life = 0 /\ begun = {} /\ blind = {}

----------------------------------------------------------------------------
(* The queue.                                                              *)

Goto(c, s) == stage' = [stage EXCEPT ![c] = s]

Running(c) == queue # <<>> /\ Head(queue) = c

\* Mutant: txQueue.then(fn) alone, so a rejected call stops the chain.
SettleOnlyOk(c, s) == Goto(c, s) /\ queue' = IF s = "ok" THEN Tail(queue) ELSE queue

\* The call is answered, and the next one starts.
Settle(c, s) == Goto(c, s) /\ queue' = Tail(queue)

\* encryptIntent or triggerReveal is called: behind those before it.
Enqueue(c, a) ==
    /\ stage[c] = "idle"
    /\ ask' = [ask EXCEPT ![c] = a]
    /\ fn' = [fn EXCEPT ![c] = a.fn]
    /\ queue' = Append(queue, c)
    /\ Goto(c, "queued")
    /\ UNCHANGED <<chain, nonce, cache, held, life, begun, blind>>

\* Its turn has come.  encryptIntent caches the plaintext before all else.
Begin(c) ==
    /\ stage[c] = "queued" /\ Running(c)
    /\ IF ask[c].fn = "storeIntent"
       THEN /\ cache' = [cache EXCEPT ![ask[c].intent] = ask[c].text]
            /\ begun' = begun \cup {ask[c].intent}
       ELSE UNCHANGED <<cache, begun>>
    /\ Goto(c, "nonce")
    /\ UNCHANGED <<chain, queue, nonce, ask, fn, held, life, blind>>

----------------------------------------------------------------------------
(* One transaction of a call: nonce, send, receipt.                        *)

\* Mutant: the first nonce is the one of the last transaction.
NextNonceBefore(c) ==
    /\ stage[c] = "nonce"
    /\ LET n == IF nonce = None THEN mined - 1 ELSE nonce
       IN  held' = [held EXCEPT ![c] = n] /\ nonce' = n + 1
    /\ Goto(c, "sending")
    /\ UNCHANGED <<chain, queue, cache, ask, fn, life, begun, blind>>

\* Mutant: every transaction asks the chain for its count.
NextNonceAsking(c) ==
    /\ stage[c] = "nonce"
    /\ held' = [held EXCEPT ![c] = mined]
    /\ nonce' = mined + 1
    /\ Goto(c, "sending")
    /\ UNCHANGED <<chain, queue, cache, ask, fn, life, begun, blind>>

\* Mutant: the first use leaves out one nonce.
NextNonceSkipping(c) ==
    /\ stage[c] = "nonce"
    /\ held' = [held EXCEPT ![c] = IF nonce = None THEN mined ELSE nonce]
    /\ nonce' = IF nonce = None THEN mined + 2 ELSE nonce + 1
    /\ Goto(c, "sending")
    /\ UNCHANGED <<chain, queue, cache, ask, fn, life, begun, blind>>

\* nextNonce: the chain is asked once, then the service counts by itself.
NextNonce(c) ==
    /\ stage[c] = "nonce"
    /\ LET n == IF nonce = None THEN mined ELSE nonce
       IN  held' = [held EXCEPT ![c] = n] /\ nonce' = n + 1
    /\ Goto(c, "sending")
    /\ UNCHANGED <<chain, queue, cache, ask, fn, life, begun, blind>>

Tx(c) ==
    [nonce |-> held[c], call |-> c, fn |-> fn[c], life |-> life,
     text |-> IF fn[c] = "onDecrypt" THEN cache[ask[c].intent] ELSE ask[c].text]

\* The node takes the nonce, and the call would not revert now.
Acceptable(c) ==
    /\ held[c] >= mined /\ \A t \in pool : t.nonce # held[c]
    /\ CASE fn[c] = "storeIntent" -> TRUE
         [] fn[c] = "markPaid"    -> Store!MayPay(Wallet, ask[c].intent)
         [] fn[c] = "onDecrypt"   -> Store!MayDecrypt(ask[c].intent)

Send(c) ==
    /\ stage[c] = "sending" /\ Acceptable(c)
    /\ pool' = pool \cup {Tx(c)}
    /\ Goto(c, "waiting")
    /\ UNCHANGED <<contract, mined, landed, queue, nonce, cache, ask, fn, held, life, begun, blind>>

\* The transaction is not sent and the call fails; its nonce is used up.
SendRefused(c) ==
    /\ stage[c] = "sending" /\ ~Acceptable(c)
    /\ Settle(c, "refused")
    /\ UNCHANGED <<chain, nonce, cache, ask, fn, held, life, begun, blind>>

\* The RPC fails at any of the awaits, or the receipt does not come in time;
\* the transaction of a failed send may have got through.
Fails(c) ==
    /\ stage[c] \in {"nonce", "sending", "waiting"}
    /\ pool' \in {pool, IF stage[c] = "sending" /\ Acceptable(c)
                        THEN pool \cup {Tx(c)} ELSE pool}
    /\ Settle(c, "failed")
    /\ UNCHANGED <<contract, mined, landed, nonce, cache, ask, fn, held, life, begun, blind>>

\* Mutant: the plaintext is dropped once it has been handed to a transaction.
LandedDropping(c) ==
    /\ stage[c] = "waiting" /\ <<c, fn[c]>> \in landed
    /\ LET i == ask[c].intent IN
       IF fn[c] = "markPaid" /\ cache[i] # None
       THEN /\ fn' = [fn EXCEPT ![c] = "onDecrypt"]
            /\ Goto(c, "nonce")
            /\ cache' = [cache EXCEPT ![i] = None]
            /\ UNCHANGED <<queue, blind>>
       ELSE /\ Settle(c, "ok")
            /\ blind' = IF fn[c] = "markPaid" THEN blind \cup {c} ELSE blind
            /\ UNCHANGED <<fn, cache>>
    /\ UNCHANGED <<chain, nonce, ask, held, life, begun>>

\* Mutant: a reveal is answered when markPaid has landed.
LandedEarly(c) ==
    /\ stage[c] = "waiting" /\ <<c, fn[c]>> \in landed
    /\ Settle(c, "ok")
    /\ UNCHANGED <<chain, nonce, cache, ask, fn, held, life, begun, blind>>

\* The receipt is there; whether the transaction reverted is not looked at.
\* After markPaid the plaintext, if any, is taken to onDecrypt.
Landed(c) ==
    /\ stage[c] = "waiting" /\ <<c, fn[c]>> \in landed
    /\ LET i == ask[c].intent IN
       IF fn[c] = "markPaid" /\ cache[i] # None
       THEN /\ fn' = [fn EXCEPT ![c] = "onDecrypt"]
            /\ Goto(c, "nonce")
            /\ UNCHANGED <<queue, cache, blind>>
       ELSE /\ Settle(c, "ok")
            /\ cache' = IF fn[c] = "onDecrypt" THEN [cache EXCEPT ![i] = None] ELSE cache
            /\ blind' = IF fn[c] = "markPaid" THEN blind \cup {c} ELSE blind
            /\ UNCHANGED fn
    /\ UNCHANGED <<chain, nonce, ask, held, life, begun>>

----------------------------------------------------------------------------
(* The chain, and the process.                                             *)

\* onDecrypt, with a note of its caller.
Show(who, i, text) == Store!OnDecrypt(i, text) /\ opener' = [opener EXCEPT ![i] = who]

\* What the contract does with a transaction; a failed require reverts it.
Execute(t) ==
    LET i == ask[t.call].intent IN
    \/ t.fn = "storeIntent" /\ Store!StoreIntent(Wallet, i, t.text) /\ UNCHANGED opener
    \/ t.fn = "markPaid" /\ Store!MarkPaid(Wallet, i) /\ UNCHANGED opener
    \/ t.fn = "onDecrypt" /\ Show(Wallet, i, t.text)
    \/ /\ CASE t.fn = "storeIntent" -> ~Store!MayStore(i)
            [] t.fn = "markPaid"    -> ~Store!MayPay(Wallet, i)
            [] t.fn = "onDecrypt"   -> ~Store!MayDecrypt(i)
       /\ UNCHANGED contract

\* The transaction with the wallet's next nonce is executed.
Mine(t) ==
    /\ t \in pool /\ t.nonce = mined
    /\ Execute(t)
    /\ mined' = mined + 1
    /\ pool' = pool \ {t}
    /\ landed' = landed \cup {<<t.call, t.fn>>}
    /\ UNCHANGED <<queue, nonce, cache, ask, stage, fn, held, life, begun, blind>>

\* The BITE protocol decrypts a paid intent itself, where it is wired up.
Callback(i) ==
    /\ blob[i] # None /\ Show(Protocol, i, blob[i])
    /\ UNCHANGED <<mined, pool, landed, queue, nonce, cache, ask, stage, fn, held, life, begun, blind>>

\* Another account stores a text under the id, pays for what it stored, or
\* calls onDecrypt, which anyone may, with a text of its own.
OtherAccount(a, i) ==
    /\ \/ \E text \in Texts : Store!StoreIntent(a, i, text) /\ UNCHANGED opener
       \/ Store!MarkPaid(a, i) /\ UNCHANGED opener
       \/ \E text \in Texts : Show(a, i, text)
    /\ UNCHANGED <<mined, pool, landed, queue, nonce, cache, ask, stage, fn, held, life, begun, blind>>

Ended == {"ok", "failed", "refused", "gone"}

\* The gateway is started again: queue, nonce and plaintexts are lost; what
\* was sent is still on its way.
Restart ==
    /\ life < MaxRestarts
    /\ life' = life + 1
    /\ queue' = <<>> /\ nonce' = None
    /\ cache' = [i \in Intents |-> None]
    /\ stage' = [c \in Calls |-> IF stage[c] \in {"idle"} \cup Ended THEN stage[c] ELSE "gone"]
    /\ begun' = {}
    /\ UNCHANGED <<chain, ask, fn, held, blind>>

Step(c) == Begin(c) \/ NextNonce(c) \/ Send(c) \/ SendRefused(c) \/ Fails(c) \/ Landed(c)

Next ==
    \/ \E c \in Calls : (\E a \in Asks : Enqueue(c, a)) \/ Step(c)
    \/ \E t \in pool : Mine(t)
    \/ \E i \in Intents : Callback(i) \/ \E a \in Others : OtherAccount(a, i)
    \/ Restart

Spec == Init /\ [][Next]_vars

\* Ready continuations run, and waiting for a receipt ends after a timeout.
\* Nothing is assumed of the chain.
FairSpec == Spec /\ \A c \in Calls : WF_vars(Step(c))

----------------------------------------------------------------------------
Stages == {"idle", "queued", "nonce", "sending", "waiting"} \cup Ended
Functions == {"storeIntent", "markPaid", "onDecrypt"}

TypeOK ==
    /\ Store!TypeOK
    /\ opener \in [Intents -> {Wallet, Protocol, None} \cup Others]
    /\ mined \in Nat
    /\ pool \subseteq [nonce : Nat, call : Calls, fn : Functions, life : 0..MaxRestarts,
                       text : Texts \cup {None}]
    /\ landed \subseteq Calls \X Functions
    /\ queue \in Seq(Calls)
    /\ nonce \in Nat \cup {None}
    /\ cache \in [Intents -> Texts \cup {None}]
    /\ ask \in [Calls -> Asks \cup {None}]
    /\ stage \in [Calls -> Stages]
    /\ fn \in [Calls -> Functions \cup {None}]
    /\ held \in [Calls -> Nat \cup {None}]
    /\ life \in 0..MaxRestarts
    /\ begun \subseteq Intents /\ blind \subseteq Calls

\* What the service and the contract promise of an intent.
Life == INSTANCE IntentLife WITH
            holder <- owner, sealed <- blob, settled <- paid, opened <- shown

\* Service, chain and contract implement the life of an intent: with calls,
\* receipts, the protocol's callback and other accounts interleaved, and old
\* transactions that land after a restart, onDecrypt shows nothing before the
\* payment and nothing twice, and the gateway shows an intent only if it is its
\* own and as it was stored, though others may have stored one under that id.
ImplementsLife == Life!Spec

\* The transactions of this life that are not executed yet.
Pending == {t \in pool : t.life = life}

\* Serialised calls and counted nonces: no two transactions of one life carry
\* the same nonce, and the running call is behind all that were sent before.
NoNonceCollision ==
    /\ \A t, u \in Pending : t.nonce = u.nonce => t = u
    /\ \A c \in Calls :
          stage[c] = "sending" => \A t \in Pending : t.nonce < held[c]

\* A nonce that nobody will use, while every later transaction waits for it.
Gap == /\ nonce # None
       /\ \E n \in mined..(nonce - 1) :
             /\ \A t \in pool : t.nonce # n
             /\ \A c \in Calls : stage[c] = "sending" => held[c] # n

\* The wallet is stuck behind a gap only after a call was answered with an
\* error: calls that succeed leave none, in whatever order receipts come.
GapOnlyAfterFailure ==
    Gap => \E c \in Calls : stage[c] \in {"failed", "refused"}

\* A reveal that was answered ok has its intent paid, and shown unless the
\* service had no plaintext for it, though no receipt is looked into.
RevealConfirmed ==
    \A c \in Calls :
        stage[c] = "ok" /\ ask[c].fn = "markPaid" =>
            /\ ask[c].intent \in paid
            /\ shown[ask[c].intent] # None \/ c \in blind

\* The plaintext of an intent that is stored and not shown is at hand in the
\* life it was handed over in: failures and repeated calls do not lose it.
PlaintextKept ==
    \A i \in begun : shown[i] = None => cache[i] # None

\* Every call is answered, after a failed one and behind a gap too.
EveryCallAnswered == \A c \in Calls : stage[c] = "queued" ~> stage[c] \in Ended
=============================================================================
