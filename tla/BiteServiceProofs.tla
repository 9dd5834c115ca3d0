------------------------- MODULE BiteServiceProofs -------------------------
(***************************************************************************)
(* The BITE service and its contract, for any calls, intents and restarts. *)
(*                                                                         *)
(* The argument: one call at a time is past the queue, so the nonce it     *)
(* holds is the last one given out and no other call clears its plaintext. *)
(* A transaction is sent only if it would not revert, and what it needs of *)
(* the contract is never undone, so a receipt means success for markPaid   *)
(* and onDecrypt though no receipt is looked into.                         *)
(***************************************************************************)
EXTENDS BiteService, TLAPS

Active == {"nonce", "sending", "waiting"}

\* Only the call in front is past the queue, and no call is in it twice.
QueueOK ==
    /\ \A c \in Calls : stage[c] \in Active => queue # <<>> /\ Head(queue) = c
    /\ \A i, j \in 1..Len(queue) : queue[i] = queue[j] => i = j
    /\ \A i \in 1..Len(queue) : stage[queue[i]] \in {"queued"} \cup Active

\* What a call does is what it was asked.
CallsOK ==
    \A c \in Calls :
        stage[c] # "idle" =>
            /\ ask[c] \in Asks
            /\ fn[c] \in IF ask[c].fn = "storeIntent" THEN {"storeIntent"}
                                                      ELSE {"markPaid", "onDecrypt"}
            /\ stage[c] = "queued" => fn[c] # "onDecrypt"

\* The text is one that somebody asked to store under this id.
Asked(i, text) == text # None /\ \E a \in Asks : a.intent = i /\ a.text = text

\* Plaintexts at hand are texts of their intents, and the plaintext that a call
\* takes to onDecrypt stays at hand and is of an intent the gateway holds.
CacheOK ==
    /\ \A i \in Intents : cache[i] # None => Asked(i, cache[i])
    /\ \A c \in Calls :
          stage[c] \in Active /\ fn[c] = "onDecrypt" =>
              cache[ask[c].intent] # None /\ owner[ask[c].intent] = Wallet

ContractOK ==
    /\ \A i \in Intents :
          /\ owner[i] = None <=> blob[i] = None
          /\ owner[i] = Wallet => Asked(i, blob[i])
          /\ shown[i] # None => i \in paid
    /\ \A i \in paid : owner[i] # None

\* A transaction under way carries what its call asked for, and would succeed.
PoolOK ==
    \A t \in pool :
        /\ stage[t.call] # "idle"
        /\ t.fn = "storeIntent" => Asked(ask[t.call].intent, t.text)
        /\ t.fn = "markPaid" => owner[ask[t.call].intent] = Wallet
        /\ t.fn = "onDecrypt" => /\ ask[t.call].intent \in paid
                                 /\ owner[ask[t.call].intent] = Wallet
                                 /\ Asked(ask[t.call].intent, t.text)

\* A receipt means success.
LandedOK ==
    \A c \in Calls :
        /\ \A f \in Functions : <<c, f>> \in landed => stage[c] # "idle"
        /\ <<c, "markPaid">> \in landed =>
              ask[c].intent \in paid /\ owner[ask[c].intent] = Wallet
        /\ <<c, "onDecrypt">> \in landed => shown[ask[c].intent] # None

\* The nonce the sending call holds is the last one given out in this life, and
\* those of this life that are under way are smaller.
NoncesOK ==
    /\ \A t \in pool : t.life <= life
    /\ \A t \in Pending : nonce # None /\ t.nonce < nonce
    /\ \A t, u \in Pending : t.nonce = u.nonce => t = u
    /\ \A c \in Calls :
          stage[c] = "sending" =>
              /\ nonce # None /\ held[c] # None /\ held[c] = nonce - 1
              /\ \A t \in Pending : t.nonce < held[c]

BiteInv ==
    /\ TypeOK
    /\ QueueOK
    /\ CallsOK
    /\ CacheOK
    /\ ContractOK
    /\ PoolOK
    /\ LandedOK
    /\ NoncesOK
    /\ GapOnlyAfterFailure
    /\ RevealConfirmed
    /\ PlaintextKept

----------------------------------------------------------------------------
(* Texts and types.                                                        *)

LEMMA AskedType ==
    ASSUME NEW i, NEW text, Asked(i, text)
    PROVE  text \in Texts
BY AsksAssumption DEF Asked, AskType

\* An id stands for one text.
LEMMA AskedOnce ==
    ASSUME NEW i, NEW text, NEW other, Asked(i, text), Asked(i, other)
    PROVE  text = other
BY OneTextAssumption DEF Asked

LEMMA AskTypes ==
    ASSUME NEW a \in Asks
    PROVE  /\ a.intent \in Intents
           /\ a.text \in Texts \cup {None}
           /\ a.fn \in {"storeIntent", "markPaid"}
           /\ a.fn = "storeIntent" => Asked(a.intent, a.text)
           /\ a.fn = "markPaid" => a.text = None
BY AsksAssumption, NoneAssumption DEF AskType, Asked

\* The transaction of a call that sends.
LEMMA TxType ==
    ASSUME TypeOK, CallsOK, NoncesOK, NEW c \in Calls, stage[c] = "sending"
    PROVE  Tx(c) \in [nonce : Nat, call : Calls, fn : Functions, life : 0..MaxRestarts,
                      text : Texts \cup {None}]
<1>1. ask[c] \in Asks /\ fn[c] \in Functions
  BY DEF CallsOK, Functions
<1>2. ask[c].intent \in Intents /\ ask[c].text \in Texts \cup {None}
  BY <1>1, AskTypes
<1>3. held[c] \in Nat /\ life \in 0..MaxRestarts /\ cache[ask[c].intent] \in Texts \cup {None}
  BY <1>2 DEF TypeOK, NoncesOK
<1> QED
  BY <1>1, <1>2, <1>3 DEF Tx

LEMMA InitBite == Init => BiteInv
<1> SUFFICES ASSUME Init
             PROVE  BiteInv
  OBVIOUS
<1>1. TypeOK
  BY RestartsAssumption DEF Init, Store!Init, TypeOK, Store!TypeOK, Stages
<1>2. QueueOK /\ CallsOK /\ CacheOK
  BY DEF Init, QueueOK, CallsOK, CacheOK, Active
<1>3. ContractOK /\ PoolOK /\ LandedOK /\ NoncesOK
  BY NoneAssumption
     DEF Init, Store!Init, ContractOK, PoolOK, LandedOK, NoncesOK, Pending
<1>4. GapOnlyAfterFailure /\ RevealConfirmed /\ PlaintextKept
  BY DEF Init, GapOnlyAfterFailure, Gap, RevealConfirmed, PlaintextKept
<1> QED
  BY <1>1, <1>2, <1>3, <1>4 DEF BiteInv

----------------------------------------------------------------------------
(* The queue.                                                              *)

LEMMA EnqueueKeepsQueue ==
    ASSUME TypeOK, QueueOK, NEW c \in Calls, stage[c] = "idle",
           queue' = Append(queue, c), Goto(c, "queued")
    PROVE  QueueOK' /\ queue' \in Seq(Calls)
<1> USE DEF TypeOK, QueueOK, Active, Goto
<1>1. /\ queue' \in Seq(Calls) /\ Len(queue') = Len(queue) + 1
      /\ \A i \in 1..Len(queue) : queue'[i] = queue[i]
      /\ queue'[Len(queue) + 1] = c
  OBVIOUS
<1>2. \A i \in 1..Len(queue) : queue[i] # c
  OBVIOUS
<1>3. \A d \in Calls : stage'[d] \in Active => queue' # <<>> /\ Head(queue') = d
  OBVIOUS
<1>4. \A i, j \in 1..Len(queue') : queue'[i] = queue'[j] => i = j
  BY <1>1, <1>2
<1>5. \A i \in 1..Len(queue') : stage'[queue'[i]] \in {"queued"} \cup Active
  BY <1>1, <1>2
<1> QED
  BY <1>1, <1>3, <1>4, <1>5

LEMMA MoveKeepsQueue ==
    ASSUME TypeOK, QueueOK, NEW c \in Calls, Running(c), stage[c] \in Active \cup {"queued"},
           NEW s \in Active, Goto(c, s), UNCHANGED queue
    PROVE  QueueOK'
BY DEF TypeOK, QueueOK, Active, Goto, Running

LEMMA SettleKeepsQueue ==
    ASSUME TypeOK, QueueOK, NEW c \in Calls, stage[c] \in Active,
           NEW s \in Ended, Settle(c, s)
    PROVE  QueueOK' /\ queue' \in Seq(Calls)
<1> USE DEF TypeOK, QueueOK, Active, Goto, Settle, Ended
<1>1. queue # <<>> /\ Head(queue) = c
  OBVIOUS
<1>2. /\ queue' \in Seq(Calls) /\ Len(queue') = Len(queue) - 1
      /\ \A i \in 1..Len(queue') : queue'[i] = queue[i + 1]
  BY <1>1
<1>3. \A i \in 1..Len(queue') : queue'[i] # c
  BY <1>1, <1>2
<1>4. \A d \in Calls : stage'[d] \notin Active
  BY <1>1
<1>5. \A i, j \in 1..Len(queue') : queue'[i] = queue'[j] => i = j
  BY <1>2
<1>6. \A i \in 1..Len(queue') : stage'[queue'[i]] \in {"queued"} \cup Active
  BY <1>2, <1>3
<1> QED
  BY <1>2, <1>4, <1>5, <1>6

\* Of two calls past the queue, both are the one in front.
LEMMA OneActive ==
    ASSUME QueueOK, NEW c \in Calls, NEW d \in Calls, stage[c] \in Active, stage[d] \in Active
    PROVE  c = d
BY DEF QueueOK

----------------------------------------------------------------------------
(* The steps of a call.                                                    *)

LEMMA EnqueueKeeps ==
    ASSUME BiteInv, NEW c \in Calls, NEW a \in Asks, Enqueue(c, a)
    PROVE  BiteInv'
<1> USE DEF BiteInv
<1>1. /\ stage[c] = "idle"
      /\ ask' = [ask EXCEPT ![c] = a]
      /\ fn' = [fn EXCEPT ![c] = a.fn]
      /\ queue' = Append(queue, c)
      /\ stage' = [stage EXCEPT ![c] = "queued"]
      /\ UNCHANGED <<chain, nonce, cache, held, life, begun, blind>>
  BY DEF Enqueue, Goto
<1>2. UNCHANGED <<owner, blob, paid, shown, opener, mined, pool, landed>>
  BY <1>1 DEF chain, contract
<1>3. QueueOK' /\ queue' \in Seq(Calls)
  BY <1>1, EnqueueKeepsQueue DEF Goto
<1>4. a.fn \in {"storeIntent", "markPaid"}
  BY AskTypes
<1>5. TypeOK'
  BY <1>1, <1>2, <1>3, <1>4 DEF TypeOK, Store!TypeOK, Functions, Stages
<1>6. CallsOK'
  BY <1>1, <1>4 DEF TypeOK, CallsOK
<1>7. CacheOK'
  BY <1>1, <1>2 DEF TypeOK, CacheOK, Active
<1>8. ContractOK'
  BY <1>2 DEF ContractOK
<1>9. PoolOK' /\ LandedOK'
  <2>1. \A d \in Calls : stage[d] # "idle" => stage'[d] # "idle" /\ ask'[d] = ask[d]
    BY <1>1 DEF TypeOK
  <2>2. PoolOK'
    BY <1>2, <2>1 DEF PoolOK, TypeOK
  <2>3. LandedOK'
    BY <1>2, <2>1 DEF LandedOK, Functions
  <2> QED
    BY <2>2, <2>3
<1>10. NoncesOK'
  BY <1>1, <1>2 DEF TypeOK, NoncesOK, Pending
<1>11. GapOnlyAfterFailure'
  BY <1>1, <1>2 DEF TypeOK, GapOnlyAfterFailure, Gap
<1>12. RevealConfirmed' /\ PlaintextKept'
  BY <1>1, <1>2 DEF TypeOK, RevealConfirmed, PlaintextKept
<1> QED
  BY <1>3, <1>5, <1>6, <1>7, <1>8, <1>9, <1>10, <1>11, <1>12

LEMMA BeginKeeps ==
    ASSUME BiteInv, NEW c \in Calls, Begin(c)
    PROVE  BiteInv'
<1> USE DEF BiteInv
<1> DEFINE i == ask[c].intent
           text == ask[c].text
<1>1. /\ stage[c] = "queued" /\ Running(c)
      /\ \/ /\ ask[c].fn = "storeIntent"
            /\ cache' = [cache EXCEPT ![i] = text]
            /\ begun' = begun \cup {i}
         \/ UNCHANGED <<cache, begun>>
      /\ stage' = [stage EXCEPT ![c] = "nonce"]
      /\ UNCHANGED <<queue, nonce, ask, fn, held, life, blind>>
      /\ UNCHANGED <<owner, blob, paid, shown, opener, mined, pool, landed>>
  BY DEF Begin, Goto, chain, contract
<1>2. /\ ask[c] \in Asks /\ i \in Intents /\ text \in Texts \cup {None}
      /\ ask[c].fn = "storeIntent" => Asked(i, text)
  BY <1>1, AskTypes DEF CallsOK
<1>3. QueueOK'
  BY <1>1, MoveKeepsQueue DEF Goto, Active
<1>4. TypeOK'
  BY <1>1, <1>2 DEF TypeOK, Store!TypeOK, Stages
<1>5. CallsOK' /\ ContractOK'
  BY <1>1 DEF TypeOK, CallsOK, ContractOK
<1>6. CacheOK'
  <2>1. \A j \in Intents : cache[j] # None => cache'[j] # None
    BY <1>1, <1>2 DEF TypeOK, Asked
  <2>2. \A j \in Intents : cache'[j] # None => Asked(j, cache'[j])
    BY <1>1, <1>2 DEF TypeOK, CacheOK
  <2>3. fn[c] # "onDecrypt"
    BY <1>1 DEF CallsOK
  <2>4. ASSUME NEW d \in Calls, stage'[d] \in Active, fn'[d] = "onDecrypt"
        PROVE  cache'[ask'[d].intent] # None /\ owner'[ask'[d].intent] = Wallet
    <3>1. d # c /\ stage[d] \in Active /\ fn[d] = "onDecrypt"
      BY <1>1, <2>3, <2>4 DEF TypeOK, Active
    <3>2. cache[ask[d].intent] # None /\ owner[ask[d].intent] = Wallet /\ ask[d] \in Asks
      BY <3>1 DEF CacheOK, CallsOK, Active
    <3> QED
      BY <1>1, <2>1, <3>2, AskTypes
  <2> QED
    BY <2>2, <2>4 DEF CacheOK
<1>7. PoolOK' /\ LandedOK'
  BY <1>1 DEF TypeOK, PoolOK, LandedOK
<1>8. NoncesOK' /\ GapOnlyAfterFailure'
  BY <1>1 DEF TypeOK, NoncesOK, Pending, GapOnlyAfterFailure, Gap
<1>9. RevealConfirmed'
  BY <1>1 DEF TypeOK, RevealConfirmed
<1>10. PlaintextKept'
  BY <1>1, <1>2 DEF TypeOK, PlaintextKept, Asked
<1> QED
  BY <1>3, <1>4, <1>5, <1>6, <1>7, <1>8, <1>9, <1>10

LEMMA NextNonceKeeps ==
    ASSUME BiteInv, NEW c \in Calls, NextNonce(c)
    PROVE  BiteInv'
<1> USE DEF BiteInv
<1> DEFINE n == IF nonce = None THEN mined ELSE nonce
<1>1. /\ stage[c] = "nonce"
      /\ held' = [held EXCEPT ![c] = n] /\ nonce' = n + 1
      /\ stage' = [stage EXCEPT ![c] = "sending"]
      /\ UNCHANGED <<queue, cache, ask, fn, life, begun, blind>>
      /\ UNCHANGED <<owner, blob, paid, shown, opener, mined, pool, landed>>
  BY DEF NextNonce, Goto, chain, contract
<1>2. n \in Nat /\ n # None /\ n + 1 \in Nat /\ n + 1 # None
  BY NoneAssumption DEF TypeOK
<1>3. QueueOK'
  BY <1>1, MoveKeepsQueue DEF QueueOK, Running, Goto, Active
<1>4. TypeOK'
  BY <1>1, <1>2 DEF TypeOK, Store!TypeOK, Stages
<1>5. CallsOK' /\ CacheOK' /\ ContractOK' /\ PoolOK' /\ LandedOK'
  BY <1>1 DEF TypeOK, CallsOK, CacheOK, ContractOK, PoolOK, LandedOK, Active
<1>6. \A d \in Calls : stage[d] # "sending"
  BY <1>1, OneActive DEF Active
<1>7. \A t \in Pending : t.nonce \in Nat /\ t.nonce < n
  BY DEF NoncesOK, TypeOK, Pending
<1>8. NoncesOK'
  <2>1. Pending' = Pending
    BY <1>1 DEF Pending
  <2>2. \A d \in Calls : stage'[d] = "sending" => d = c
    BY <1>1, <1>6 DEF TypeOK
  <2>3. nonce' # None /\ held'[c] = n /\ nonce' = n + 1
    BY <1>1, <1>2 DEF TypeOK
  <2> QED
    BY <1>1, <1>2, <1>7, <2>1, <2>2, <2>3 DEF NoncesOK
<1>9. GapOnlyAfterFailure'
  <2> SUFFICES ASSUME NEW k \in mined..n,
                      \A t \in pool : t.nonce # k,
                      \A d \in Calls : stage'[d] = "sending" => held'[d] # k
               PROVE  \E d \in Calls : stage'[d] \in {"failed", "refused"}
    BY <1>1, <1>2 DEF GapOnlyAfterFailure, Gap
  <2>1. k # n
    BY <1>1 DEF TypeOK
  <2>2. nonce # None /\ k \in mined..(nonce - 1)
    BY <1>2, <2>1 DEF TypeOK
  <2>3. PICK d \in Calls : stage[d] \in {"failed", "refused"}
    BY <1>6, <2>2 DEF GapOnlyAfterFailure, Gap
  <2> QED
    BY <1>1, <2>3 DEF TypeOK
<1>10. RevealConfirmed' /\ PlaintextKept'
  BY <1>1 DEF TypeOK, RevealConfirmed, PlaintextKept
<1> QED
  BY <1>3, <1>4, <1>5, <1>8, <1>9, <1>10

\* What a call sends would succeed, and carries the last nonce given out.
LEMMA SentOK ==
    ASSUME BiteInv, NEW c \in Calls, stage[c] = "sending", Acceptable(c),
           pool' = pool \cup {Tx(c)}, NEW s \in {"waiting", "failed"},
           stage' = [stage EXCEPT ![c] = s],
           UNCHANGED <<owner, paid, ask, life, nonce, held>>
    PROVE  /\ pool' \subseteq [nonce : Nat, call : Calls, fn : Functions,
                               life : 0..MaxRestarts, text : Texts \cup {None}]
           /\ PoolOK'
           /\ NoncesOK'
<1> USE DEF BiteInv
<1> DEFINE tx == Tx(c)
           i == ask[c].intent
<1>1. /\ tx.nonce = held[c] /\ tx.call = c /\ tx.fn = fn[c] /\ tx.life = life
      /\ tx.text = IF fn[c] = "onDecrypt" THEN cache[i] ELSE ask[c].text
  BY DEF Tx
<1>2. pool' \subseteq [nonce : Nat, call : Calls, fn : Functions,
                       life : 0..MaxRestarts, text : Texts \cup {None}]
  BY TxType DEF TypeOK
<1>3. /\ ask[c] \in Asks /\ fn[c] \in Functions /\ i \in Intents
      /\ fn[c] = "storeIntent" => ask[c].fn = "storeIntent" /\ Asked(i, ask[c].text)
  BY AskTypes DEF CallsOK, Functions
<1>4. /\ tx.fn = "storeIntent" => Asked(i, tx.text)
      /\ tx.fn = "markPaid" => owner[i] = Wallet
      /\ tx.fn = "onDecrypt" => i \in paid /\ owner[i] = Wallet /\ Asked(i, tx.text)
  <2>1. CASE fn[c] = "storeIntent"
    BY <1>1, <1>3, <2>1
  <2>2. CASE fn[c] = "markPaid"
    BY <1>1, <2>2 DEF Acceptable, Store!MayPay
  <2>3. CASE fn[c] = "onDecrypt"
    BY <1>1, <1>3, <2>3 DEF Acceptable, Store!MayDecrypt, CacheOK, Active
  <2> QED
    BY <1>3, <2>1, <2>2, <2>3 DEF Functions
<1> HIDE DEF tx
<1>5. PoolOK'
  <2>1. \A t \in pool : stage[t.call] # "idle" => stage'[t.call] # "idle"
    BY DEF TypeOK
  <2>2. stage'[c] # "idle"
    BY DEF TypeOK
  <2> SUFFICES ASSUME NEW t \in pool'
               PROVE  /\ stage'[t.call] # "idle"
                      /\ t.fn = "storeIntent" => Asked(ask'[t.call].intent, t.text)
                      /\ t.fn = "markPaid" => owner'[ask'[t.call].intent] = Wallet
                      /\ t.fn = "onDecrypt" => /\ ask'[t.call].intent \in paid'
                                               /\ owner'[ask'[t.call].intent] = Wallet
                                               /\ Asked(ask'[t.call].intent, t.text)
    BY DEF PoolOK
  <2>3. CASE t = tx
    BY <1>1, <1>4, <2>2, <2>3
  <2>4. CASE t \in pool
    BY <2>1, <2>4 DEF PoolOK
  <2> QED
    BY <2>3, <2>4 DEF tx
<1>6. NoncesOK'
  <2>1. /\ nonce # None /\ held[c] = nonce - 1
        /\ \A t \in Pending : t.nonce < held[c]
        /\ nonce \in Nat /\ held[c] \in Int
    BY DEF NoncesOK, TypeOK
  <2>2. Pending' = Pending \cup {tx}
    BY <1>1 DEF Pending, tx
  <2>3. \A d \in Calls : stage'[d] # "sending"
    BY OneActive DEF Active, TypeOK
  <2>4. \A t \in pool' : t.life <= life
    BY <1>1 DEF tx, NoncesOK, TypeOK
  <2>5. \A t \in Pending' : t.nonce < nonce
    BY <1>1, <2>1, <2>2 DEF NoncesOK
  <2>6. \A t, u \in Pending' : t.nonce = u.nonce => t = u
    BY <1>1, <2>1, <2>2 DEF NoncesOK
  <2> QED
    BY <2>1, <2>3, <2>4, <2>5, <2>6 DEF NoncesOK
<1> QED
  BY <1>2, <1>5, <1>6

LEMMA SendKeeps ==
    ASSUME BiteInv, NEW c \in Calls, Send(c)
    PROVE  BiteInv'
<1> USE DEF BiteInv
<1>1. /\ stage[c] = "sending" /\ Acceptable(c)
      /\ pool' = pool \cup {Tx(c)}
      /\ stage' = [stage EXCEPT ![c] = "waiting"]
      /\ UNCHANGED <<queue, nonce, cache, ask, fn, held, life, begun, blind>>
      /\ UNCHANGED <<owner, blob, paid, shown, opener, mined, landed>>
  BY DEF Send, Goto, contract
<1>2. QueueOK'
  BY <1>1, MoveKeepsQueue DEF QueueOK, Running, Goto, Active
<1>3. /\ pool' \subseteq [nonce : Nat, call : Calls, fn : Functions,
                          life : 0..MaxRestarts, text : Texts \cup {None}]
      /\ PoolOK' /\ NoncesOK'
  BY <1>1, SentOK
<1>4. TypeOK'
  BY <1>1, <1>3 DEF TypeOK, Store!TypeOK, Stages
<1>5. CallsOK' /\ CacheOK' /\ ContractOK' /\ LandedOK'
  BY <1>1 DEF TypeOK, CallsOK, CacheOK, ContractOK, LandedOK, Active
<1>6. GapOnlyAfterFailure'
  <2> SUFFICES ASSUME nonce # None, NEW k \in mined..(nonce - 1),
                      \A t \in pool' : t.nonce # k
               PROVE  \E d \in Calls : stage'[d] \in {"failed", "refused"}
    BY <1>1 DEF GapOnlyAfterFailure, Gap
  <2>1. k # held[c]
    <3>1. Tx(c) \in pool'
      BY <1>1
    <3>2. Tx(c).nonce = held[c]
      BY DEF Tx
    <3> QED
      BY <3>1, <3>2
  <2>2. \A d \in Calls : stage[d] = "sending" => held[d] # k
    BY <1>1, <2>1, OneActive DEF Active
  <2>3. PICK d \in Calls : stage[d] \in {"failed", "refused"}
    BY <1>1, <2>2 DEF GapOnlyAfterFailure, Gap
  <2> QED
    BY <1>1, <2>3 DEF TypeOK
<1>7. RevealConfirmed' /\ PlaintextKept'
  BY <1>1 DEF TypeOK, RevealConfirmed, PlaintextKept
<1> QED
  BY <1>2, <1>3, <1>4, <1>5, <1>6, <1>7

LEMMA FailureKeeps ==
    ASSUME BiteInv, NEW c \in Calls, SendRefused(c) \/ Fails(c)
    PROVE  BiteInv'
<1> USE DEF BiteInv
<1>1. PICK s \in {"refused", "failed"} :
        /\ stage[c] \in Active
        /\ stage' = [stage EXCEPT ![c] = s] /\ queue' = Tail(queue)
        /\ \/ pool' = pool
           \/ /\ s = "failed" /\ stage[c] = "sending" /\ Acceptable(c)
              /\ pool' = pool \cup {Tx(c)}
        /\ UNCHANGED <<nonce, cache, ask, fn, held, life, begun, blind>>
        /\ UNCHANGED <<owner, blob, paid, shown, opener, mined, landed>>
  BY DEF SendRefused, Fails, Settle, Goto, chain, contract, Active
<1>2. QueueOK' /\ queue' \in Seq(Calls)
  BY <1>1, SettleKeepsQueue DEF Settle, Goto, Ended
<1>3. /\ pool' \subseteq [nonce : Nat, call : Calls, fn : Functions,
                          life : 0..MaxRestarts, text : Texts \cup {None}]
      /\ PoolOK' /\ NoncesOK'
  <2>1. CASE pool' = pool
    <3>1. PoolOK'
      BY <1>1, <2>1 DEF TypeOK, PoolOK
    <3>2. NoncesOK'
      BY <1>1, <2>1 DEF TypeOK, NoncesOK, Pending
    <3> QED
      BY <2>1, <3>1, <3>2 DEF TypeOK
  <2>2. CASE pool' # pool
    BY <1>1, <2>2, SentOK
  <2> QED
    BY <2>1, <2>2
<1>4. TypeOK'
  BY <1>1, <1>2, <1>3 DEF TypeOK, Store!TypeOK, Stages, Ended
<1>5. CallsOK' /\ CacheOK' /\ ContractOK' /\ LandedOK'
  BY <1>1 DEF TypeOK, CallsOK, CacheOK, ContractOK, LandedOK, Active
<1>6. GapOnlyAfterFailure'
  BY <1>1 DEF TypeOK, GapOnlyAfterFailure
<1>7. RevealConfirmed' /\ PlaintextKept'
  BY <1>1 DEF TypeOK, RevealConfirmed, PlaintextKept
<1> QED
  BY <1>2, <1>3, <1>4, <1>5, <1>6, <1>7

LEMMA LandedKeeps ==
    ASSUME BiteInv, NEW c \in Calls, Landed(c)
    PROVE  BiteInv'
<1> USE DEF BiteInv
<1> DEFINE i == ask[c].intent
<1>1. /\ stage[c] = "waiting" /\ <<c, fn[c]>> \in landed
      /\ UNCHANGED <<nonce, ask, held, life, begun>>
      /\ UNCHANGED <<owner, blob, paid, shown, opener, mined, pool, landed>>
  BY DEF Landed, chain, contract
<1>2. ask[c] \in Asks /\ i \in Intents /\ fn[c] \in Functions
  BY <1>1, AskTypes DEF CallsOK, Functions
<1>3. NoncesOK' /\ GapOnlyAfterFailure'
  <2>1. \A d \in Calls : (stage'[d] = "sending" => stage[d] = "sending")
    BY <1>1 DEF TypeOK, Landed, Settle, Goto
  <2>2. \A d \in Calls : stage[d] \in {"sending", "failed", "refused"} => stage'[d] = stage[d]
    BY <1>1 DEF TypeOK, Landed, Settle, Goto
  <2>3. NoncesOK'
    BY <1>1, <2>1 DEF NoncesOK, Pending
  <2>4. GapOnlyAfterFailure'
    BY <1>1, <2>2 DEF GapOnlyAfterFailure, Gap
  <2> QED
    BY <2>3, <2>4
<1>4. PoolOK' /\ LandedOK' /\ ContractOK'
  <2>1. \A d \in Calls : stage[d] # "idle" => stage'[d] # "idle"
    BY <1>1 DEF TypeOK, Landed, Settle, Goto
  <2> QED
    BY <1>1, <2>1 DEF TypeOK, PoolOK, LandedOK, ContractOK
<1>5. CASE fn[c] = "markPaid" /\ cache[i] # None
  <2>1. /\ fn' = [fn EXCEPT ![c] = "onDecrypt"]
        /\ stage' = [stage EXCEPT ![c] = "nonce"]
        /\ UNCHANGED <<queue, cache, blind>>
    BY <1>5 DEF Landed, Goto
  <2>2. QueueOK'
    BY <1>1, <2>1, MoveKeepsQueue DEF QueueOK, Running, Goto, Active
  <2>3. TypeOK'
    BY <1>1, <2>1 DEF TypeOK, Store!TypeOK, Stages, Functions
  <2>4. CallsOK'
    BY <1>1, <1>2, <1>5, <2>1 DEF TypeOK, CallsOK
  <2>5. CacheOK'
    BY <1>1, <1>5, <2>1 DEF TypeOK, CacheOK, LandedOK, Active
  <2>6. RevealConfirmed' /\ PlaintextKept'
    BY <1>1, <2>1 DEF TypeOK, RevealConfirmed, PlaintextKept
  <2> QED
    BY <1>3, <1>4, <2>2, <2>3, <2>4, <2>5, <2>6
<1>6. CASE ~(fn[c] = "markPaid" /\ cache[i] # None)
  <2>1. /\ stage' = [stage EXCEPT ![c] = "ok"] /\ queue' = Tail(queue)
        /\ cache' = IF fn[c] = "onDecrypt" THEN [cache EXCEPT ![i] = None] ELSE cache
        /\ blind' = IF fn[c] = "markPaid" THEN blind \cup {c} ELSE blind
        /\ UNCHANGED fn
    BY <1>6 DEF Landed, Settle, Goto
  <2>2. QueueOK' /\ queue' \in Seq(Calls)
    BY <1>1, <2>1, SettleKeepsQueue DEF Settle, Goto, Ended, Active
  <2>3. TypeOK'
    BY <1>1, <1>2, <2>1, <2>2 DEF TypeOK, Store!TypeOK, Stages, Ended
  <2>4. CallsOK'
    BY <1>1, <2>1 DEF TypeOK, CallsOK
  <2>5. CacheOK'
    <3>1. \A d \in Calls : stage'[d] \notin Active
      BY <1>1, <2>1, OneActive DEF TypeOK, Active
    <3>2. \A j \in Intents : cache'[j] # None => cache'[j] = cache[j]
      BY <2>1 DEF TypeOK
    <3> QED
      BY <3>1, <3>2 DEF CacheOK
  <2>6. fn[c] = "onDecrypt" => shown[i] # None /\ i \in paid
    BY <1>1, <1>2 DEF LandedOK, ContractOK
  <2>7. fn[c] = "markPaid" => i \in paid
    BY <1>1 DEF LandedOK
  <2>8. RevealConfirmed'
    <3> SUFFICES ASSUME ask[c].fn = "markPaid"
                 PROVE  i \in paid /\ (shown[i] # None \/ c \in blind')
      BY <1>1, <2>1 DEF TypeOK, RevealConfirmed
    <3>1. fn[c] \in {"markPaid", "onDecrypt"}
      BY <1>1 DEF CallsOK
    <3> QED
      BY <2>1, <2>6, <2>7, <3>1
  <2>9. PlaintextKept'
    BY <1>1, <2>1, <2>6 DEF TypeOK, PlaintextKept
  <2> QED
    BY <1>3, <1>4, <2>2, <2>3, <2>4, <2>5, <2>8, <2>9
<1> QED
  BY <1>5, <1>6

----------------------------------------------------------------------------
(* The chain, the protocol and the process.                                *)

ContractTyped ==
    /\ Store!TypeOK
    /\ opener \in [Intents -> {Wallet, Protocol, None} \cup Others]

\* What the contract has granted it does not take back.
Monotone ==
    /\ \A i \in Intents : owner[i] # None => owner'[i] = owner[i]
    /\ paid \subseteq paid'
    /\ \A i \in Intents : shown[i] # None => shown'[i] # None

\* What a transaction does: it is a step of the intent's life or none, and
\* markPaid and onDecrypt do what they are for.
LEMMA ExecuteKeeps ==
    ASSUME BiteInv, NEW t \in pool, Execute(t)
    PROVE  /\ ContractTyped'
           /\ ContractOK'
           /\ Monotone
           /\ t.fn = "markPaid" => /\ ask[t.call].intent \in paid'
                                   /\ owner'[ask[t.call].intent] = Wallet
           /\ t.fn = "onDecrypt" => shown'[ask[t.call].intent] # None
           /\ [Life!Next]_Life!vars
<1> USE DEF BiteInv
<1> DEFINE i == ask[t.call].intent
<1>1. /\ t.fn = "storeIntent" => Asked(i, t.text)
      /\ t.fn = "markPaid" => owner[i] = Wallet
      /\ t.fn = "onDecrypt" => i \in paid /\ owner[i] = Wallet /\ Asked(i, t.text)
  BY DEF PoolOK
<1>2. /\ i \in Intents /\ t.fn \in Functions
      /\ t.fn \in {"storeIntent", "onDecrypt"} => t.text \in Texts /\ t.text # None
  BY <1>1, AskTypes, AskedType DEF TypeOK, PoolOK, CallsOK, Asked
<1>3. Wallet # None /\ Wallet # Protocol
  BY NoneAssumption
<1>4. CASE t.fn = "storeIntent" /\ Store!StoreIntent(Wallet, i, t.text) /\ UNCHANGED opener
  <2>1. /\ owner[i] = None
        /\ owner' = [owner EXCEPT ![i] = Wallet]
        /\ blob' = [blob EXCEPT ![i] = t.text]
        /\ UNCHANGED <<paid, shown, opener>>
    BY <1>4 DEF Store!StoreIntent, Store!MayStore
  <2>2. ContractTyped'
    BY <1>2, <2>1 DEF TypeOK, ContractTyped, Store!TypeOK
  <2>3. Monotone
    BY <1>3, <2>1 DEF TypeOK, ContractTyped, Store!TypeOK, Monotone
  <2>4. ContractOK'
    BY <1>1, <1>2, <1>3, <1>4, <2>1 DEF TypeOK, Store!TypeOK, ContractOK
  <2>5. Life!Seal(i, Wallet, t.text)
    BY <2>1 DEF Life!Seal
  <2> QED
    BY <1>2, <1>4, <2>2, <2>3, <2>4, <2>5 DEF Life!Next
<1>5. CASE t.fn = "markPaid" /\ Store!MarkPaid(Wallet, i) /\ UNCHANGED opener
  <2>1. /\ owner[i] = Wallet /\ i \notin paid
        /\ paid' = paid \cup {i}
        /\ UNCHANGED <<owner, blob, shown, opener>>
    BY <1>5 DEF Store!MarkPaid, Store!MayPay
  <2>2. ContractTyped' /\ Monotone
    BY <1>2, <2>1 DEF TypeOK, ContractTyped, Store!TypeOK, Monotone
  <2>3. ContractOK'
    BY <1>3, <2>1 DEF ContractOK
  <2>4. Life!Pay(i)
    BY <1>3, <2>1 DEF Life!Pay
  <2> QED
    BY <1>2, <1>5, <2>1, <2>2, <2>3, <2>4 DEF Life!Next
<1>6. CASE t.fn = "onDecrypt" /\ Show(Wallet, i, t.text)
  <2>1. /\ i \in paid /\ shown[i] = None /\ owner[i] # None
        /\ shown' = [shown EXCEPT ![i] = t.text]
        /\ opener' = [opener EXCEPT ![i] = Wallet]
        /\ UNCHANGED <<owner, blob, paid>>
    BY <1>6 DEF Show, Store!OnDecrypt, Store!MayDecrypt
  <2>2. ContractTyped' /\ Monotone
    BY <1>2, <2>1 DEF TypeOK, ContractTyped, Store!TypeOK, Monotone
  <2>3. ContractOK'
    BY <2>1 DEF TypeOK, Store!TypeOK, ContractOK
  <2>4. shown'[i] = t.text
    BY <1>2, <2>1 DEF TypeOK, Store!TypeOK
  <2>5. blob[i] = t.text
    BY <1>1, <1>2, <1>6, <2>1, AskedOnce DEF ContractOK
  <2>6. Life!Open(i, Wallet, t.text)
    BY <1>1, <1>6, <2>1, <2>5 DEF Life!Open
  <2> QED
    BY <1>2, <1>6, <2>2, <2>3, <2>4, <2>6 DEF Life!Next
<1>7. CASE /\ CASE t.fn = "storeIntent" -> ~Store!MayStore(i)
                [] t.fn = "markPaid"    -> ~Store!MayPay(Wallet, i)
                [] t.fn = "onDecrypt"   -> ~Store!MayDecrypt(i)
           /\ UNCHANGED contract
  <2>1. UNCHANGED <<owner, blob, paid, shown, opener>>
    BY <1>7 DEF contract
  <2>2. t.fn = "markPaid" => i \in paid /\ owner[i] = Wallet
    BY <1>1, <1>7 DEF Store!MayPay
  <2>3. t.fn = "onDecrypt" => shown[i] # None
    BY <1>1, <1>3, <1>7 DEF Store!MayDecrypt, ContractOK
  <2>4. ContractTyped' /\ Monotone /\ ContractOK'
    BY <2>1 DEF TypeOK, ContractTyped, Store!TypeOK, Monotone, ContractOK
  <2>5. UNCHANGED Life!vars
    BY <2>1 DEF Life!vars
  <2> QED
    BY <2>1, <2>2, <2>3, <2>4, <2>5
<1> QED
  BY <1>4, <1>5, <1>6, <1>7 DEF Execute

LEMMA CallbackKeepsContract ==
    ASSUME BiteInv, NEW i \in Intents, Callback(i)
    PROVE  ContractTyped' /\ ContractOK' /\ Monotone /\ Life!Next
<1> USE DEF BiteInv
<1>1. /\ blob[i] # None
      /\ i \in paid /\ shown[i] = None
      /\ shown' = [shown EXCEPT ![i] = blob[i]]
      /\ opener' = [opener EXCEPT ![i] = Protocol]
      /\ UNCHANGED <<owner, blob, paid>>
  BY DEF Callback, Show, Store!OnDecrypt, Store!MayDecrypt
<1>2. ContractTyped' /\ Monotone
  BY <1>1 DEF TypeOK, ContractTyped, Store!TypeOK, Monotone
<1>3. ContractOK'
  BY <1>1 DEF TypeOK, Store!TypeOK, ContractOK
<1>4. Life!Open(i, Protocol, blob[i]) /\ blob[i] \in Texts
  BY <1>1, NoneAssumption DEF Life!Open, TypeOK, Store!TypeOK
<1> QED
  BY <1>2, <1>3, <1>4 DEF Life!Next

\* Another account changes what is not held yet, pays for what it holds, and
\* opens what is paid for.
LEMMA OtherKeepsContract ==
    ASSUME BiteInv, NEW a \in Others, NEW i \in Intents, OtherAccount(a, i)
    PROVE  ContractTyped' /\ ContractOK' /\ Monotone /\ Life!Next
<1> USE DEF BiteInv
<1>1. a # Wallet /\ a # Protocol /\ a # None /\ None \notin Texts
  BY NoneAssumption
<1>2. ASSUME NEW text \in Texts, Store!StoreIntent(a, i, text), UNCHANGED opener
      PROVE  ContractTyped' /\ ContractOK' /\ Monotone /\ Life!Next
  <2>1. /\ owner[i] = None
        /\ owner' = [owner EXCEPT ![i] = a]
        /\ blob' = [blob EXCEPT ![i] = text]
        /\ UNCHANGED <<paid, shown, opener>>
    BY <1>2 DEF Store!StoreIntent, Store!MayStore
  <2>2. ContractTyped' /\ Monotone
    BY <2>1 DEF TypeOK, ContractTyped, Store!TypeOK, Monotone
  <2>3. ContractOK'
    BY <1>1, <2>1 DEF TypeOK, Store!TypeOK, ContractOK
  <2>4. Life!Seal(i, a, text)
    BY <2>1 DEF Life!Seal
  <2> QED
    BY <2>2, <2>3, <2>4 DEF Life!Next
<1>3. ASSUME Store!MarkPaid(a, i), UNCHANGED opener
      PROVE  ContractTyped' /\ ContractOK' /\ Monotone /\ Life!Next
  <2>1. /\ owner[i] = a /\ i \notin paid
        /\ paid' = paid \cup {i}
        /\ UNCHANGED <<owner, blob, shown, opener>>
    BY <1>3 DEF Store!MarkPaid, Store!MayPay
  <2>2. ContractTyped' /\ Monotone
    BY <2>1 DEF TypeOK, ContractTyped, Store!TypeOK, Monotone
  <2>3. ContractOK'
    BY <1>1, <2>1 DEF ContractOK
  <2>4. Life!Pay(i)
    BY <1>1, <2>1 DEF Life!Pay
  <2> QED
    BY <2>2, <2>3, <2>4 DEF Life!Next
<1>4. ASSUME NEW text \in Texts, Show(a, i, text)
      PROVE  ContractTyped' /\ ContractOK' /\ Monotone /\ Life!Next
  <2>1. /\ i \in paid /\ shown[i] = None
        /\ shown' = [shown EXCEPT ![i] = text]
        /\ opener' = [opener EXCEPT ![i] = a]
        /\ UNCHANGED <<owner, blob, paid>>
    BY <1>4 DEF Show, Store!OnDecrypt, Store!MayDecrypt
  <2>2. ContractTyped' /\ Monotone
    BY <1>1, <2>1 DEF TypeOK, ContractTyped, Store!TypeOK, Monotone
  <2>3. ContractOK'
    BY <2>1 DEF TypeOK, Store!TypeOK, ContractOK
  <2>4. Life!Open(i, a, text)
    BY <1>1, <2>1 DEF Life!Open
  <2> QED
    BY <2>2, <2>3, <2>4 DEF Life!Next
<1> QED
  BY <1>2, <1>3, <1>4 DEF OtherAccount

LEMMA ChainKeeps ==
    ASSUME BiteInv,
           \/ \E t \in pool : Mine(t)
           \/ \E i \in Intents : Callback(i) \/ \E a \in Others : OtherAccount(a, i)
    PROVE  BiteInv'
<1> USE DEF BiteInv
<1>1. /\ UNCHANGED <<queue, nonce, cache, ask, stage, fn, held, life, begun, blind>>
      /\ ContractTyped' /\ ContractOK' /\ Monotone
      /\ pool' \subseteq pool
  BY ExecuteKeeps, CallbackKeepsContract, OtherKeepsContract DEF Mine, Callback, OtherAccount
<1>2. /\ mined' \in Nat /\ mined' >= mined
      /\ \A t \in pool : t \in pool' \/ t.nonce < mined'
  BY DEF Mine, Callback, OtherAccount, TypeOK
<1>3. landed' \subseteq Calls \X Functions /\ LandedOK'
  <2>1. CASE landed' = landed
    BY <1>1, <2>1, AskTypes, NoneAssumption
       DEF LandedOK, Monotone, TypeOK, CallsOK, Functions
  <2>2. ASSUME NEW t \in pool, Mine(t)
        PROVE  landed' \subseteq Calls \X Functions /\ LandedOK'
    <3>1. landed' = landed \cup {<<t.call, t.fn>>} /\ t.call \in Calls /\ t.fn \in Functions
      BY <2>2 DEF Mine, TypeOK
    <3>2. /\ t.fn = "markPaid" => /\ ask[t.call].intent \in paid'
                                  /\ owner'[ask[t.call].intent] = Wallet
          /\ t.fn = "onDecrypt" => shown'[ask[t.call].intent] # None
          /\ stage[t.call] # "idle"
      BY <2>2, ExecuteKeeps DEF Mine, PoolOK
    <3>3. \A c \in Calls : stage[c] # "idle" => ask[c].intent \in Intents
      BY AskTypes DEF CallsOK
    <3>4. LandedOK'
      BY <1>1, <3>1, <3>2, <3>3, NoneAssumption DEF LandedOK, Monotone, Functions
    <3> QED
      BY <3>1, <3>4 DEF TypeOK
  <2> QED
    BY <2>1, <2>2 DEF Callback, OtherAccount
<1>4. TypeOK'
  BY <1>1, <1>2, <1>3 DEF TypeOK, ContractTyped
<1>5. QueueOK' /\ CallsOK'
  BY <1>1 DEF QueueOK, CallsOK
<1>6. PoolOK'
  <2>1. \A t \in pool : ask[t.call].intent \in Intents
    BY AskTypes DEF CallsOK, PoolOK, TypeOK
  <2> QED
    BY <1>1, <2>1, NoneAssumption DEF PoolOK, Monotone
<1>7. NoncesOK'
  BY <1>1 DEF NoncesOK, Pending
<1>8. GapOnlyAfterFailure'
  BY <1>1, <1>2 DEF GapOnlyAfterFailure, Gap, TypeOK
<1>9. RevealConfirmed'
  <2>1. \A c \in Calls : stage[c] # "idle" => ask[c].intent \in Intents
    BY AskTypes DEF CallsOK
  <2> QED
    BY <1>1, <2>1 DEF RevealConfirmed, Monotone
<1>10. PlaintextKept'
  BY <1>1 DEF PlaintextKept, Monotone, TypeOK
<1>11. CacheOK'
  <2>1. \A c \in Calls : stage[c] # "idle" => ask[c].intent \in Intents
    BY AskTypes DEF CallsOK
  <2> QED
    BY <1>1, <2>1, NoneAssumption DEF CacheOK, Active, Monotone
<1> QED
  BY <1>1, <1>3, <1>4, <1>5, <1>6, <1>7, <1>8, <1>9, <1>10, <1>11

LEMMA RestartKeeps ==
    ASSUME BiteInv, Restart
    PROVE  BiteInv'
<1> USE DEF BiteInv
<1>1. /\ life < MaxRestarts /\ life' = life + 1
      /\ queue' = <<>> /\ nonce' = None
      /\ cache' = [i \in Intents |-> None]
      /\ stage' = [c \in Calls |-> IF stage[c] \in {"idle"} \cup Ended THEN stage[c] ELSE "gone"]
      /\ begun' = {}
      /\ UNCHANGED <<owner, blob, paid, shown, opener, mined, pool, landed, ask, fn, held, blind>>
  BY DEF Restart, chain, contract
<1>2. \A c \in Calls :
        /\ stage'[c] \in {"idle"} \cup Ended
        /\ stage'[c] = "idle" <=> stage[c] = "idle"
        /\ stage'[c] = "ok" => stage[c] = "ok"
  BY <1>1 DEF Ended
<1>3. TypeOK'
  BY <1>1, RestartsAssumption DEF TypeOK, Store!TypeOK, Stages, Ended
<1>4. QueueOK' /\ CallsOK' /\ CacheOK'
  BY <1>1, <1>2 DEF QueueOK, CallsOK, CacheOK, Active, Ended
<1>5. ContractOK' /\ PoolOK' /\ LandedOK'
  BY <1>1, <1>2 DEF ContractOK, PoolOK, LandedOK, TypeOK
<1>6. NoncesOK'
  <2>1. life \in Int /\ \A t \in pool : t.life \in Int /\ t.life <= life
    BY DEF NoncesOK, TypeOK
  <2>2. Pending' = {}
    BY <1>1, <2>1 DEF Pending
  <2> QED
    BY <1>1, <1>2, <2>1, <2>2 DEF NoncesOK, Ended
<1>7. GapOnlyAfterFailure' /\ RevealConfirmed' /\ PlaintextKept'
  BY <1>1, <1>2 DEF GapOnlyAfterFailure, Gap, RevealConfirmed, PlaintextKept
<1> QED
  BY <1>3, <1>4, <1>5, <1>6, <1>7

LEMMA NextKeepsBite ==
    ASSUME BiteInv, [Next]_vars
    PROVE  BiteInv'
<1>1. CASE UNCHANGED vars
  BY <1>1 DEF BiteInv, vars, chain, contract, TypeOK, Store!TypeOK, QueueOK, CallsOK, CacheOK,
              ContractOK, PoolOK, LandedOK, NoncesOK, Pending, GapOnlyAfterFailure, Gap,
              RevealConfirmed, PlaintextKept
<1>2. ASSUME NEW c \in Calls, Step(c)
      PROVE  BiteInv'
  BY <1>2, BeginKeeps, NextNonceKeeps, SendKeeps, FailureKeeps, LandedKeeps DEF Step
<1> QED
  BY <1>1, <1>2, EnqueueKeeps, ChainKeeps, RestartKeeps DEF Next

\* The invariant holds, whatever calls, receipts and restarts come.
THEOREM BiteInvHolds == Spec => []BiteInv
BY InitBite, NextKeepsBite, PTL DEF Spec

\* Nonces of one life do not collide.
THEOREM NoNonceCollisionHolds == Spec => []NoNonceCollision
<1>1. BiteInv => NoNonceCollision
  BY DEF BiteInv, NoncesOK, NoNonceCollision
<1> QED
  BY <1>1, BiteInvHolds, PTL

\* The wallet is stuck behind a gap only after a call was answered with an error.
THEOREM GapOnlyAfterFailureHolds == Spec => []GapOnlyAfterFailure
<1>1. BiteInv => GapOnlyAfterFailure
  BY DEF BiteInv
<1> QED
  BY <1>1, BiteInvHolds, PTL

\* A reveal answered ok is paid, and shown if the plaintext was at hand.
THEOREM RevealConfirmedHolds == Spec => []RevealConfirmed
<1>1. BiteInv => RevealConfirmed
  BY DEF BiteInv
<1> QED
  BY <1>1, BiteInvHolds, PTL

\* The plaintext of an intent not yet shown is kept in the life it came in.
THEOREM PlaintextKeptHolds == Spec => []PlaintextKept
<1>1. BiteInv => PlaintextKept
  BY DEF BiteInv
<1> QED
  BY <1>1, BiteInvHolds, PTL

\* Every variable keeps to its type.
THEOREM BiteTyped == Spec => []TypeOK
<1>1. BiteInv => TypeOK
  BY DEF BiteInv
<1> QED
  BY <1>1, BiteInvHolds, PTL

----------------------------------------------------------------------------
(* Service, chain and contract implement the life of an intent.            *)

LEMMA StepImplementsLife ==
    ASSUME BiteInv, [Next]_vars
    PROVE  [Life!Next]_Life!vars
<1>1. CASE UNCHANGED contract
  BY <1>1 DEF contract, Life!vars
<1>2. ASSUME NEW t \in pool, Mine(t)
      PROVE  [Life!Next]_Life!vars
  BY <1>2, ExecuteKeeps DEF Mine
<1>3. ASSUME NEW i \in Intents, Callback(i) \/ \E a \in Others : OtherAccount(a, i)
      PROVE  [Life!Next]_Life!vars
  BY <1>3, CallbackKeepsContract, OtherKeepsContract
<1> QED
  BY <1>1, <1>2, <1>3
     DEF Next, vars, chain, Enqueue, Step, Begin, NextNonce, Send, SendRefused, Fails, Landed,
         Restart

\* Service, chain and contract implement the life of an intent.
THEOREM ImplementsLifeHolds == Spec => ImplementsLife
<1>1. Init => Life!Init
  BY DEF Init, Store!Init, Life!Init
<1>2. BiteInv /\ [Next]_vars => [Life!Next]_Life!vars
  BY StepImplementsLife
<1> QED
  BY <1>1, <1>2, BiteInvHolds, PTL DEF Spec, ImplementsLife, Life!Spec
=============================================================================
