------------------------ MODULE AgentAdmissionProofs ------------------------
(***************************************************************************)
(* Who gets past the first checks, for any requests, agents and settings.  *)
(*                                                                         *)
(* First the two parts for themselves, S (Settings) and R (Reputation),    *)
(* under all that their modules allow.  Then admission, which uses them as *)
(* they are specified, so what is proved of them holds here: the           *)
(* acknowledged settings are in the file, and the standing of an agent is  *)
(* fresh.  The first of these makes the checks at arrival keep out whom    *)
(* the acknowledged settings bar.                                          *)
(***************************************************************************)
EXTENDS AgentAdmission, TLAPS

----------------------------------------------------------------------------
(* The dashboard configuration.  Every edit is made to what a read         *)
(* returned, so it keeps what was acknowledged as long as the read         *)
(* returned the file, and a read that did not cannot do harm before there  *)
(* is a file.  The invariant needs that nothing was acknowledged before    *)
(* there was one, and that there is one while the gateway runs without     *)
(* trouble.                                                                *)

NothingPromised == promise = [apiKey |-> Unset, blacklist |-> {}]

SettingsInv ==
    /\ S!TypeOK
    /\ disk = Unset => NothingPromised
    /\ up /\ ~troubled => disk # Unset
    /\ S!PromiseFiled
    /\ S!LiveIsFiled

----------------------------------------------------------------------------
\* A read returns a configuration, working or not.
LEMMA LoadedType ==
    ASSUME S!SettingsParameters, S!TypeOK, NEW reads \in BOOLEAN
    PROVE  S!Loaded(reads) \in S!ConfigType
BY DEF S!SettingsParameters, S!Loaded, S!Default, S!ConfigType, S!TypeOK

\* a || b is b for an empty field only.
LEMMA OrChooses ==
    ASSUME NEW a, NEW b
    PROVE  S!Or(a, b) = a \/ (a = Unset /\ S!Or(a, b) = b)
BY DEF S!Or

LEMMA InitSettings ==
    ASSUME S!SettingsParameters, S!Init
    PROVE  SettingsInv
<1> USE DEF S!SettingsParameters
<1>1. S!TypeOK
  BY DEF S!Init, S!TypeOK
<1>2. S!PromiseFiled
  BY DEF S!Init, S!PromiseFiled, S!Loaded, S!Default
<1> QED
  BY <1>1, <1>2 DEF S!Init, SettingsInv, NothingPromised, S!LiveIsFiled

\* What an edit of a configuration that was read leaves of the invariant: "c"
\* is the result, "kept" what is acknowledged.
LEMMA EditKeeps ==
    ASSUME S!SettingsParameters, SettingsInv,
           NEW reads \in BOOLEAN, NEW writes \in BOOLEAN,
           NEW c \in S!ConfigType, NEW kept, S!Edit(c, kept, reads, writes),
           kept \in [apiKey : ApiKeys \cup {Unset}, blacklist : SUBSET Addresses],
           promise.apiKey = S!Loaded(reads).apiKey => kept.apiKey = c.apiKey,
           promise.blacklist \subseteq S!Loaded(reads).blacklist
                => kept.blacklist \subseteq c.blacklist,
           live' \in S!PayeeType,
           defaults' \in SUBSET Addresses, defaults \subseteq defaults',
           c.payTo \in {Unset, live'.payTo} \/ (c.payTo = S!Loaded(reads).payTo /\ live' = live),
           c.network \in {Unset, live'.network} \/ (c.network = S!Loaded(reads).network /\ live' = live)
    PROVE  SettingsInv'
<1> USE DEF S!SettingsParameters, SettingsInv, S!Edit, S!Save
<1>1. c # Unset
  OBVIOUS
<1>2. S!TypeOK'
  BY DEF S!TypeOK
<1>3. (disk = Unset => NothingPromised)' /\ (up /\ ~troubled => disk # Unset)'
  BY <1>1 DEF NothingPromised
<1>4. S!PromiseFiled'
  <2> SUFFICES ASSUME ~wiped'
               PROVE  LET d == S!Loaded(TRUE)' IN
                      promise'.apiKey = d.apiKey /\ promise'.blacklist \subseteq d.blacklist
    BY DEF S!PromiseFiled
  <2>1. CASE writes
    <3>1. S!Loaded(reads) = S!Loaded(TRUE)
      BY <2>1 DEF S!Loaded
    <3>2. promise.apiKey = S!Loaded(reads).apiKey /\ promise.blacklist \subseteq S!Loaded(reads).blacklist
      BY <3>1 DEF S!PromiseFiled
    <3>3. S!Loaded(TRUE)' = c
      BY <1>1, <2>1 DEF S!Loaded
    <3> QED
      BY <2>1, <3>2, <3>3
  <2>2. CASE ~writes
    <3>1. promise' = promise /\ disk' = disk /\ ~wiped
      BY <2>2
    <3>2. promise.apiKey = S!Loaded(TRUE).apiKey /\ promise.blacklist \subseteq S!Loaded(TRUE).blacklist
      BY <3>1 DEF S!PromiseFiled
    <3> QED
      BY <3>1, <3>2 DEF S!Loaded, S!Default
  <2> QED
    BY <2>1, <2>2
<1>5. S!LiveIsFiled'
  <2> SUFFICES ASSUME up', ~troubled'
               PROVE  /\ disk'.payTo \in {Unset, live'.payTo}
                      /\ disk'.network \in {Unset, live'.network}
    BY DEF S!LiveIsFiled
  <2>1. up /\ ~troubled /\ reads /\ writes /\ disk' = c
    OBVIOUS
  <2>2. S!Loaded(reads) = disk
    BY <2>1 DEF S!Loaded
  <2> QED
    BY <2>1, <2>2 DEF S!LiveIsFiled
<1> QED
  BY <1>2, <1>3, <1>4, <1>5

LEMMA StartKeeps ==
    ASSUME S!SettingsParameters, SettingsInv,
           NEW reads \in BOOLEAN, NEW writes \in BOOLEAN, S!Start(reads, writes)
    PROVE  SettingsInv'
<1> USE DEF S!SettingsParameters
<1> DEFINE c == S!Loaded(reads)
           applied == [payTo |-> S!Or(c.payTo, Env.payTo), network |-> S!Or(c.network, Env.network)]
           seeded == [c EXCEPT !.payTo = applied.payTo, !.network = applied.network]
<1>1. /\ up' = TRUE /\ x402' = Env /\ live' = applied
      /\ IF seeded = c THEN UNCHANGED <<disk, wiped>> ELSE S!Save(seeded, reads, writes)
      /\ troubled' = (~reads \/ (seeded # c /\ ~writes))
      /\ UNCHANGED <<defaults, promise>>
  BY DEF S!Start
<1>2. c \in S!ConfigType
  BY LoadedType DEF SettingsInv
<1>3. applied \in S!PayeeType
  BY <1>2 DEF S!Or, S!ConfigType, S!PayeeType
<1>4. /\ seeded \in S!ConfigType /\ seeded # Unset
      /\ seeded.apiKey = c.apiKey /\ seeded.blacklist = c.blacklist
      /\ seeded.payTo = applied.payTo /\ seeded.network = applied.network
  BY <1>2, <1>3 DEF S!ConfigType, S!PayeeType
<1>5. disk = Unset => seeded # c
  <2> SUFFICES ASSUME disk = Unset
               PROVE  seeded.payTo # c.payTo
    OBVIOUS
  <2>1. c.payTo = Unset
    BY DEF S!Loaded, S!Default
  <2> QED
    BY <1>3, <1>4, <2>1 DEF S!PayeeType
<1> HIDE DEF c, applied, seeded
<1>6. S!TypeOK'
  BY <1>1, <1>3, <1>4 DEF SettingsInv, S!TypeOK, S!Save
<1>7. \/ disk' = disk
      \/ disk' = seeded
  BY <1>1 DEF S!Save
<1>8. (disk = Unset => NothingPromised)' /\ (up /\ ~troubled => disk # Unset)'
  BY <1>1, <1>4, <1>5, <1>7 DEF SettingsInv, NothingPromised, S!Save
<1>9. S!PromiseFiled'
  <2> SUFFICES ASSUME ~wiped'
               PROVE  LET d == S!Loaded(TRUE)' IN
                      promise'.apiKey = d.apiKey /\ promise'.blacklist \subseteq d.blacklist
    BY DEF S!PromiseFiled
  <2>1. promise.apiKey = S!Loaded(TRUE).apiKey /\ promise.blacklist \subseteq S!Loaded(TRUE).blacklist
    BY <1>1 DEF SettingsInv, S!PromiseFiled, S!Save
  <2>2. CASE disk' = disk
    BY <1>1, <2>1, <2>2 DEF S!Loaded, S!Default
  <2>3. CASE disk' # disk
    <3>1. c = S!Loaded(TRUE)
      BY <1>1, <2>3 DEF c, S!Loaded, S!Save
    <3>2. S!Loaded(TRUE)' = seeded
      BY <1>4, <1>7, <2>3 DEF S!Loaded
    <3> QED
      BY <1>1, <1>4, <2>1, <3>1, <3>2
  <2> QED
    BY <2>2, <2>3
<1>10. S!LiveIsFiled'
  <2> SUFFICES ASSUME ~troubled'
               PROVE  disk'.payTo = live'.payTo /\ disk'.network = live'.network
    BY DEF S!LiveIsFiled
  <2>1. reads /\ (seeded = c \/ disk' = seeded)
    BY <1>1 DEF S!Save
  <2>2. disk' = seeded
    BY <1>1, <1>5, <2>1 DEF c, S!Loaded
  <2> QED
    BY <1>1, <1>4, <2>2
<1> QED
  BY <1>6, <1>8, <1>9, <1>10 DEF SettingsInv

LEMMA NextKeepsSettings ==
    ASSUME S!SettingsParameters, SettingsInv, [S!Next]_S!vars
    PROVE  SettingsInv'
<1> USE DEF SettingsInv
<1>1. ASSUME NEW reads \in BOOLEAN, NEW writes \in BOOLEAN, S!Start(reads, writes)
      PROVE  SettingsInv'
  BY <1>1, StartKeeps
<1>2. ASSUME NEW reads \in BOOLEAN, NEW writes \in BOOLEAN,
             NEW payTo \in Wallets \cup {Unset}, NEW network \in Networks \cup {Unset},
             NEW apiKey \in ApiKeys \cup {Unset},
             S!PutConfig(payTo, network, apiKey, reads, writes)
      PROVE  SettingsInv'
  <2> DEFINE c == [S!Loaded(reads) EXCEPT !.payTo = payTo, !.network = network, !.apiKey = apiKey]
             kept == [promise EXCEPT !.apiKey = apiKey]
  <2>1. S!Loaded(reads) \in S!ConfigType
    BY LoadedType
  <2>2. /\ c \in S!ConfigType
        /\ c.payTo = payTo /\ c.network = network /\ c.apiKey = apiKey
        /\ c.blacklist = S!Loaded(reads).blacklist
    BY <2>1 DEF S!ConfigType
  <2>3. /\ kept \in [apiKey : ApiKeys \cup {Unset}, blacklist : SUBSET Addresses]
        /\ kept.apiKey = apiKey /\ kept.blacklist = promise.blacklist
    BY DEF S!TypeOK
  <2>4. /\ S!Edit(c, kept, reads, writes)
        /\ live' = [payTo |-> S!Or(payTo, live.payTo), network |-> S!Or(network, live.network)]
        /\ UNCHANGED defaults
    BY <1>2 DEF S!PutConfig
  <2>5. /\ live' \in S!PayeeType
        /\ payTo \in {Unset, live'.payTo} /\ network \in {Unset, live'.network}
    BY <2>4 DEF S!Or, S!PayeeType, S!TypeOK
  <2>6. defaults' \in SUBSET Addresses /\ defaults \subseteq defaults'
    BY <2>4 DEF S!TypeOK
  <2> HIDE DEF c, kept
  <2> QED
    BY <2>2, <2>3, <2>4, <2>5, <2>6, EditKeeps
<1>3. ASSUME NEW reads \in BOOLEAN, NEW writes \in BOOLEAN, NEW a \in Addresses,
             S!Block(a, reads, writes) \/ S!Unblock(a, reads, writes)
      PROVE  SettingsInv'
  <2>1. S!Loaded(reads) \in S!ConfigType
    BY LoadedType
  <2>2. ASSUME NEW b \in SUBSET Addresses, NEW q \in SUBSET Addresses,
               S!Edit([S!Loaded(reads) EXCEPT !.blacklist = b], [promise EXCEPT !.blacklist = q],
                    reads, writes),
               promise.blacklist \subseteq S!Loaded(reads).blacklist => q \subseteq b,
               live' = live,
               defaults' \in SUBSET Addresses, defaults \subseteq defaults'
        PROVE  SettingsInv'
    <3> DEFINE c == [S!Loaded(reads) EXCEPT !.blacklist = b]
               kept == [promise EXCEPT !.blacklist = q]
    <3>1. /\ c \in S!ConfigType /\ c.blacklist = b
          /\ c.payTo = S!Loaded(reads).payTo /\ c.network = S!Loaded(reads).network
          /\ c.apiKey = S!Loaded(reads).apiKey
      BY <2>1 DEF S!ConfigType
    <3>2. /\ kept \in [apiKey : ApiKeys \cup {Unset}, blacklist : SUBSET Addresses]
          /\ kept.apiKey = promise.apiKey /\ kept.blacklist = q
      BY DEF S!TypeOK
    <3>3. live' \in S!PayeeType
      BY <2>2 DEF S!TypeOK
    <3>4. S!Edit(c, kept, reads, writes)
      BY <2>2
    <3> HIDE DEF c, kept
    <3> QED
      BY <2>2, <3>1, <3>2, <3>3, <3>4, EditKeeps
  <2>3. CASE S!Block(a, reads, writes)
    <3>1. defaults' \in SUBSET Addresses /\ defaults \subseteq defaults' /\ live' = live
      BY <2>3 DEF S!Block, S!PushTo, S!TypeOK
    <3>2. /\ S!Loaded(reads).blacklist \cup {a} \in SUBSET Addresses
          /\ promise.blacklist \cup {a} \in SUBSET Addresses
      BY <2>1 DEF S!ConfigType, S!TypeOK
    <3>3. S!Edit([S!Loaded(reads) EXCEPT !.blacklist = S!Loaded(reads).blacklist \cup {a}],
               [promise EXCEPT !.blacklist = promise.blacklist \cup {a}], reads, writes)
      BY <2>3 DEF S!Block
    <3> QED
      BY <2>2, <3>1, <3>2, <3>3
  <2>4. CASE S!Unblock(a, reads, writes)
    <3>1. defaults' \in SUBSET Addresses /\ defaults \subseteq defaults' /\ live' = live
      BY <2>4 DEF S!Unblock, S!TypeOK
    <3>2. /\ S!Loaded(reads).blacklist \ {a} \in SUBSET Addresses
          /\ promise.blacklist \ {a} \in SUBSET Addresses
      BY <2>1 DEF S!ConfigType, S!TypeOK
    <3>3. S!Edit([S!Loaded(reads) EXCEPT !.blacklist = S!Loaded(reads).blacklist \ {a}],
               [promise EXCEPT !.blacklist = promise.blacklist \ {a}], reads, writes)
      BY <2>4 DEF S!Unblock
    <3> QED
      BY <2>2, <3>1, <3>2, <3>3
  <2> QED
    BY <1>3, <2>3, <2>4
<1>4. CASE S!End
  <2>1. up' = FALSE /\ defaults' = {} /\ UNCHANGED <<disk, live, x402, promise, troubled, wiped>>
    BY <1>4 DEF S!End
  <2>2. S!TypeOK'
    BY <2>1 DEF S!TypeOK
  <2>3. CASE disk = Unset
    <3>1. S!PromiseFiled'
      BY <2>1, <2>3 DEF NothingPromised, S!PromiseFiled, S!Loaded, S!Default
    <3> QED
      BY <2>1, <2>2, <3>1 DEF NothingPromised, S!LiveIsFiled
  <2>4. CASE disk # Unset
    <3>1. S!PromiseFiled'
      BY <2>1, <2>4 DEF S!PromiseFiled, S!Loaded
    <3> QED
      BY <2>1, <2>2, <2>4, <3>1 DEF NothingPromised, S!LiveIsFiled
  <2> QED
    BY <2>3, <2>4
<1>5. CASE UNCHANGED S!vars
  BY <1>5 DEF S!vars, S!TypeOK, NothingPromised, S!PromiseFiled, S!LiveIsFiled, S!Loaded, S!Default
<1> QED
  BY <1>1, <1>2, <1>3, <1>4, <1>5 DEF S!Next

\* The settings keep their invariant, whatever is edited, fails and restarts.
THEOREM SettingsInvHolds == S!Spec => []SettingsInv
BY PartsAssumption, InitSettings, NextKeepsSettings, PTL DEF S!Spec

\* What was acknowledged is in the file that the next request reads.
THEOREM PromiseAlwaysFiled == S!Spec => []S!PromiseFiled
<1>1. SettingsInv => S!PromiseFiled
  BY DEF SettingsInv
<1> QED
  BY <1>1, SettingsInvHolds, PTL

\* The running gateway and the file agree on wallet and network, unless a read
\* or a write has failed since it started.
THEOREM LiveAlwaysFiled == S!Spec => []S!LiveIsFiled
<1>1. SettingsInv => S!LiveIsFiled
  BY DEF SettingsInv
<1> QED
  BY <1>1, SettingsInvHolds, PTL

----------------------------------------------------------------------------
(* The reputation service.  An answer under way was held by the registry   *)
(* when its check began or later, so the entry it fills expires within TTL *)
(* of a moment at which the registry held it; and a check that uses an     *)
(* entry begins before that.  What came back first or last does not        *)
(* matter.                                                                 *)

\* When the registry held an answer is known up to now, and now it holds the
\* standing.
SeenKept ==
    \A a \in Agents :
        /\ seen[a][standing[a]] = now
        /\ \A b \in BOOLEAN : seen[a][b] <= now

\* No check began later than now, and what the registry answered a check it
\* held when the check began or later.
AnswersSeen ==
    \A r \in Requests :
        /\ at[r] <= now
        /\ \A b \in BOOLEAN :
              phase[r] = "answered" /\ sampled[r] = b => seen[agent[r]][b] >= at[r]

\* An entry expires within TTL of a moment at which the registry held it.
EntriesSeen ==
    \A a \in Agents, b \in BOOLEAN :
        cache[a].expiry > 0 /\ cache[a].allowed = b =>
            seen[a][b] + TTL >= cache[a].expiry

FreshInv ==
    /\ R!TypeOK
    /\ SeenKept
    /\ AnswersSeen
    /\ EntriesSeen
    /\ R!ResultFresh

----------------------------------------------------------------------------
\* A result names the answer it is made of.
LEMMA ResultDecides ==
    ASSUME NEW a \in BOOLEAN, NEW b \in BOOLEAN, R!Result(a) = R!Result(b)
    PROVE  a = b
BY DEF R!Result

\* Time in the registry's history only moves on.
LEMMA SeenGrows ==
    ASSUME R!ReputationParameters, FreshInv, [R!Next]_R!vars
    PROVE  \A a \in Agents, b \in BOOLEAN : seen'[a][b] >= seen[a][b]
<1> USE DEF R!ReputationParameters, FreshInv, R!TypeOK, SeenKept
<1>1. CASE UNCHANGED seen
  BY <1>1
<1>2. ASSUME NEW a \in Agents, R!Feedback(a)
      PROVE  \A c \in Agents, b \in BOOLEAN : seen'[c][b] >= seen[c][b]
  BY <1>2 DEF R!Feedback
<1>3. CASE R!Tick
  BY <1>3 DEF R!Tick
<1> QED
  BY <1>1, <1>2, <1>3 DEF R!Next, R!vars, R!registry, R!Check, R!Sample, R!Fill, R!Fail, R!Restart

LEMMA InitFresh ==
    ASSUME R!ReputationParameters, R!Init
    PROVE  FreshInv
<1> USE DEF R!ReputationParameters
<1>1. R!TypeOK
  BY DEF R!Init, R!TypeOK, R!NoEntry, R!Phases, R!Never
<1>2. SeenKept
  <2> SUFFICES ASSUME NEW a \in Agents
               PROVE  /\ seen[a][standing[a]] = now
                      /\ \A b \in BOOLEAN : seen[a][b] <= now
    BY DEF SeenKept
  <2>1. standing[a] \in BOOLEAN /\ now = 0
    BY DEF R!Init
  <2>2. \A b \in BOOLEAN : seen[a][b] = IF b = standing[a] THEN 0 ELSE R!Never
    BY DEF R!Init
  <2> QED
    BY <2>1, <2>2 DEF R!Never
<1>3. AnswersSeen /\ EntriesSeen /\ R!ResultFresh
  BY DEF R!Init, AnswersSeen, EntriesSeen, R!ResultFresh, R!NoEntry, R!Result
<1> QED
  BY <1>1, <1>2, <1>3 DEF FreshInv

LEMMA NextKeepsReputationTypes ==
    ASSUME R!ReputationParameters, R!TypeOK, [R!Next]_R!vars
    PROVE  R!TypeOK'
<1> USE DEF R!ReputationParameters, R!TypeOK
<1>1. ASSUME NEW r \in Requests, NEW a \in Agents, R!Check(r, a)
      PROVE  R!TypeOK'
  BY <1>1 DEF R!Check, R!registry, R!Phases, R!Result
<1>2. ASSUME NEW r \in Requests, R!Sample(r) \/ R!Fail(r)
      PROVE  R!TypeOK'
  BY <1>2 DEF R!Sample, R!Fail, R!registry, R!Phases
<1>3. ASSUME NEW r \in Requests, R!Fill(r)
      PROVE  R!TypeOK'
  BY <1>3 DEF R!Fill, R!registry, R!Phases, R!Result
<1>4. ASSUME NEW a \in Agents, R!Feedback(a)
      PROVE  R!TypeOK'
  BY <1>4 DEF R!Feedback
<1>5. CASE R!Tick
  BY <1>5 DEF R!Tick
<1>6. CASE R!Restart
  BY <1>6 DEF R!Restart, R!registry, R!NoEntry, R!Phases
<1>7. CASE UNCHANGED R!vars
  BY <1>7 DEF R!vars
<1> QED
  BY <1>1, <1>2, <1>3, <1>4, <1>5, <1>6, <1>7 DEF R!Next

LEMMA NextKeepsFresh ==
    ASSUME R!ReputationParameters, FreshInv, R!TypeOK', [R!Next]_R!vars
    PROVE  FreshInv'
<1> USE DEF R!ReputationParameters, FreshInv
<1>0. \A a \in Agents, b \in BOOLEAN : seen'[a][b] >= seen[a][b]
  BY SeenGrows
<1>1. SeenKept'
  <2>1. CASE UNCHANGED R!registry
    BY <2>1 DEF R!registry, SeenKept
  <2>2. ASSUME NEW a \in Agents, R!Feedback(a)
        PROVE  SeenKept'
    BY <2>2 DEF R!Feedback, SeenKept, R!TypeOK
  <2>3. CASE R!Tick
    BY <2>3 DEF R!Tick, SeenKept, R!TypeOK
  <2> QED
    BY <2>1, <2>2, <2>3 DEF R!Next, R!vars, R!registry, R!Check, R!Sample, R!Fill, R!Fail, R!Restart
<1>2. ASSUME NEW r \in Requests, NEW a \in Agents, R!Check(r, a)
      PROVE  AnswersSeen' /\ EntriesSeen' /\ R!ResultFresh'
  <2> USE <1>2 DEF R!TypeOK
  <2>1. AnswersSeen'
    BY DEF R!Check, R!registry, AnswersSeen, R!Result
  <2>2. EntriesSeen'
    BY DEF R!Check, R!registry, EntriesSeen
  <2>3. ASSUME NEW b \in BOOLEAN, phase'[r] = R!Result(b)
        PROVE  seen[a][b] + TTL > now
    <3>1. cache[a].expiry > now /\ cache[a].allowed = b
      BY <2>3, ResultDecides DEF R!Check, R!Result
    <3>2. cache[a].expiry > 0
      BY <3>1
    <3>3. seen[a][b] + TTL >= cache[a].expiry
      BY <3>1, <3>2, Zenon DEF EntriesSeen
    <3> QED
      BY <3>1, <3>3
  <2>4. R!ResultFresh'
    BY <2>3 DEF R!Check, R!registry, R!ResultFresh
  <2> QED
    BY <2>1, <2>2, <2>4
<1>3. ASSUME NEW r \in Requests, R!Sample(r)
      PROVE  AnswersSeen' /\ EntriesSeen' /\ R!ResultFresh'
  <2> USE <1>3 DEF R!TypeOK, R!Sample, R!registry
  <2>1. AnswersSeen'
    BY DEF AnswersSeen, SeenKept
  <2>2. EntriesSeen'
    BY DEF EntriesSeen
  <2>3. R!ResultFresh'
    BY DEF R!ResultFresh, R!Result
  <2> QED
    BY <2>1, <2>2, <2>3
<1>4. ASSUME NEW r \in Requests, R!Fill(r)
      PROVE  AnswersSeen' /\ EntriesSeen' /\ R!ResultFresh'
  <2> USE <1>4 DEF R!TypeOK, R!Fill, R!registry
  <2> DEFINE a == agent[r]
  <2>1. ASSUME NEW b \in BOOLEAN, sampled[r] = b
        PROVE  seen[a][b] >= at[r]
    BY <2>1 DEF AnswersSeen
  <2>2. AnswersSeen'
    BY DEF AnswersSeen, R!Result
  <2>3. EntriesSeen'
    <3> SUFFICES ASSUME NEW c \in Agents, NEW b \in BOOLEAN,
                        cache'[c].expiry > 0, cache'[c].allowed = b
                 PROVE  seen[c][b] + TTL >= cache'[c].expiry
      BY DEF EntriesSeen
    <3>1. CASE c = a
      BY <2>1, <3>1
    <3>2. CASE c # a
      BY <3>2 DEF EntriesSeen
    <3> QED
      BY <3>1, <3>2
  <2>4. R!ResultFresh'
    <3> SUFFICES ASSUME NEW q \in Requests, NEW b \in BOOLEAN, phase'[q] = R!Result(b)
                 PROVE  seen[agent[q]][b] + TTL > at[q]
      BY DEF R!ResultFresh
    <3>1. CASE q = r
      <4>1. sampled[r] = b
        BY <3>1, ResultDecides
      <4>2. seen[a][b] >= at[r]
        BY <2>1, <4>1
      <4> QED
        BY <3>1, <4>2
    <3>2. CASE q # r
      BY <3>2 DEF R!ResultFresh
    <3> QED
      BY <3>1, <3>2
  <2> QED
    BY <2>2, <2>3, <2>4
<1>5. ASSUME NEW r \in Requests, R!Fail(r)
      PROVE  AnswersSeen' /\ EntriesSeen' /\ R!ResultFresh'
  BY <1>5 DEF R!TypeOK, R!Fail, R!registry, AnswersSeen, EntriesSeen, R!ResultFresh, R!Result
<1>6. CASE (\E a \in Agents : R!Feedback(a)) \/ R!Tick
  <2>1. /\ UNCHANGED <<cache, phase, agent, at, sampled>>
        /\ now' \in Int /\ now <= now'
    BY <1>6 DEF R!Feedback, R!Tick, R!TypeOK
  <2>2. AnswersSeen'
    BY <1>0, <2>1 DEF AnswersSeen, R!TypeOK
  <2>3. EntriesSeen'
    <3> SUFFICES ASSUME NEW a \in Agents, NEW b \in BOOLEAN,
                        cache'[a].expiry > 0, cache'[a].allowed = b
                 PROVE  seen'[a][b] + TTL >= cache'[a].expiry
      BY DEF EntriesSeen
    <3>1. seen[a][b] + TTL >= cache[a].expiry
      BY <2>1, Zenon DEF EntriesSeen
    <3>2. /\ seen'[a][b] \in Int /\ seen[a][b] \in Int /\ seen'[a][b] >= seen[a][b]
          /\ cache[a].expiry \in Int /\ cache'[a] = cache[a]
      BY <1>0, <2>1 DEF R!TypeOK
    <3> QED
      BY <3>1, <3>2
  <2>4. R!ResultFresh'
    BY <1>0, <2>1 DEF R!ResultFresh, R!TypeOK
  <2> QED
    BY <1>1, <2>2, <2>3, <2>4
<1>7. CASE R!Restart
  <2> USE <1>7 DEF R!Restart, R!registry
  <2>1. AnswersSeen'
    BY DEF AnswersSeen, R!TypeOK
  <2>2. EntriesSeen'
    BY DEF EntriesSeen, R!NoEntry
  <2>3. R!ResultFresh'
    BY DEF R!ResultFresh, R!Result, R!TypeOK
  <2> QED
    BY <1>1, <2>1, <2>2, <2>3
<1>8. CASE UNCHANGED R!vars
  BY <1>1, <1>8 DEF R!vars, AnswersSeen, EntriesSeen, R!ResultFresh
<1> QED
  BY <1>1, <1>2, <1>3, <1>4, <1>5, <1>6, <1>7, <1>8 DEF R!Next

\* The service keeps its invariant, however the reads of its checks overlap.
THEOREM FreshInvHolds == R!Spec => []FreshInv
<1>1. R!Init => FreshInv
  BY PartsAssumption, InitFresh
<1>2. FreshInv /\ [R!Next]_R!vars => FreshInv'
  BY PartsAssumption, NextKeepsReputationTypes, NextKeepsFresh DEF FreshInv
<1> QED
  BY <1>1, <1>2, PTL DEF R!Spec

\* A result is no older than the cache allows, however the reads of concurrent
\* checks overlap.
THEOREM ResultAlwaysFresh == R!Spec => []R!ResultFresh
<1>1. FreshInv => R!ResultFresh
  BY DEF FreshInv
<1> QED
  BY <1>1, FreshInvHolds, PTL

----------------------------------------------------------------------------
(* Admission uses them as they are specified.                              *)

LEMMA SettingsStep == [Next]_vars => [S!Next]_S!vars
<1> SUFFICES ASSUME [Next]_vars
             PROVE  [S!Next]_S!vars
  OBVIOUS
<1>1. CASE UNCHANGED settings
  BY <1>1 DEF settings, S!vars
<1>2. CASE Crash
  BY <1>2 DEF Crash, S!Next
<1>3. ASSUME NEW reads \in BOOLEAN, NEW writes \in BOOLEAN, Boot(reads, writes)
      PROVE  S!Next
  BY <1>3 DEF Boot, S!Next
<1>4. ASSUME NEW reads \in BOOLEAN, NEW writes \in BOOLEAN, Administer(reads, writes)
      PROVE  S!Next
  <2>1. Env.payTo \in Wallets \cup {Unset} /\ Env.network \in Networks \cup {Unset}
    BY PartsAssumption DEF S!SettingsParameters, S!PayeeType
  <2> QED
    BY <1>4, <2>1 DEF Administer, S!Next
<1> QED
  BY <1>1, <1>2, <1>3, <1>4 DEF Next, vars, Arrive, LookUp, Continue, World

LEMMA ReputationStep == [Next]_vars => [R!Next]_R!vars
<1> SUFFICES ASSUME [Next]_vars
             PROVE  [R!Next]_R!vars
  OBVIOUS
<1>1. CASE UNCHANGED reputation
  BY <1>1 DEF reputation, R!vars
<1>2. CASE Crash
  BY <1>2 DEF Crash, R!Next
<1>3. ASSUME NEW r \in Requests, NEW i \in Incoming, NEW reads \in BOOLEAN, Arrive(r, i, reads)
      PROVE  [R!Next]_R!vars
  <2>1. i.id \in Agents \cup {Unset}
    BY IncomingAssumption DEF RequestType
  <2>2. CASE R!Check(r, i.id) /\ i.id # Unset
    BY <2>1, <2>2 DEF R!Next
  <2>3. CASE UNCHANGED reputation
    BY <2>3 DEF reputation, R!vars
  <2> QED
    BY <1>3, <2>2, <2>3 DEF Arrive
<1>4. ASSUME NEW r \in Requests, NEW a \in Agents, LookUp(r, a)
      PROVE  R!Next
  BY <1>4 DEF LookUp, R!Next
<1>5. ASSUME NEW r \in Requests, Continue(r)
      PROVE  R!Next
  BY <1>5 DEF Continue, R!Next
<1>6. CASE World
  BY <1>6 DEF World, R!Next
<1> QED
  BY <1>1, <1>2, <1>3, <1>4, <1>5, <1>6 DEF Next, vars, Boot, Administer

\* Every behaviour of admission is one of its settings and one of the service.
THEOREM PartsUsedAsSpecified == Spec => S!Spec /\ R!Spec
<1>1. Init => S!Init /\ R!Init
  BY DEF Init
<1> QED
  BY <1>1, SettingsStep, ReputationStep, PTL DEF Spec, S!Spec, R!Spec

\* What an admin call acknowledged is in the file that the next request reads.
THEOREM AckedSettingsFiledHolds == Spec => []AckedSettingsFiled
<1>1. S!PromiseFiled => AckedSettingsFiled
  BY DEF AckedSettingsFiled
<1> QED
  BY <1>1, PartsUsedAsSpecified, PromiseAlwaysFiled, PTL

\* The standing an admission rests on is fresh.
THEOREM StandingFreshHolds == Spec => []StandingFresh
<1>1. R!ResultFresh => StandingFresh
  BY DEF StandingFresh
<1> QED
  BY <1>1, PartsUsedAsSpecified, ResultAlwaysFresh, PTL

----------------------------------------------------------------------------
(* Whom the acknowledged settings bar is kept out.                         *)

\* A request whose configuration could be read and that was let on was not
\* barred.
PassedUnbarred ==
    /\ gate \in [Requests -> {"new", "lookup", "401", "403", "passed"}]
    /\ barred \in [Requests -> BOOLEAN] /\ trusted \in [Requests -> BOOLEAN]
    /\ \A r \in Requests : gate[r] = "passed" /\ trusted[r] => ~barred[r]

\* The checks refuse whom the acknowledged settings bar.
LEMMA GateBars ==
    ASSUME AckedSettingsFiled, ~wiped, NEW i, Bars(promise, i)
    PROVE  Gate(i, S!Loaded(TRUE)) # "passed"
BY DEF AckedSettingsFiled, S!PromiseFiled, Bars, Gate

LEMMA StepPassedUnbarred ==
    ASSUME AckedSettingsFiled, PassedUnbarred, [Next]_vars
    PROVE  PassedUnbarred'
<1> USE DEF PassedUnbarred
<1>1. ASSUME NEW r \in Requests, NEW i \in Incoming, NEW reads \in BOOLEAN, Arrive(r, i, reads)
      PROVE  PassedUnbarred'
  <2> DEFINE g == Gate(i, S!Loaded(reads))
             b == Bars(promise, i)
             t == reads /\ ~wiped
  <2>1. /\ gate' = [gate EXCEPT ![r] = g]
        /\ barred' = [barred EXCEPT ![r] = b]
        /\ trusted' = [trusted EXCEPT ![r] = t]
    BY <1>1 DEF Arrive
  <2>2. g \in {"401", "403", "passed"} /\ b \in BOOLEAN /\ t \in BOOLEAN
    BY DEF Gate, Bars
  <2>3. t /\ b => g # "passed"
    <3> SUFFICES ASSUME t, b
                 PROVE  g # "passed"
      OBVIOUS
    <3>1. reads = TRUE /\ ~wiped
      OBVIOUS
    <3> QED
      BY <3>1, GateBars
  <2> HIDE DEF g, b, t
  <2> QED
    BY <2>1, <2>2, <2>3
<1>2. ASSUME NEW r \in Requests, NEW a \in Agents, LookUp(r, a)
      PROVE  PassedUnbarred'
  BY <1>2 DEF LookUp
<1>3. CASE UNCHANGED requests
  BY <1>3 DEF requests
<1> QED
  BY <1>1, <1>2, <1>3 DEF Next, vars, Continue, Crash, Boot, Administer, World

THEOREM PassedUnbarredHolds == Spec => []PassedUnbarred
<1>1. Init => PassedUnbarred
  BY DEF Init, PassedUnbarred
<1>2. AckedSettingsFiled /\ PassedUnbarred /\ [Next]_vars => PassedUnbarred'
  BY StepPassedUnbarred
<1> QED
  BY <1>1, <1>2, AckedSettingsFiledHolds, PTL DEF Spec

\* Whom the acknowledged settings bar does not get in, while the configuration
\* can be read.
THEOREM BarredStayOutHolds == Spec => []BarredStayOut
<1>1. PassedUnbarred => BarredStayOut
  BY DEF PassedUnbarred, BarredStayOut, Admitted
<1> QED
  BY <1>1, PassedUnbarredHolds, PTL

\* Admission keeps its types, its settings and its reputation service theirs.
THEOREM TypeCorrect == Spec => []TypeOK
<1>1. SettingsInv /\ FreshInv /\ PassedUnbarred => TypeOK
  BY DEF SettingsInv, FreshInv, PassedUnbarred, TypeOK
<1> QED
  BY <1>1, PartsUsedAsSpecified, SettingsInvHolds, FreshInvHolds, PassedUnbarredHolds, PTL
=============================================================================
