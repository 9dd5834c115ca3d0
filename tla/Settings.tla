------------------------------ MODULE Settings ------------------------------
(***************************************************************************)
(* The dashboard configuration: the store (services/config-store.ts), its  *)
(* application at start-up (createApp in server.ts) and the admin handlers *)
(* that edit it (admin-routes.ts).                                         *)
(*                                                                         *)
(* Every use reads the file anew, and every edit reads it, changes it and  *)
(* writes it back in one turn; the file is replaced by rename, so a write  *)
(* works or leaves it as it was.  A read that fails, for whatever reason,  *)
(* is answered with a shallow copy of the defaults: its blacklist is the   *)
(* array of the defaults itself, and what is pushed to it stays there.     *)
(***************************************************************************)
CONSTANTS Wallets, Networks, ApiKeys, Addresses,
          Env,             \* RT_PAY_TO_ADDRESS and RT_BASE_NETWORK
          DefaultNetwork,  \* the network of DEFAULT_CONFIG
          Unset            \* an empty field, or no file

ConfigType == [payTo : Wallets \cup {Unset}, network : Networks \cup {Unset},
               apiKey : ApiKeys \cup {Unset}, blacklist : SUBSET Addresses]

\* What the payment side of the gateway is told.
PayeeType == [payTo : Wallets, network : Networks]

\* What holds of the constants; the module that uses this one assumes it.
SettingsParameters ==
    /\ Env \in PayeeType /\ DefaultNetwork \in Networks
    /\ Unset \notin Wallets \cup Networks \cup ApiKeys \cup ConfigType

VARIABLES up,        \* the gateway is running
          disk,      \* the configuration file
          live,      \* config.payToAddress and config.baseNetwork
          x402,      \* what the payment system was built with
          defaults,  \* DEFAULT_CONFIG.blacklist
          promise,   \* API key and blacklist as last acknowledged (history)
          troubled,  \* a read or write has failed since the start (history)
          wiped      \* the defaults of a failed read were written (history)

vars == <<up, disk, live, x402, defaults, promise, troubled, wiped>>

Default == [payTo |-> Unset, network |-> DefaultNetwork, apiKey |-> Unset,
            blacklist |-> defaults]

\* Mutant: the first value, empty or not.
OrEmpty(a, b) == a

\* a || b
Or(a, b) == IF a # Unset THEN a ELSE b

\* load(), when the read works or fails.
Loaded(reads) == IF reads /\ disk # Unset THEN disk ELSE Default

\* save(config), when the write works or fails.
Save(c, reads, writes) ==
    /\ disk' = IF writes THEN c ELSE disk
    /\ wiped' = (wiped \/ (writes /\ ~reads /\ disk # Unset))

Init ==
    /\ up = FALSE
    /\ disk = Unset
    /\ live = Env /\ x402 = Env
    /\ defaults = {}
    /\ promise = [apiKey |-> Unset, blacklist |-> {}]
    /\ troubled = FALSE /\ wiped = FALSE

----------------------------------------------------------------------------
\* createApp: the payment system is built from the environment, then the file
\* is applied to the configuration, then its empty fields are seeded; a write
\* that fails is ignored.
Start(reads, writes) ==
    LET c == Loaded(reads)
        applied == [payTo |-> Or(c.payTo, Env.payTo), network |-> Or(c.network, Env.network)]
        seeded == [c EXCEPT !.payTo = applied.payTo, !.network = applied.network]
    IN  /\ ~up /\ up' = TRUE
        /\ x402' = Env
        /\ live' = applied
        /\ IF seeded = c THEN UNCHANGED <<disk, wiped>> ELSE Save(seeded, reads, writes)
        /\ troubled' = (~reads \/ (seeded # c /\ ~writes))
        /\ UNCHANGED <<defaults, promise>>

\* The process ends; its next life has the defaults as they are written.
End ==
    /\ up /\ up' = FALSE
    /\ defaults' = {}
    /\ UNCHANGED <<disk, live, x402, promise, troubled, wiped>>

\* An edit of the file that acknowledges "kept" if it is written.
Edit(c, kept, reads, writes) ==
    /\ up
    /\ Save(c, reads, writes)
    /\ promise' = IF writes THEN kept ELSE promise
    /\ troubled' = (troubled \/ ~reads \/ ~writes)
    /\ UNCHANGED <<up, x402>>

\* PUT /admin/dashboard-config with the fields the dashboard sends.  What is
\* not empty goes to the running configuration, before the file is written.
PutConfig(payTo, network, apiKey, reads, writes) ==
    /\ Edit([Loaded(reads) EXCEPT !.payTo = payTo, !.network = network, !.apiKey = apiKey],
            [promise EXCEPT !.apiKey = apiKey], reads, writes)
    /\ live' = [payTo |-> Or(payTo, live.payTo), network |-> Or(network, live.network)]
    /\ UNCHANGED defaults

\* The array of a failed read is the one of the defaults.
PushTo(a, reads) ==
    defaults' = IF reads /\ disk # Unset THEN defaults ELSE defaults \cup {a}

\* Mutant: a failed write is acknowledged.
BlockUnsaved(a, reads, writes) ==
    /\ up
    /\ Save([Loaded(reads) EXCEPT !.blacklist = @ \cup {a}], reads, writes)
    /\ promise' = [promise EXCEPT !.blacklist = @ \cup {a}]
    /\ troubled' = (troubled \/ ~reads \/ ~writes)
    /\ PushTo(a, reads)
    /\ UNCHANGED <<up, x402, live>>

\* POST /admin/blacklist pushes to the array it was given; DELETE filters it
\* into a new one.
Block(a, reads, writes) ==
    /\ Edit([Loaded(reads) EXCEPT !.blacklist = @ \cup {a}],
            [promise EXCEPT !.blacklist = @ \cup {a}], reads, writes)
    /\ PushTo(a, reads)
    /\ UNCHANGED live

Unblock(a, reads, writes) ==
    /\ Edit([Loaded(reads) EXCEPT !.blacklist = @ \ {a}],
            [promise EXCEPT !.blacklist = @ \ {a}], reads, writes)
    /\ UNCHANGED <<live, defaults>>

Next ==
    \/ \E reads, writes \in BOOLEAN :
          \/ Start(reads, writes)
          \/ \E payTo \in Wallets \cup {Unset}, network \in Networks \cup {Unset},
                apiKey \in ApiKeys \cup {Unset} :
                PutConfig(payTo, network, apiKey, reads, writes)
          \/ \E a \in Addresses : Block(a, reads, writes) \/ Unblock(a, reads, writes)
    \/ End

Spec == Init /\ [][Next]_vars

----------------------------------------------------------------------------
TypeOK ==
    /\ up \in BOOLEAN /\ troubled \in BOOLEAN /\ wiped \in BOOLEAN
    /\ disk \in ConfigType \cup {Unset}
    /\ live \in PayeeType /\ x402 \in PayeeType
    /\ defaults \in SUBSET Addresses
    /\ promise \in [apiKey : ApiKeys \cup {Unset}, blacklist : SUBSET Addresses]

\* What the running gateway calls its wallet and network (in receipts, in the
\* registry reads, in the API description) is what the file says, unless a
\* read or a write has failed since it started.
LiveIsFiled ==
    up /\ ~troubled =>
        /\ disk.payTo \in {Unset, live.payTo}
        /\ disk.network \in {Unset, live.network}

\* An acknowledged API key and block are in what the next request reads,
\* through restarts and failed writes, unless an edit wrote the defaults of a
\* failed read over the file.  (More may be blocked than was acknowledged: a
\* block whose write failed is in the defaults.)
PromiseFiled ==
    wiped \/ LET c == Loaded(TRUE) IN
             promise.apiKey = c.apiKey /\ promise.blacklist \subseteq c.blacklist

\* "Configure the Base L2 wallet that receives x402 payments": the gateway
\* starts with the configured wallet as the payee of its routes.
ConfiguredWalletReceives == [][~up /\ up' => x402'.payTo = live'.payTo]_vars
=============================================================================
