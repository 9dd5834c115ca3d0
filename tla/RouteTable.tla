----------------------------- MODULE RouteTable -----------------------------
(***************************************************************************)
(* The route table: the route manager of createApp (server.ts), the admin  *)
(* handlers that edit it (admin-routes.ts), compilation and matching       *)
(* (routing.ts), the routes file and its loader, and the probe of an       *)
(* upstream.                                                               *)
(*                                                                         *)
(* A handler runs to the end unless it awaits: POST, import and the        *)
(* payment self-test (E2E) await a probe or a wallet between reading the   *)
(* request and editing the table, so edits of several calls interleave.    *)
(* DELETE and PUT never await.  The file is rewritten by each handler for  *)
(* itself; a write that fails is swallowed and may leave it cut short.     *)
(***************************************************************************)
EXTENDS Integers, SequencesExt

CONSTANTS Calls,       \* concurrent admin calls that await
          Menu,        \* the rules admins post, import and keep in the file
          TestRule,    \* the rule the payment self-test adds
          Prices,      \* prices a PUT or an import may set
          BadPrice,    \* a price parseFloat reads as NaN
          Backends,    \* upstream origins
          Private,     \* those isPrivateOrReserved rejects
          Paths,       \* request lines looked up: the method, then segments
          Param,       \* a ":name" segment of a pattern
          Torn,        \* a routes file cut short
          Idle,        \* no call
          MaxFile,     \* bound on the rules in the first routes file
          MaxEdits     \* bound on admin calls

\* A pattern starts with the method, compared as a literal is.  "bypass" is
\* the flag _skipSsrf.
RuleType == [tool : STRING, pattern : Seq(STRING \cup {Param}),
             price : Prices, backend : Backends, bypass : BOOLEAN]

ASSUME MenuAssumption ==
    /\ Menu \cup {TestRule} \subseteq RuleType
    /\ \A r \in Menu : ~r.bypass /\ r.price # BadPrice /\ r.tool # TestRule.tool
    /\ TestRule.bypass
ASSUME BackendsAssumption == Private \subseteq Backends
ASSUME BoundsAssumption == MaxFile \in Nat /\ MaxEdits \in Nat

VARIABLES up,        \* the gateway is running
          rules,     \* currentRoutes
          compiled,  \* currentCompiled: the rules in the order they are tried
          file,      \* what the routes file holds
          calls,     \* the admin calls in flight
          edits,     \* admin calls so far (bound)
          refused,   \* calls answered with an error so far (history)
          promised   \* tools a handler said it added, with the file written,
                     \* and nothing took away since (history)

vars == <<up, rules, compiled, file, calls, edits, refused, promised>>

----------------------------------------------------------------------------
(* Compiling and matching.                                                 *)

ToolsOf(table) == {table[i].tool : i \in DOMAIN table}

\* assertNotSSRF of one rule, unless the rule or the call carries the bypass.
Vetted(rule) == rule.bypass \/ rule.backend \notin Private
Compiles(table, skip) == skip \/ \A i \in DOMAIN table : Vetted(table[i])

Literals(rule) == Cardinality({i \in DOMAIN rule.pattern : rule.pattern[i] # Param})

\* Mutant: patterns of as many segments keep their insertion order.
BeforeByLength(table, i, j) ==
    LET a == table[i]  b == table[j] IN
    \/ Len(a.pattern) > Len(b.pattern)
    \/ Len(a.pattern) = Len(b.pattern) /\ i < j

\* The order of compileRoutes on the rules of a table, given by their places:
\* more segments first, then more literals, then insertion.
Before(table, i, j) ==
    LET a == table[i]  b == table[j] IN
    \/ Len(a.pattern) > Len(b.pattern)
    \/ Len(a.pattern) = Len(b.pattern) /\ Literals(a) > Literals(b)
    \/ Len(a.pattern) = Len(b.pattern) /\ Literals(a) = Literals(b) /\ i < j

\* The place the sort gives to the rule at i.
Rank(table, i) == 1 + Cardinality({j \in DOMAIN table : Before(table, j, i)})

\* compileRoutes.
Compiled(table) ==
    [k \in DOMAIN table |-> table[CHOOSE i \in DOMAIN table : Rank(table, i) = k]]

Matches(rule, path) ==
    /\ Len(rule.pattern) = Len(path)
    /\ \A i \in DOMAIN path : rule.pattern[i] \in {Param, path[i]}

\* matchRule: the first compiled rule that matches, or nothing.
MatchRule(path) ==
    LET M == {i \in DOMAIN compiled : Matches(compiled[i], path)}
    IN  {compiled[i] : i \in {j \in M : \A k \in M : j <= k}}

----------------------------------------------------------------------------
(* The route manager.                                                      *)

\* Mutant: the first rule of the table is never found.
CandidateFromSecond(table, rule) ==
    LET same == {i \in DOMAIN table : i > 1 /\ table[i].tool = rule.tool}
    IN  IF same = {} THEN Append(table, rule)
        ELSE [table EXCEPT ![CHOOSE i \in same : \A j \in same : i <= j] = rule]

\* addRoute: the rule takes the place of the first one with its tool id.
Candidate(table, rule) ==
    LET same == {i \in DOMAIN table : table[i].tool = rule.tool}
    IN  IF same = {} THEN Append(table, rule)
        ELSE [table EXCEPT ![CHOOSE i \in same : \A j \in same : i <= j] = rule]

\* Mutant: splice is called without a count and cuts the tail off.
WithoutTail(table, tool) ==
    LET same == {i \in DOMAIN table : table[i].tool = tool}
    IN  IF same = {} THEN table
        ELSE SubSeq(table, 1, (CHOOSE i \in same : \A j \in same : i <= j) - 1)

\* removeRoute: the first rule with the tool id goes.
Without(table, tool) == RemoveFirstMatch(table, LAMBDA r : r.tool = tool)

\* A table that compiles takes the place of the current one.
Install(table) == rules' = table /\ compiled' = Compiled(table)

----------------------------------------------------------------------------
(* The routes file.                                                        *)

\* Mutant: the upstream goes with the flag.
CleanOfBackend(table) ==
    [i \in DOMAIN table |-> [table[i] EXCEPT !.bypass = FALSE, !.backend = Idle]]

\* The loader reads no bypass; persistRoutes writes none.
Clean(table) == [i \in DOMAIN table |-> [table[i] EXCEPT !.bypass = FALSE]]

\* writeFileSync of "content", after which "now" is what was promised.
Write(content, now) ==
    \/ file' = content /\ promised' = now
    \/ file' \in {file, Torn} /\ promised' = promised \cap now

\* loadRoutesFromFile and the compilation of createApp accept the file.
Loads(content) ==
    /\ content # Torn
    /\ \A i \in DOMAIN content : content[i].price # BadPrice
    /\ Compiles(Clean(content), FALSE)

----------------------------------------------------------------------------
(* The process.  The operator starts it on a file of rules of the menu, no *)
(* two for one tool.                                                       *)

Init ==
    /\ up = FALSE
    /\ rules = <<>> /\ compiled = <<>>
    /\ file \in {f \in SeqOf(Menu, MaxFile) :
                   \A i, j \in DOMAIN f : f[i].tool = f[j].tool => i = j}
    /\ calls = [c \in Calls |-> Idle]
    /\ edits = 0 /\ refused = 0
    /\ promised = ToolsOf(file)

\* createGateway and start: load, compile, probe every upstream, drop the
\* routes whose upstream asks for x402 payment itself ("wrapped"), listen.
Boot(wrapped) ==
    /\ ~up /\ Loads(file)
    /\ up' = TRUE
    /\ Install(FoldLeft(Without, Clean(file), SetToSeq(wrapped)))
    /\ promised' = promised \ wrapped
    /\ UNCHANGED <<file, calls, edits, refused>>

\* The process ends; what is in memory is lost, calls in flight with it.
Crash ==
    /\ up /\ up' = FALSE
    /\ rules' = <<>> /\ compiled' = <<>>
    /\ calls' = [c \in Calls |-> Idle]
    /\ UNCHANGED <<file, edits, refused, promised>>

Begin(c, call) ==
    /\ up /\ calls[c] = Idle /\ edits < MaxEdits
    /\ calls' = [calls EXCEPT ![c] = call]
    /\ edits' = edits + 1
    /\ UNCHANGED <<up, rules, compiled, file, refused, promised>>

End(c) == calls' = [calls EXCEPT ![c] = Idle]

Answered(effect) == effect /\ UNCHANGED refused
Refused(effect)  == effect /\ refused' = refused + 1

----------------------------------------------------------------------------
(* POST /admin/routes.                                                     *)

\* The body is checked and the probe of the upstream sent.
Post(c, rule, bypass) ==
    Begin(c, [kind |-> "post", left |-> <<[rule EXCEPT !.bypass = bypass]>>,
              added |-> {}])

\* Mutant: addRoute takes the candidate before it is compiled.
PostZombie(c) ==
    /\ calls[c] # Idle /\ calls[c].kind = "post"
    /\ LET rule  == Head(calls[c].left)
           table == Candidate(rules, rule)
       IN  IF Compiles(table, rule.bypass)
           THEN Answered(Install(table) /\ Write(table, promised \cup {rule.tool}))
           ELSE Refused(rules' = table /\ UNCHANGED <<compiled, file, promised>>)
    /\ End(c) /\ UNCHANGED <<up, edits>>

\* The upstream passed: the rule is added, the file written with the bypass
\* flags in it and 201 returned; 400 when the table would not compile.
PostAdds(c) ==
    /\ calls[c] # Idle /\ calls[c].kind = "post"
    /\ LET rule  == Head(calls[c].left)
           table == Candidate(rules, rule)
       IN  IF Compiles(table, rule.bypass)
           THEN Answered(Install(table) /\ Write(table, promised \cup {rule.tool}))
           ELSE Refused(UNCHANGED <<rules, compiled, file, promised>>)
    /\ End(c) /\ UNCHANGED <<up, edits>>

\* The upstream answered 402 with a payment-required header: 400.
PostWrapped(c) ==
    /\ calls[c] # Idle /\ calls[c].kind = "post"
    /\ Refused(UNCHANGED <<rules, compiled, file, promised>>)
    /\ End(c) /\ UNCHANGED <<up, edits>>

----------------------------------------------------------------------------
(* POST /admin/routes/import: one probe per rule, one write at the end.    *)

\* The rules of an OpenAPI document get one price, which is not looked at.
Import(c, batch, price) ==
    Begin(c, [kind |-> "import",
              left |-> [i \in DOMAIN batch |-> [batch[i] EXCEPT !.price = price]],
              added |-> {}])

\* The next rule's probe is back; it is added unless it is wrapped or the
\* table would not compile.  After the last one the file is written.
ImportNext(c, wrapped) ==
    /\ calls[c] # Idle /\ calls[c].kind = "import"
    /\ LET rule  == Head(calls[c].left)
           rest  == Tail(calls[c].left)
           adds  == ~wrapped /\ Compiles(Candidate(rules, rule), FALSE)
           table == IF adds THEN Candidate(rules, rule) ELSE rules
           added == calls[c].added \cup (IF adds THEN {rule.tool} ELSE {})
       IN  /\ rules' = table
           /\ compiled' = IF adds THEN Compiled(table) ELSE compiled
           /\ IF rest = <<>>
              THEN /\ Write(Clean(table), promised \cup (added \cap ToolsOf(table)))
                   /\ End(c)
              ELSE /\ calls' = [calls EXCEPT ![c].left = rest, ![c].added = added]
                   /\ UNCHANGED <<file, promised>>
    /\ UNCHANGED <<up, edits, refused>>

----------------------------------------------------------------------------
(* POST /admin/e2e/payment: a temporary route to the local dashboard.      *)

SelfTest(c) == Begin(c, [kind |-> "test", left |-> <<TestRule>>, added |-> {}])

\* The wallet has funds: the route goes in, past the SSRF check.
SelfTestAdds(c) ==
    /\ calls[c] # Idle /\ calls[c].kind = "test" /\ calls[c].left # <<>>
    /\ Install(Candidate(rules, TestRule))
    /\ calls' = [calls EXCEPT ![c].left = <<>>]
    /\ UNCHANGED <<up, file, edits, refused, promised>>

\* cleanup, on success and on every failure; the file is not written.
SelfTestEnds(c) ==
    /\ calls[c] # Idle /\ calls[c].kind = "test"
    /\ IF TestRule.tool \in ToolsOf(rules)
       THEN Install(Without(rules, TestRule.tool))
       ELSE UNCHANGED <<rules, compiled>>
    /\ End(c) /\ UNCHANGED <<up, file, edits, refused, promised>>

----------------------------------------------------------------------------
(* DELETE and PUT /admin/routes/:toolId, of a tool the table has.          *)

Edited == up /\ edits < MaxEdits /\ edits' = edits + 1 /\ UNCHANGED <<up, calls>>

Delete(tool) ==
    /\ Edited /\ tool \in ToolsOf(rules)
    /\ LET table == Without(rules, tool)
       IN  Answered(Install(table) /\ Write(table, promised \ {tool}))

\* The rule is edited in place, taken out and added again at the end.  When
\* the table does not compile with it, addRoute throws: the rule stays out
\* and the file as it was.
Put(tool, price, backend) ==
    /\ Edited /\ tool \in ToolsOf(rules)
    /\ LET i     == CHOOSE i \in DOMAIN rules : rules[i].tool = tool
           rest  == Without(rules, tool)
           table == Candidate(rest, [rules[i] EXCEPT !.price = price, !.backend = backend])
       IN  IF Compiles(table, FALSE)
           THEN Answered(Install(table) /\ Write(Clean(table), promised))
           ELSE Refused(/\ Install(rest) /\ promised' = promised \ {tool}
                        /\ UNCHANGED file)

----------------------------------------------------------------------------
Next ==
    \/ \E wrapped \in SUBSET (IF file = Torn THEN {} ELSE ToolsOf(file)) : Boot(wrapped)
    \/ Crash
    \/ \E c \in Calls :
          \/ \E rule \in Menu, bypass \in BOOLEAN : Post(c, rule, bypass)
          \/ PostAdds(c) \/ PostWrapped(c)
          \/ \E r, s \in Menu, price \in Prices : Import(c, <<r, s>>, price)
          \/ \E wrapped \in BOOLEAN : ImportNext(c, wrapped)
          \/ SelfTest(c) \/ SelfTestAdds(c) \/ SelfTestEnds(c)
    \/ \E tool \in ToolsOf(rules) :
          \/ Delete(tool)
          \/ \E price \in Prices, backend \in Backends : Put(tool, price, backend)

Spec == Init /\ [][Next]_vars

----------------------------------------------------------------------------
(* Properties.                                                             *)

CallType == [kind : {"post", "import", "test"}, left : Seq(RuleType), added : SUBSET STRING]

\* Every variable keeps its type; rules in the table and in the file are rules.
TypeOK ==
    /\ up \in BOOLEAN
    /\ \A s \in {rules, compiled} \cup {calls[c].left : c \in {d \in Calls : calls[d] # Idle}}
              \cup ({file} \ {Torn}) :
          \A i \in DOMAIN s : s[i] \in RuleType
    /\ \A c \in Calls : calls[c] = Idle \/ calls[c].kind \in {"post", "import", "test"}
    /\ edits \in 0..MaxEdits /\ refused \in 0..edits
    /\ promised \subseteq {r.tool : r \in Menu \cup {TestRule}}

\* matchRule, on the compiled table, finds for every request line the rule of
\* the current table that fixes most segments, and of several the first one:
\* whatever edits went before, the compiled table is never behind the rules.
RoutedToMostSpecific ==
    \A path \in Paths :
        MatchRule(path) =
            {rules[i] : i \in {j \in DOMAIN rules :
                /\ Matches(rules[j], path)
                /\ \A k \in DOMAIN rules : Matches(rules[k], path) =>
                       \/ Literals(rules[j]) > Literals(rules[k])
                       \/ Literals(rules[j]) = Literals(rules[k]) /\ j <= k}}

\* addRoute replaces by tool id: calls that probe at the same time for the
\* same tool never leave two rules for it.
OneRulePerTool ==
    \A i, j \in DOMAIN rules : rules[i].tool = rules[j].tool => i = j

\* No edit, accepted or refused, leaves a rule with a private backend in the
\* table that no admin let past the SSRF check.
OnlyVettedBackends == \A i \in DOMAIN rules : Vetted(rules[i])

\* A route whose addition was acknowledged and written is in the file that a
\* restart reads, until a DELETE, a refused PUT or a start that finds its
\* upstream wrapped takes it away; other calls' edits and writes never do.
AckedSurvives == file # Torn => promised \subseteq ToolsOf(file)

\* The reason addRoute compiles before it changes anything (server.ts:131):
\* an admin call that is answered with an error leaves the table as it was.
RefusedChangesNothing == [][refused' > refused => rules' = rules]_vars
=============================================================================
