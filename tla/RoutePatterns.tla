--------------------------- MODULE RoutePatterns ---------------------------
(***************************************************************************)
(* The two readings of a rule's "METHOD /path" in the gateway.             *)
(*                                                                         *)
(* The route match (packages/gateway/src/routing.ts) reads a segment that  *)
(* starts with a colon as a parameter, one segment of the request.  The    *)
(* payment middleware (middleware/payment.ts) turns a colon and the word   *)
(* after it into "*", leaves the rest of the segment as it is, and hands   *)
(* the key to the x402 server, where "*" stands for any text, slashes      *)
(* included.                                                               *)
(*                                                                         *)
(* A pattern is a sequence of segments, a request line a sequence of       *)
(* texts; both have the method first.  ":user-id" is the parameter with    *)
(* word TRUE and text "-id": what the word does not take.                  *)
(***************************************************************************)
EXTENDS Naturals, Sequences, FiniteSets

CONSTANTS Tools,
          Lines,       \* request lines
          Pattern,     \* the pattern of the rule of each tool
          Endings      \* the pairs <<s, e>> where text s ends with text e

ASSUME PatternAssumption ==
    \A t \in Tools : Pattern[t] \in Seq([param : BOOLEAN, word : BOOLEAN, text : STRING])

Literal(s) == [param |-> FALSE, word |-> FALSE, text |-> s]

\* The rule of t serves the line: segment by segment, a parameter takes any.
Serves(t, line) ==
    /\ Len(Pattern[t]) = Len(line)
    /\ \A i \in 1..Len(line) : Pattern[t][i].param \/ Pattern[t][i].text = line[i]

Literals(t) == Cardinality({i \in 1..Len(Pattern[t]) : ~Pattern[t][i].param})

\* The key of the rule of t in the x402 server.  A colon without a word after
\* it stays, as a text that no request line has.
Key(t) ==
    [i \in 1..Len(Pattern[t]) |->
        LET s == Pattern[t][i]
        IN  IF s.param /\ s.word THEN [wild |-> TRUE, text |-> s.text]
                                 ELSE [wild |-> FALSE, text |-> s.text]]

\* The key segment k covers the stretch first..last of the line.
CoversStretch(k, line, first, last) ==
    IF k.wild THEN <<line[last], k.text>> \in Endings
              ELSE first = last /\ line[first] = k.text

\* The x402 server finds the line under the key: the line is cut into one
\* stretch for every segment of the key.
Covers(key, line) ==
    \E cut \in [0..Len(key) -> 0..Len(line)] :
        /\ cut[0] = 0 /\ cut[Len(key)] = Len(line)
        /\ \A i \in 1..Len(key) :
              /\ cut[i - 1] < cut[i]
              /\ CoversStretch(key[i], line, cut[i - 1] + 1, cut[i])

\* The lines the x402 server finds under the key of the rule of each tool.
Covered == [t \in Tools |-> {line \in Lines : Covers(Key(t), line)}]

\* The lines on which both readings agree: a line is looked up under the rule
\* that serves it, and no second rule serves it.
ClearLines ==
    {line \in Lines :
        /\ \A t \in Tools : Serves(t, line) <=> line \in Covered[t]
        /\ \A t, u \in Tools : Serves(t, line) /\ Serves(u, line) => t = u}
=============================================================================
