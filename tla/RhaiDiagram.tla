---------------------------- MODULE RhaiDiagram ----------------------------
(***************************************************************************)
(* The diagram DSL of the book's live editor (rhai-live-core.js): what     *)
(* parseRhaiDiagram makes of the lines of a block, and the lines its       *)
(* "model example" adds.                                                   *)
(*                                                                         *)
(* A line is a record; names stand for the text sanitizeId leaves alone    *)
(* and numbers are in hundredths.  A graph is its set of edges: nodes are  *)
(* only ever added with an edge, and labels other than those of edges      *)
(* decide nothing.                                                         *)
(***************************************************************************)
EXTENDS Integers, Sequences, SequencesExt

DslLine(kind, lhs, op, rhs, to) ==
  [kind |-> kind, lhs |-> lhs, op |-> op, rhs |-> rhs, to |-> to]

\* fn name() -> to; if lhs op number -> to; if expression -> to;
\* match expression => arm -> to; and a line that only draws a diagnostic.
FnLine(name, to) == DslLine("fn", name, "", 0, to)
IfLine(lhs, op, rhs, to) == DslLine("if", lhs, op, rhs, to)
BareIfLine(expression, to) == DslLine("bare", expression, "", 0, to)
MatchLine(expression, arm, to) == DslLine("match", expression, arm, 0, to)
IgnoredLine == DslLine("ignored", "", "", 0, "")

LinesOf(text, kind) == SelectSeq(text, LAMBDA l : l.kind = kind)

Edge(from, label, to) == [from |-> from, label |-> label, to |-> to]
Named(name) == <<"name", name>>
DecisionNode(lhs, op, rhs) == <<"threshold", lhs, op, rhs>>

\* sanitizeId turns every character of an operator into one underscore: what
\* is left of it in a node's id is its length.
OpLength(op) == IF op \in {">", "<"} THEN 1 ELSE 2
PlainNode(l) == <<"plain", l.lhs, OpLength(l.op), l.rhs>>

-----------------------------------------------------------------------------
(* Threshold chains: the strict comparisons of one left-hand side.         *)

\* Mutant: both directions are sorted in ascending order.
TighterAscending(op, a, b) == a.rhs < b.rhs

\* The order of a chain: from the greatest threshold for >, from the least
\* for <.
Tighter(op, a, b) == IF op = ">" THEN a.rhs > b.rhs ELSE a.rhs < b.rhs

Thresholds(text, lhs, op) ==
  SelectSeq(text, LAMBDA l : l.kind = "if" /\ l.lhs = lhs /\ l.op = op)

Chain(text, lhs, op) ==
  SortSeq(Thresholds(text, lhs, op), LAMBDA a, b : Tighter(op, a, b))

\* emitThresholdChain: each decision leads to its target when it holds and
\* to the next decision when it does not.
ChainEdges(chain) ==
  LET node(i) == DecisionNode(chain[i].lhs, chain[i].op, chain[i].rhs)
  IN  {Edge(node(i), "true", Named(chain[i].to)) : i \in DOMAIN chain}
        \cup {Edge(node(i), "false", node(i + 1)) : i \in 1 .. Len(chain) - 1}

Subjects(text) == {l.lhs : l \in Range(LinesOf(text, "if"))}

\* parseRhaiDiagram.
Parse(text) ==
  LET fns == Range(LinesOf(text, "fn"))
      plain == {l \in Range(LinesOf(text, "if")) : l.op \notin {">", "<"}}
      bare == Range(LinesOf(text, "bare"))
      arms == Range(LinesOf(text, "match"))
  IN  {Edge(Named(l.lhs), "", Named(l.to)) : l \in fns}
        \cup UNION {ChainEdges(Chain(text, s, op)) : s \in Subjects(text), op \in {">", "<"}}
        \cup {Edge(PlainNode(l), "true", Named(l.to)) : l \in plain}
        \cup {Edge(Named(l.lhs), "", Named(l.to)) : l \in bare}
        \cup {Edge(<<"match", l.lhs>>, l.op, Named(l.to)) : l \in arms}

-----------------------------------------------------------------------------
(* draftRhaiMutationFromChat: the lines an instruction adds.               *)

XeroDraft == <<
  FnLine("reconcile_rows", "xero_match"),
  IfLine("xero_match.confidence", ">", 90, "commit_workbook"),
  IfLine("xero_match.confidence", "<=", 90, "operator_review"),
  FnLine("operator_review", "commit_workbook")>>

DispositionDraft == <<
  FnLine("verify_result", "match_disposition"),
  MatchLine("result.disposition", "Disposition::Unrecoverable", "halt_pipeline"),
  MatchLine("result.disposition", "Disposition::Recoverable", "repair_and_retry"),
  MatchLine("result.disposition", "Disposition::Advisory", "record_note")>>

ReviewDraft == <<
  IfLine("confidence", ">", 85, "commit_workbook"),
  IfLine("confidence", ">", 60, "review_flag"),
  IfLine("confidence", "<=", 60, "escalate_operator"),
  FnLine("review_flag", "commit_workbook")>>

\* The block with the lines of the draft that it does not hold yet.
Drafted(text, draft) ==
  text \o SelectSeq(draft, LAMBDA l : l \notin Range(text))

-----------------------------------------------------------------------------
(* What a block says and what its graph does, for a value of a subject.    *)

Satisfies(value, op, rhs) == IF op = ">" THEN value > rhs ELSE value < rhs

\* The targets of the lines whose threshold is the tightest one that holds.
SaidTargets(text, lhs, op, value) ==
  LET holding == {l \in Range(Thresholds(text, lhs, op)) : Satisfies(value, op, l.rhs)}
      tightest == {l \in holding : \A m \in holding :
                     IF op = ">" THEN l.rhs >= m.rhs ELSE l.rhs <= m.rhs}
  IN  {Named(l.to) : l \in tightest}

\* The targets reached from the head of the chain in the graph.
ReachedTargets(edges, lhs, op, value) ==
  LET inChain == {e \in edges : e.from[1] = "threshold" /\ e.from[2] = lhs /\ e.from[3] = op}
      nodes == {e.from : e \in inChain}
      falseEdges == {e \in inChain : e.label = "false"}
      heads == {n \in nodes : \A e \in falseEdges : e.to # n}
      visited[k \in 0 .. Cardinality(nodes)] ==
        IF k = 0 THEN heads
        ELSE visited[k - 1] \cup
               {e.to : e \in {f \in falseEdges : /\ f.from \in visited[k - 1]
                                                 /\ ~Satisfies(value, op, f.from[4])}}
  IN  {e.to : e \in {f \in inChain : /\ f.label = "true"
                                     /\ f.from \in visited[Cardinality(nodes)]
                                     /\ Satisfies(value, op, f.from[4])}}

\* No two lines of the block share a threshold with different targets, or at
\* all: the graph then has one decision for each.
DistinctThresholds(text, lhs, op) ==
  \A i, j \in DOMAIN text :
    (/\ text[i].kind = "if" /\ text[j].kind = "if"
     /\ text[i].lhs = lhs /\ text[j].lhs = lhs
     /\ text[i].op = op /\ text[j].op = op
     /\ text[i].rhs = text[j].rhs) => i = j

\* The graph decides every value near a threshold the way the block says.
DecidesAs(edges, text) ==
  \A lhs \in Subjects(text), op \in {">", "<"} :
    DistinctThresholds(text, lhs, op) =>
      \A l \in Range(Thresholds(text, lhs, op)), d \in -1 .. 1 :
        ReachedTargets(edges, lhs, op, l.rhs + d) = SaidTargets(text, lhs, op, l.rhs + d)
=============================================================================
