------------------------- MODULE ComplexExpressions -------------------------
(***************************************************************************)
(* The expressions of hostgroup_name and of template lists ("a & (b | c),  *)
(* !d"): a tree (ComplexExpressionFactory) and the elements it stands for  *)
(* (ComplexExpressionNode). A pattern is a sequence of tokens: an operator *)
(* ("," and "|" are the same one, "+" and "&" too), a parenthesis, a       *)
(* negation or a name.                                                     *)
(***************************************************************************)
EXTENDS Integers, Sequences, SequencesExt

CONSTANTS
  Members,    \* name of a group -> its members, "*" for every host
  Elements    \* the hosts that are not templates

\* find_object
FindObject(name) ==
  CASE name = "*" -> Elements
    [] name # "*" /\ name \in DOMAIN Members ->
         IF "*" \in Members[name] THEN Elements \cup (Members[name] \ {"*"}) ELSE Members[name]
    [] OTHER -> {}

NewNode == [op |-> "none", sons |-> <<>>, not |-> FALSE, leaf |-> FALSE, content |-> {}]

IsComplex(toks) == \E k \in DOMAIN toks : toks[k] \in {"(", ")", "+", "&", "|", ","}

\* A pattern without an operator; "! name" as a whole is the name with a negation.
EvalLeaf(toks) ==
  LET negated == toks # <<>> /\ toks[1] = "!"
      rest == IF negated THEN Tail(toks) ELSE toks
  IN [NewNode EXCEPT !.leaf = TRUE, !.not = negated,
                     !.content = IF Len(rest) = 1 THEN FindObject(rest[1]) ELSE {}]

RECURSIVE EvalCorPattern(_)

AddSon(st) == [st EXCEPT !.node.sons = Append(@, EvalCorPattern(st.tmp)), !.tmp = <<>>]

\* An operator outside of parentheses; the last one of a level counts for all of it.
Operator(st, op) ==
  LET kept == [st EXCEPT !.node.op = op]
  IN IF st.tmp = <<>> THEN kept ELSE AddSon(kept)

\* What is before an opening parenthesis is kept: "!(a | b)" becomes "!a | b".
OpenParenthesis(st) ==
  LET opened == [st EXCEPT !.stack = @ + 1, !.inPar = TRUE]
  IN IF opened.stack > 1 THEN [opened EXCEPT !.tmp = Append(@, "(")] ELSE opened

CloseParenthesis(st) ==
  LET closed == [st EXCEPT !.stack = @ - 1]
  IN CASE closed.stack < 0 -> closed
       [] closed.stack = 0 -> AddSon([closed EXCEPT !.inPar = FALSE])
       [] OTHER -> [closed EXCEPT !.tmp = Append(@, ")")]

\* One character of the loop of eval_cor_pattern
EvalToken(st, tok) ==
  CASE tok \in {",", "|"} /\ ~st.inPar -> Operator(st, "|")
    [] tok \in {"&", "+"} /\ ~st.inPar -> Operator(st, "&")
    [] tok = "(" -> OpenParenthesis(st)
    [] tok = ")" -> CloseParenthesis(st)
    [] OTHER -> [st EXCEPT !.tmp = Append(@, tok)]

EvalCorPattern(toks) ==
  IF ~IsComplex(toks) THEN EvalLeaf(toks)
  ELSE LET ended == FoldLeft(EvalToken,
                      [node |-> NewNode, tmp |-> <<>>, inPar |-> FALSE, stack |-> 0], toks)
       IN (IF ended.tmp = <<>> THEN ended ELSE AddSon(ended)).node

RECURSIVE ResolveElements(_)

\* resolve_elements: the sons without a negation are joined, the others are removed.
ResolveElements(node) ==
  LET positive == SelectSeq(node.sons, LAMBDA s : ~s.not)
      found == [k \in DOMAIN positive |-> ResolveElements(positive[k])]
      joined == CASE found = <<>> -> {}
                  [] found # <<>> /\ node.op = "&" ->
                       {e \in found[1] : \A k \in DOMAIN found : e \in found[k]}
                  [] OTHER -> UNION ToSet(found)
      removed == UNION {ResolveElements(s) : s \in {s \in ToSet(node.sons) : s.not}}
  IN IF node.leaf THEN node.content ELSE joined \ removed
=============================================================================
