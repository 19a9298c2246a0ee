--------------------------- MODULE BusinessRules ----------------------------
(***************************************************************************)
(* Business rules: an expression over hosts and services is cut into a     *)
(* tree of nodes (DependencyNodeFactory) whose state follows from the      *)
(* states of the items (DependencyNode). A pattern is a sequence of        *)
(* tokens: a parenthesis, an operator, a negation, the name of an item, a  *)
(* search of items, or the thresholds of an "of:" rule.                    *)
(***************************************************************************)
EXTENDS Integers, Sequences, SequencesExt, FiniteSets, FiniteSetsExt

CONSTANTS
  Items,    \* name -> [type, host, groups, tags, labels], host for the one of a service
  Bound     \* the host of the item that has the rule

Tok(t) == [t |-> t]
Name(i) == [t |-> "name", item |-> i]

\* "of:" thresholds: a number of sons, or a percentage of them
Count(n) == [n |-> n, percent |-> FALSE]
Percent(n) == [n |-> n, percent |-> TRUE]
Of(values) == [t |-> "of", values |-> values]

\* An expression that searches items: flags and an argument for the hosts and, if it is
\* about services, for their descriptions. A regular expression is the names it matches.
Search(hosts, services) == [t |-> "search", hosts |-> hosts, services |-> services]
AnyName == [flag |-> "*", arg |-> {}]

-----------------------------------------------------------------------------
(* Searching items *)

IsHost(i) == Items[i].type = "host"
IsService(i) == Items[i].type = "service"

\* find_object: an empty host name is the host of the item that has the rule.
FindObject(item) ==
  LET named == IF item = "" THEN Bound ELSE item
  IN IF named \in DOMAIN Items THEN {named} ELSE {}

\* The filters of util.py on a host
HostFilter(e, i) ==
  CASE e.flag = "*" -> TRUE
    [] e.flag = "" -> i \in e.arg
    [] e.flag = "g" -> e.arg \cap Items[i].groups # {}
    [] e.flag = "r" -> i \in e.arg
    [] e.flag = "l" -> e.arg \cap Items[i].labels # {}
    [] e.flag = "t" -> e.arg \cap Items[i].tags # {}

\* The filters of util.py on the host of a service
ServiceHostFilter(e, i) ==
  CASE e.flag = "*" -> TRUE
    [] e.flag \in {"", "r"} -> Items[i].host \in e.arg
    [] OTHER -> HostFilter(e, Items[i].host)

\* The filters of util.py on a service
ServiceFilter(e, i) ==
  CASE e.flag = "*" -> TRUE
    [] e.flag \in {"", "r"} -> i \in e.arg
    [] e.flag = "g" -> e.arg \cap Items[i].groups # {}
    [] e.flag = "l" -> e.arg \cap Items[i].labels # {}
    [] OTHER -> FALSE

\* find_by_filter, from the host filters and the service filters of the expression
FindByFilter(tok) ==
  IF tok.services = <<>> THEN {i \in DOMAIN Items : IsHost(i) /\ HostFilter(tok.hosts, i)}
  ELSE {i \in DOMAIN Items : /\ IsService(i)
                             /\ ServiceHostFilter(tok.hosts, i)
                             /\ ServiceFilter(tok.services[1], i)}

-----------------------------------------------------------------------------
(* The tree of a pattern *)

NewNode == [op |-> "none", sons |-> <<>>, not |-> FALSE, mul |-> FALSE, item |-> "",
            of |-> <<Count(0), Count(0), Count(0)>>]

\* eval_complex_cor_pattern returns None for "a & b | c".
NoNode == [NewNode EXCEPT !.op = "absent"]

Leaf(i) == [NewNode EXCEPT !.op = Items[i].type, !.item = i]

\* switch_zeros_of_values: "0" stands for all the sons.
SwitchZeros(node) ==
  [node EXCEPT !.of = [k \in 1..3 |-> IF @[k] = Count(0) THEN Count(Len(node.sons)) ELSE @[k]]]

\* eval_xof_pattern: three thresholds, or one for OK with all the sons for the others
XofNode(toks) ==
  IF toks # <<>> /\ toks[1].t = "of"
  THEN [NewNode EXCEPT !.op = "of:", !.mul = Len(toks[1].values) = 3,
                       !.of = IF Len(toks[1].values) = 3 THEN toks[1].values
                              ELSE <<toks[1].values[1], Count(0), Count(0)>>]
  ELSE NewNode

AfterXof(toks) == IF toks # <<>> /\ toks[1].t = "of" THEN Tail(toks) ELSE toks

\* expand_expression; no item is an error, and a node without a son.
ExpandExpression(tok) ==
  LET found == SetToSeq(FindByFilter(tok))
  IN [k \in DOMAIN found |-> Leaf(found[k])]

\* eval_simple_cor_pattern
EvalSimple(toks) ==
  LET negated == AfterXof(toks) # <<>> /\ AfterXof(toks)[1].t = "!"
      rest == IF negated THEN Tail(AfterXof(toks)) ELSE AfterXof(toks)
      node == [XofNode(toks) EXCEPT !.not = negated]
  IN CASE Len(rest) = 1 /\ rest[1].t = "search" ->
            SwitchZeros([node EXCEPT !.op = IF @ = "of:" THEN @ ELSE "&",
                                     !.sons = ExpandExpression(rest[1])])
       [] Len(rest) = 1 /\ rest[1].t = "name" /\ FindObject(rest[1].item) # {} ->
            LET i == CHOOSE i \in FindObject(rest[1].item) : TRUE
            IN [node EXCEPT !.op = Items[i].type, !.item = i]
       [] OTHER -> [node EXCEPT !.op = "object"]

IsComplex(toks) == \E k \in DOMAIN toks : toks[k].t \in {"(", ")", "&", "|"}

RECURSIVE EvalCorPattern(_)

\* Mutant: the negation is kept for the sons that follow.
AddSon_KeepsNot(st) ==
  LET son == EvalCorPattern(st.tmp)
  IN [st EXCEPT !.tmp = <<>>,
                !.node.sons = Append(@, IF st.negate THEN [son EXCEPT !.not = TRUE] ELSE son)]

\* A son ends: it takes the negation that waits for it.
AddSon(st) ==
  LET son == EvalCorPattern(st.tmp)
  IN [st EXCEPT !.tmp = <<>>, !.negate = FALSE,
                !.node.sons = Append(@, IF st.negate THEN [son EXCEPT !.not = TRUE] ELSE son)]

OpenParenthesis(st, tok) ==
  LET opened == [st EXCEPT !.stack = @ + 1, !.inPar = TRUE]
  IN IF opened.stack > 1 THEN [opened EXCEPT !.tmp = Append(@, tok)] ELSE opened

CloseParenthesis(st, tok) ==
  LET closed == [st EXCEPT !.stack = @ - 1]
  IN CASE closed.stack < 0 -> closed
       [] closed.stack = 0 -> AddSon([closed EXCEPT !.inPar = FALSE])
       [] OTHER -> [closed EXCEPT !.tmp = Append(@, tok)]

\* An operator that is not the one of the node ends the evaluation, without a node.
Operator(st, tok) ==
  IF st.node.op \notin {"none", "of:", tok.t} THEN [st EXCEPT !.mixed = TRUE]
  ELSE LET kept == [st EXCEPT !.node.op = IF @ = "of:" THEN @ ELSE tok.t]
       IN IF st.tmp = <<>> THEN kept ELSE AddSon(kept)

\* One character of the loop of eval_complex_cor_pattern
EvalToken(st, tok) ==
  CASE st.mixed -> st
    [] tok.t = "(" -> OpenParenthesis(st, tok)
    [] tok.t = ")" -> CloseParenthesis(st, tok)
    [] tok.t \notin {"(", ")"} /\ st.inPar -> [st EXCEPT !.tmp = Append(@, tok)]
    [] tok.t = "!" /\ ~st.inPar -> IF st.tmp = <<>> THEN [st EXCEPT !.negate = TRUE] ELSE st
    [] tok.t \in {"&", "|"} /\ ~st.inPar -> Operator(st, tok)
    [] OTHER -> [st EXCEPT !.tmp = Append(@, tok)]

EvalComplex(toks) ==
  LET begun == [node |-> XofNode(toks), tmp |-> <<>>, inPar |-> FALSE, stack |-> 0,
                negate |-> FALSE, mixed |-> FALSE]
      ended == FoldLeft(EvalToken, begun, AfterXof(toks))
      last == IF ended.tmp = <<>> THEN ended ELSE AddSon(ended)
  IN IF ended.mixed THEN NoNode ELSE SwitchZeros(last.node)

EvalCorPattern(toks) == IF IsComplex(toks) THEN EvalComplex(toks) ELSE EvalSimple(toks)

-----------------------------------------------------------------------------
(* The state of a node *)

\* No state: get_state raises for a son that is None.
Raised == -1

GetReverseState(state) == CASE state = 0 -> 2 [] state = 2 -> 0 [] OTHER -> state

\* DOWN counts as critical, an acknowledged problem or a downtime as OK.
GetHostNodeState(node, h) ==
  LET state == IF h.silent THEN 0 ELSE IF h.state = 1 THEN 2 ELSE h.state
  IN IF node.not THEN (IF state = 0 THEN 2 ELSE 0) ELSE state

GetServiceNodeState(node, s) ==
  LET state == IF s.silent THEN 0 ELSE s.state
  IN IF node.not THEN GetReverseState(state) ELSE state

Worst(states) == IF 2 \in states THEN 2 ELSE Max(states)

Reversed(node, state) == IF node.not THEN GetReverseState(state) ELSE state

\* get_state_for: a negative threshold counts from the number of sons, or from 100 %.
GetStateFor(total, real, search) ==
  LET whole == IF search.percent THEN 100 ELSE total
      needed == IF search.n < 0 THEN Max({whole + search.n, 0}) ELSE search.n
  IN IF search.percent THEN real * 100 >= needed * total ELSE real >= needed

GetXofState(node, states) ==
  LET Number(S) == Cardinality({k \in DOMAIN states : states[k] \in S})
      total == Len(states)
  IN CASE GetStateFor(total, Number({2}), node.of[3]) -> 2
       [] ~GetStateFor(total, Number({2}), node.of[3])
          /\ GetStateFor(total, Number({1, 2}), node.of[2]) -> 1
       [] OTHER -> IF GetStateFor(total, Number({0}), node.of[1]) \/ node.mul
                   THEN 0 ELSE Worst(ToSet(states))

RECURSIVE GetState(_, _)

\* get_state, of a node that is_valid accepts; a node without an operator has state 4.
GetState(node, items) ==
  LET states == [k \in DOMAIN node.sons |-> GetState(node.sons[k], items)]
  IN CASE node.op = "absent" \/ Raised \in ToSet(states) -> Raised
       [] node.op = "host" -> GetHostNodeState(node, items[node.item])
       [] node.op = "service" -> GetServiceNodeState(node, items[node.item])
       [] node.op = "|" -> Reversed(node, Min(ToSet(states)))
       [] node.op = "&" -> Reversed(node, Worst(ToSet(states)))
       [] node.op = "of:" -> Reversed(node, GetXofState(node, states))
       [] OTHER -> 4

RECURSIVE IsValid(_)

\* is_valid: no node without a son; a son that is None is not looked at.
IsValid(node) ==
  \/ node.op \in {"host", "service", "absent"}
  \/ node.sons # <<>> /\ \A k \in DOMAIN node.sons : IsValid(node.sons[k])
=============================================================================
