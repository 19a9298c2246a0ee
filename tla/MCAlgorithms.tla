---------------------------- MODULE MCAlgorithms ----------------------------
(***************************************************************************)
(* The algorithms of the configuration and of the commands, each called    *)
(* with many small inputs and compared with a definition of what it should *)
(* compute. A behaviour calls one of them and returns.                     *)
(***************************************************************************)
EXTENDS Integers, Sequences, SequencesExt, FiniteSets, FiniteSetsExt, TLC

VARIABLE call   \* the algorithm that is called and its input

\* Sequences of at most n elements, without a repetition
Lists(S, n) == {s \in UNION {[1..k -> S] : k \in 0..n} : IsInjective(s)}

\* Whom a node reaches in at least one step
Reach(graph, nodes) ==
  LET Sons(S) == UNION {ToSet(graph[n]) : n \in S} \cap nodes
      Further[k \in Nat] == [n \in nodes |-> IF k = 0 THEN Sons({n})
                                             ELSE LET S == Further[k - 1][n] IN S \cup Sons(S)]
  IN Further[Cardinality(nodes) - 1]

-----------------------------------------------------------------------------
(* Business rules: trees over two hosts and two services, rendered as patterns *)

RuleItems ==
  [h1 |-> [type |-> "host", host |-> "h1", groups |-> {"web"}, tags |-> {"linux"}, labels |-> {}],
   h2 |-> [type |-> "host", host |-> "h2", groups |-> {}, tags |-> {"linux"}, labels |-> {"prod"}],
   s1 |-> [type |-> "service", host |-> "h1", groups |-> {}, tags |-> {}, labels |-> {"prod"}],
   s2 |-> [type |-> "service", host |-> "h2", groups |-> {"web"}, tags |-> {}, labels |-> {}]]

R == INSTANCE BusinessRules WITH Items <- RuleItems, Bound <- "h1"

ItemTree(i, not) == [op |-> "item", item |-> i, not |-> not, sons |-> <<>>]
RuleTree(op, not, sons) == [op |-> op, item |-> "", not |-> not, sons |-> sons]
OfTree(v, sons) == [op |-> "of", item |-> "", not |-> FALSE, sons |-> sons, v |-> v]   \* v: the thresholds

RuleLeaves == {ItemTree(i, not) : i \in {"h1", "s1"}, not \in BOOLEAN}
RuleGroups == {RuleTree(op, not, <<a, b>>) : op \in {"&", "|"}, not \in BOOLEAN, a, b \in RuleLeaves}
Thresholds == {R!Count(1), R!Count(2), R!Count(-1), R!Percent(50), R!Percent(-50)}
RuleTrees ==
  {RuleTree(op, FALSE, <<a, b>>) : op \in {"&", "|"}, a \in RuleLeaves, b \in RuleGroups \cup RuleLeaves}
  \cup {RuleTree(op, FALSE, <<a, b, c>>) :
          op \in {"&", "|"}, a \in {g \in RuleGroups : g.not}, b, c \in {ItemTree("h1", FALSE), ItemTree("s1", TRUE)}}
  \cup {OfTree(<<v>>, <<a, b, c>>) : v \in Thresholds, a, b \in RuleLeaves, c \in {ItemTree("s2", FALSE)} \cup RuleGroups}

RECURSIVE Rendered(_), Joined(_, _)

Joined(sons, op) ==
  IF Len(sons) = 1 THEN Rendered(sons[1])
  ELSE Rendered(sons[1]) \o <<R!Tok(op)>> \o Joined(Tail(sons), op)

\* The pattern of a son: a group is in parentheses.
Rendered(tree) ==
  (IF tree.not THEN <<R!Tok("!")>> ELSE <<>>) \o
  (IF tree.op = "item" THEN <<R!Name(tree.item)>>
   ELSE <<R!Tok("(")>> \o Joined(tree.sons, tree.op) \o <<R!Tok(")")>>)

Pattern(tree) ==
  IF tree.op = "of" THEN <<R!Of(tree.v)>> \o Joined(tree.sons, "&")
  ELSE Joined(tree.sons, tree.op)

\* How many sons must be OK for an "of:" rule
Needed(v, total) ==
  IF v.percent THEN LET p == IF v.n < 0 THEN 100 + v.n ELSE v.n
                    IN Min({n \in 0..total : n * 100 >= p * total})
  ELSE IF v.n < 0 THEN total + v.n ELSE v.n

RECURSIVE Holds(_, _)

\* What a rule says of items that are OK (those of up) or in the worst state: a formula.
Holds(tree, up) ==
  LET held == {k \in DOMAIN tree.sons : Holds(tree.sons[k], up)}
      plain == CASE tree.op = "item" -> tree.item \in up
                 [] tree.op = "&" -> held = DOMAIN tree.sons
                 [] tree.op = "|" -> held # {}
                 [] OTHER -> Cardinality(held) >= Needed(tree.v[1], Len(tree.sons))
  IN plain # tree.not

ItemStatus(up) ==
  [i \in DOMAIN RuleItems |->
     [state |-> IF i \in up THEN 0 ELSE IF RuleItems[i].type = "host" THEN 1 ELSE 2,
      silent |-> FALSE]]

\* Items a search stands for: hosts by name, group, template, label; services by the same of
\* their host and by their description or group.
Searches ==
  [h1 |-> R!Search([flag |-> "", arg |-> {"h1"}], <<>>),
   web |-> R!Search([flag |-> "g", arg |-> {"web"}], <<>>),
   linux |-> R!Search([flag |-> "t", arg |-> {"linux"}], <<>>),
   prod |-> R!Search([flag |-> "l", arg |-> {"prod"}], <<>>),
   all |-> R!Search(R!AnyName, <<>>),
   services |-> R!Search(R!AnyName, <<R!AnyName>>),
   webservices |-> R!Search([flag |-> "g", arg |-> {"web"}], <<R!AnyName>>),
   prodservices |-> R!Search(R!AnyName, <<[flag |-> "l", arg |-> {"prod"}]>>)]
Found ==
  [h1 |-> {"h1"}, web |-> {"h1"}, linux |-> {"h1", "h2"}, prod |-> {"h2"}, all |-> {"h1", "h2"},
   services |-> {"s1", "s2"}, webservices |-> {"s1"}, prodservices |-> {"s1"}]

\* The rule is OK where the formula holds, and in the worst state of its items where it does
\* not. For a simple "of:" rule this is what the code and its tests do; the docstring and a
\* comment of get_complex_xof_node_state say OK.
RuleRight(tree) ==
  LET node == R!EvalCorPattern(Pattern(tree))
  IN /\ R!IsValid(node)
     /\ \A up \in SUBSET DOMAIN RuleItems :
          R!GetState(node, ItemStatus(up)) = IF Holds(tree, up) THEN 0 ELSE 2

\* "A,B,C of:" rules over four items, in all of their states: critical for C critical items,
\* else warning for B that are not OK, else OK; 0 stands for all of them.
TripleRules == Thresholds \X {R!Count(0), R!Count(1), R!Count(-1)} \X {R!Count(0), R!Count(2), R!Percent(75)}
ItemStates == [h1 : {0, 1}, h2 : {0, 1}, s1 : 0..2, s2 : 0..2]

TripleRight(v) ==
  LET items == SetToSeq(DOMAIN RuleItems)
      node == R!EvalCorPattern(Pattern(OfTree(v, [k \in DOMAIN items |-> ItemTree(items[k], FALSE)])))
      AtLeast(n, threshold) == n >= IF threshold = R!Count(0) THEN 4 ELSE Needed(threshold, 4)
  IN \A states \in ItemStates :
       LET bad == {i \in DOMAIN states : states[i] # 0}
           critical == {i \in bad : states[i] = 2 \/ RuleItems[i].type = "host"}
       IN R!GetState(node, [i \in DOMAIN states |-> [state |-> states[i], silent |-> FALSE]])
          = CASE AtLeast(Cardinality(critical), v[3]) -> 2
              [] ~AtLeast(Cardinality(critical), v[3]) /\ AtLeast(Cardinality(bad), v[2]) -> 1
              [] OTHER -> 0

\* A rule that mixes operators gives no node; inside of another one, no state.
MixedRules == [sons : [1..3 -> RuleLeaves], op : {"&", "|"}, outer : {"&", "|"}]

MixedRefused(x) ==
  LET other == IF x.op = "&" THEN "|" ELSE "&"
      mixed == Rendered(x.sons[1]) \o <<R!Tok(x.op)>> \o Rendered(x.sons[2]) \o <<R!Tok(other)>>
               \o Rendered(x.sons[3])
      within == <<R!Tok("(")>> \o mixed \o <<R!Tok(")"), R!Tok(x.outer), R!Name("s2")>>
  IN /\ R!EvalCorPattern(mixed) = R!NoNode
     /\ \A up \in SUBSET DOMAIN RuleItems : R!GetState(R!EvalCorPattern(within), ItemStatus(up)) = R!Raised

SearchRight(name) ==
  \A up \in SUBSET DOMAIN RuleItems :
    /\ R!GetState(R!EvalCorPattern(<<Searches[name]>>), ItemStatus(up))
       = IF Found[name] \subseteq up THEN 0 ELSE 2
    /\ R!GetState(R!EvalCorPattern(<<R!Of(<<R!Count(1)>>), Searches[name]>>), ItemStatus(up))
       = IF Found[name] \cap up # {} THEN 0 ELSE 2

-----------------------------------------------------------------------------
(* Expressions of host groups: unions or intersections of groups, a group being a name or *)
(* another expression in parentheses, less the names that are negated                      *)

GroupElements == {"w1", "w2", "w3", "w4"}
GroupMembers ==
  [a |-> {"w1", "w2"}, b |-> {"w2", "w3"}, c |-> {"w2", "w4"}, e |-> {"*"}]

X == INSTANCE ComplexExpressions WITH Members <- GroupMembers, Elements <- GroupElements

GroupNames == DOMAIN GroupMembers
Operands == {<<n>> : n \in GroupNames} \cup {<<"!", n>> : n \in {"a", "b"}}
FlatExpressions == {[op |-> op, sons |-> <<a, b>>] : op \in {",", "&", "|", "+"}, a, b \in Operands}

FlatTokens(x) == x.sons[1] \o <<x.op>> \o x.sons[2]

NameSet(son) == LET members == GroupMembers[Last(son)]
                IN IF members = {"*"} THEN GroupElements ELSE members

\* The elements of <<set, negated>> operands
SetMeaning(op, operands) ==
  LET positive == {o[1] : o \in {o \in operands : ~o[2]}}
      negative == UNION {o[1] : o \in {o \in operands : o[2]}}
  IN (IF positive = {} THEN {}
      ELSE IF op \in {"&", "+"} THEN {e \in GroupElements : \A S \in positive : e \in S}
      ELSE UNION positive) \ negative

FlatMeaning(x) == SetMeaning(x.op, {<<NameSet(s), Len(s) = 2>> : s \in ToSet(x.sons)})

\* "x op (flat)" and "(flat) op x"
ExpressionRight(x) ==
  /\ X!ResolveElements(X!EvalCorPattern(FlatTokens(x))) = FlatMeaning(x)
  /\ \A op \in {"|", "&"}, son \in Operands, first \in BOOLEAN :
       LET inner == <<"(">> \o FlatTokens(x) \o <<")">>
           tokens == IF first THEN inner \o <<op>> \o son ELSE son \o <<op>> \o inner
       IN X!ResolveElements(X!EvalCorPattern(tokens))
          = SetMeaning(op, {<<FlatMeaning(x), FALSE>>, <<NameSet(son), Len(son) = 2>>})

\* Without parentheses the last operator counts for all the names, and "!" before a parenthesis
\* goes to the first name in it.
MixedExpressions == [sons : [1..3 -> Operands], ops : [1..2 -> {"|", "&"}]]

MixedRight(x) ==
  LET tokens == x.sons[1] \o <<x.ops[1]>> \o x.sons[2] \o <<x.ops[2]>> \o x.sons[3]
      Meaning(op, sons) == SetMeaning(op, {<<NameSet(s), Len(s) = 2>> : s \in ToSet(sons)})
  IN /\ X!ResolveElements(X!EvalCorPattern(tokens)) = Meaning(x.ops[2], x.sons)
     /\ Len(x.sons[1]) = 1 =>
          X!ResolveElements(X!EvalCorPattern(<<"!", "(">> \o tokens \o <<")">>))
          = Meaning(x.ops[2], <<<<"!">> \o x.sons[1], x.sons[2], x.sons[3]>>)

-----------------------------------------------------------------------------
(* Time periods: a day of four seconds and years of three short months *)

D == INSTANCE DateRanges WITH DayLength <- 4, MonthStart <- <<0, 9, 17, 27>>, Horizon <- 22

TimeRanges == {[from |-> 0, to |-> 1], [from |-> 2, to |-> 2], [from |-> 3, to |-> 4],
               [from |-> 0, to |-> 4]}
Disjoint(ranges) == \A r, q \in ranges : r = q \/ r.to + 1 < q.from \/ q.to + 1 < r.from
DayRanges == {S \in SUBSET TimeRanges : S # {} /\ Cardinality(S) <= 2 /\ Disjoint(S)}

PeriodEntries ==
  {[start |-> D!Point("standard", 0, 0, w, 0), end |-> <<>>, ranges |-> S] :
     w \in {0, 1}, S \in DayRanges}
  \cup {[start |-> D!Point("date", 1, 1, 0, 2), end |-> e, ranges |-> S] :
          e \in {<<>>, <<D!Point("date", 1, 1, 0, 4)>>}, S \in DayRanges}

Period(entries, exclude) ==
  [ranges |-> FlattenSeq([k \in DOMAIN entries |-> D!ResolveDaterange(entries[k])]),
   exclude |-> exclude]

\* Periods of one or two entries, and of one entry with another one excluded
TimePeriods ==
  {Period(<<e>>, <<>>) : e \in PeriodEntries}
  \cup {Period(<<e, f>>, <<>>) : e, f \in PeriodEntries}
  \cup {Period(<<e>>, <<Period(<<f>>, <<>>)>>) : e, f \in PeriodEntries}

FirstDay == D!GetStartOfDay(D!Day(1, 1, 1))
SearchTimes == (FirstDay - 4)..(FirstDay + 24)

NextValidRight(tp, t) ==
  LET found == D!GetNextValidTimeFromT(tp, t)
      last == IF found = D!None THEN t + 40 ELSE found - 1
  IN /\ \A u \in t..last : ~D!IsTimeValid(tp, u)
     /\ found = D!None \/ D!IsTimeValid(tp, found)

\* The next invalid time is looked for in periods whose ranges are days of the week without
\* an exclusion: the README says what the others get.
WeekDays(tp) ==
  /\ tp.exclude = <<>>
  /\ Len(tp.ranges) = Cardinality({d.start.wday : d \in ToSet(tp.ranges)})
  /\ Len(tp.ranges) = 1 \/ \A d \in ToSet(tp.ranges) : d.kind = "Standard"

NextInvalidRight(tp, t) ==
  LET found == D!GetNextInvalidTimeFromT(tp, t)
  IN ~D!IsTimeValid(tp, found) /\ \A u \in t..(found - 1) : D!IsTimeValid(tp, u)

PeriodRight(tp) ==
  \A t \in SearchTimes :
    /\ NextValidRight(tp, t)
    /\ WeekDays(tp) /\ D!IsTimeValid(tp, t) => NextInvalidRight(tp, t)

\* Entries without a year: "january 5 - march 2", "day 2 - 5", "monday 1 january - ...", ...
Nums(unit) == IF unit \in {"month", "day"} THEN {2, 5, -1, 9} ELSE {1, -1}
Points(unit) ==
  {D!Point(unit, 0, m, w, n) : m \in IF unit \in {"month", "month_weekday"} THEN 1..3 ELSE {0},
                               w \in IF unit \in {"weekday", "month_weekday"} THEN {0, 3} ELSE {0},
                               n \in Nums(unit)}
YearlessEntries ==
  UNION {{[start |-> s, end |-> e, ranges |-> {[from |-> 0, to |-> 4]}] :
            s \in Points(unit),
            e \in {<<>>} \cup {<<p>> : p \in Points(unit)}
                  \cup {<<[unit |-> "number", num |-> n]>> : n \in Nums(unit)}} :
         unit \in {"month", "day", "month_weekday", "weekday"}}

\* The days an entry begins and ends on in a month of a year; a yearly entry has its months.
Yearly(entry) == entry.start.unit \in {"month", "month_weekday"}
MonthsOf(entry, y) ==
  IF Yearly(entry) THEN {<<y, entry.start.mon, entry.end.mon>>} ELSE {<<y, m, m>> : m \in 1..3}
PointDay(p, y, m) ==
  IF p.unit \in {"month", "day"} THEN D!OffsetDay(p, y, m) ELSE D!WeekdayDay(p, y, m)
Begins(entry, x) == PointDay(entry.start, x[1], x[2])
Ends(entry, x) == PointDay(entry.end, x[1], x[3])

Years == 0..5

\* An entry that always ends after it begins, or always before; for a weekday, always after:
\* the README says what the others get.
Steady(entry) ==
  LET all == UNION {MonthsOf(entry, y) : y \in Years}
  IN \/ \A x \in all : Begins(entry, x) <= Ends(entry, x)
     \/ /\ entry.start.unit # "weekday"
        /\ \A x \in all : Begins(entry, x) > Ends(entry, x)

\* The days of the entry: an end that comes before the start is the one of the next time.
Wrapped(entry, x) ==
  LET next == IF Yearly(entry) THEN <<x[1] + 1, x[2], x[3]>>
              ELSE LET a == D!After(x[1], x[2]) IN <<a[1], a[2], a[2]>>
  IN IF Ends(entry, x) >= Begins(entry, x) THEN Ends(entry, x) ELSE Ends(entry, next)
Occurrences(entry) ==
  {[from |-> Begins(entry, x), to |-> Wrapped(entry, x)] : x \in UNION {MonthsOf(entry, y) : y \in Years}}

\* What the end of an entry means when it is a number, or when there is none
Meant(entry) ==
  [start |-> entry.start,
   end |-> IF entry.end = <<>> THEN entry.start
           ELSE IF entry.end[1].unit = "number" THEN [entry.start EXCEPT !.num = entry.end[1].num]
           ELSE entry.end[1]]

\* A range as it is before the calls about the days of a year: new, or as a call about another
\* day of that year left it, unless the call moved its years.
RangesOf(range, y) ==
  {range} \cup {left \in {D!LeftBy(range, D!GetStartOfDay(day)) : day \in D!Day(y, 1, 1)..D!Day(y, 3, 10)} :
                left.syear = y /\ left.eyear = y}

\* A day of the entry is in the range that is found, for another one the range is the next.
RangeRight(entry) ==
  LET range == D!ResolveDaterange(entry)[1]
      occurs == Occurrences(Meant(entry))
      DayRight(dr, day) ==
        LET found == D!GetStartAndEndTime(dr, D!GetStartOfDay(day))
        IN IF \E o \in occurs : o.from <= day /\ day <= o.to
           THEN D!DayOf(found.start) <= day /\ day <= D!DayOf(found.end)
           ELSE D!DayOf(found.start) = Min({o.from : o \in {o \in occurs : o.from > day}})
  IN Steady(Meant(entry)) =>
       \A y \in 2..3 : \A dr \in RangesOf(range, y), day \in D!Day(y, 1, 1)..D!Day(y, 3, 10) :
         DayRight(dr, day)

-----------------------------------------------------------------------------
(* Templates: two templates, the first of which may use the second, and two items *)

T == INSTANCE Templates

\* What an object gives to the property: nothing, a value, or a value with a "+"
Given == {"nothing", "value", "plus"}
TemplateObjects == {"i1", "i2", "t1", "t2"}
Own == [i1 |-> "u", i2 |-> "v", t1 |-> "x", t2 |-> "y"]

Inheritances ==
  {[given |-> given, uses |-> [i1 |-> u1, i2 |-> u2, t1 |-> w, t2 |-> <<>>]] :
     given \in [TemplateObjects -> Given],
     u1 \in Lists({"t1", "t2"}, 2), u2 \in {<<"t1">>, <<"t2", "t1">>}, w \in {<<>>, <<"t2">>}}

Conf(x) == [uses |-> x.uses, template |-> [o \in TemplateObjects |-> o \in {"t1", "t2"}]]
Values(x) ==
  [attr |-> [o \in {o \in TemplateObjects : x.given[o] = "value"} |-> <<Own[o]>>],
   plus |-> [o \in {o \in TemplateObjects : x.given[o] = "plus"} |-> <<Own[o]>>]]

RECURSIVE InheritedValue(_, _)

\* The value of an object: its own if it has no "+"; else what its templates give, up to the
\* first whose value is not additive, then its own. A template's value is additive if its own
\* is, or if it has none and the first template it takes a value from has an additive one.
InheritedValue(x, o) ==
  LET theirs == SelectSeq([k \in DOMAIN x.uses[o] |-> InheritedValue(x, x.uses[o][k])],
                          LAMBDA v : v.list # <<>>)
      stops == {k \in DOMAIN theirs : ~theirs[k].adds}
      taken == SubSeq(theirs, 1, IF stops = {} THEN Len(theirs) ELSE Min(stops))
      own == IF x.given[o] = "plus" THEN <<Own[o]>> ELSE <<>>
  IN IF x.given[o] = "value" THEN [list |-> <<Own[o]>>, adds |-> FALSE]
     ELSE [list |-> T!Distinct(FlattenSeq([k \in DOMAIN taken |-> taken[k].list]) \o own),
           adds |-> own # <<>> \/ (taken # <<>> /\ taken[1].adds)]

RECURSIVE FirstGiven(_, _)

\* The custom variable of an object: its own, or the first one that a template gives
FirstGiven(x, o) ==
  IF x.given[o] # "nothing" THEN <<Own[o]>>
  ELSE LET theirs == SelectSeq([k \in DOMAIN x.uses[o] |-> FirstGiven(x, x.uses[o][k])],
                               LAMBDA v : v # <<>>)
       IN IF theirs = <<>> THEN <<>> ELSE theirs[1]

\* An object that gives an additive value has a variable "_VAR", and a list of an unknown name.
Customs(x) ==
  [customs |-> [p \in TemplateObjects |->
                  IF x.given[p] = "nothing" THEN <<>> ELSE ("_VAR" :> Own[p])],
   plus |-> [p \in TemplateObjects |-> IF x.given[p] = "plus" THEN ("list" :> p) ELSE <<>>],
   lists |-> [p \in TemplateObjects |-> <<Own[p]>>]]

\* The lists that are in a list, which is one of them
RECURSIVE Within(_, _)
Within(lists, list) ==
  {list} \cup UNION {Within(lists, l) : l \in ToSet(lists[list]) \cap TemplateObjects}

\* The variable is the first that is given; a list is there if the object or one of its
\* templates gives one, and what the object gives is in it.
CustomsRight(x, o) ==
  LET ended == T!ApplyCustoms(Conf(x), Customs(x), <<"i1", "i2", "t1", "t2">>)
      got == ended.customs[o]
      givers == {p \in {o} \cup Reach(x.uses, TemplateObjects)[o] : x.given[p] = "plus"}
  IN /\ (IF "_VAR" \in DOMAIN got THEN <<got["_VAR"]>> ELSE <<>>) = FirstGiven(x, o)
     /\ "list" \in DOMAIN got <=> givers # {}
     /\ o \in givers => o \in Within(ended.lists, got["list"])
     /\ ended.plus[o] = <<>>

\* A template is used once, at its first place; one that is unknown and the object itself are
\* left out; the tags are all of those used.
TemplatesRight(x, o) ==
  /\ T!LinkifyItemTemplates(o, <<o>> \o x.uses[o] \o <<"missing">> \o Reverse(x.uses[o]), {"t1", "t2"})
     = x.uses[o]
  /\ T!GetAllTags(x.uses, o) = Reach(x.uses, TemplateObjects)[o]

InheritanceRight(x) ==
  LET ended == T!ApplyPartialInheritance(Conf(x), Values(x), <<"i1", "i2", "t1", "t2">>)
  IN \A o \in {"i1", "i2"} :
       /\ (IF o \in DOMAIN ended.attr THEN ended.attr[o] ELSE <<>>) = InheritedValue(x, o).list
       /\ CustomsRight(x, o)
       /\ TemplatesRight(x, o)

\* Several definitions of two names, in the order they are read
Definitions == {[name |-> n, order |-> o] : n \in {"a", "b"}, o \in 1..2}
Readings == UNION {[1..n -> Definitions] : n \in 1..4}

\* The last one among those of the lowest order is kept.
KeptRight(reading) ==
  LET items == [k \in DOMAIN reading |-> reading[k] @@ [uuid |-> k]]
      Kept(k) == \A j \in DOMAIN items :
        items[j].name = items[k].name =>
          items[k].order < items[j].order \/ (items[k].order = items[j].order /\ j <= k)
  IN T!AddDefinitions(items).objects = {items[k] : k \in {k \in DOMAIN items : Kept(k)}}

-----------------------------------------------------------------------------
(* Groups in groups, realms in realms, and graphs *)

G == INSTANCE Groups
M == INSTANCE Realms
P == INSTANCE DependencyGraph

\* Three groups with at most two group members each; a group has a host of its own or none,
\* the first one may have "*" too. The third host is not known.
GroupTrees ==
  {[groups |-> gs, order |-> o, own |-> own, all |-> all] :
     gs \in {gs \in [1..3 -> Lists(1..3, 2)] :
               \A g \in 1..3 : g \notin Reach(gs, 1..3)[g]},
     own \in SUBSET (1..3), all \in BOOLEAN, o \in {<<1, 2, 3>>, <<3, 2, 1>>, <<2, 3, 1>>}}

HostName(k) == <<"w1", "w2", "w3">>[k]

GroupRight(x, g) ==
  LET members == [k \in 1..3 |-> (IF k \in x.own THEN {HostName(k)} ELSE {})
                                 \cup (IF x.all /\ k = 1 THEN {"*"} ELSE {})]
      within == {g} \cup Reach(x.groups, 1..3)[g]
      got == G!GetMembers(G!Explode(x.groups, members, x.order), g)
      known == {"w1", "w2"}
  IN /\ got = UNION {members[k] : k \in within}
     /\ G!LinkMembers(got, known)
        = IF x.all /\ 1 \in within THEN known ELSE {HostName(k) : k \in within \cap x.own} \cap known
     /\ G!UnknownMembers(got, known) = {HostName(k) : k \in within \cap x.own} \cap {"w3"}

\* Names and negated names: the last one that is about a host decides.
HostLists ==
  UNION {[1..n -> {[name |-> h, not |-> b] : h \in {"w1", "w2"}, b \in BOOLEAN}
                  \cup {[name |-> "*", not |-> FALSE]}] : n \in 0..3}

HostListRight(list) ==
  LET About(h) == {k \in DOMAIN list : list[k].name \in {h, "*"}}
  IN G!Exploded(list, {"w1", "w2"})
     = {h \in {"w1", "w2"} : About(h) # {} /\ ~list[Max(About(h))].not}

\* A group without a host of its own shares the list of its first group member.
Shares(x) ==
  \E g \in 1..3 : g \notin x.own /\ ~(x.all /\ g = 1) /\ Len(x.groups[g]) > 1

\* Four realms, with at most four members in all
RealmTrees ==
  {ms \in [1..4 -> {SetToSortSeq(S, <) : S \in SUBSET (1..4)}] :
     Len(ms[1]) + Len(ms[2]) + Len(ms[3]) + Len(ms[4]) <= 4}

\* Nothing is reached twice from a realm
Forest(ms) ==
  \A r \in 1..4 : /\ r \notin Reach(ms, 1..4)[r]
                  /\ \A s \in Reach(ms, 1..4)[r] :
                       Cardinality({p \in {r} \cup Reach(ms, 1..4)[r] : s \in ToSet(ms[p])}) = 1

\* A realm that is reached twice is an error and no loop is left; without an error, each
\* realm has all of those below it, and its level is how deep it is, also when the realms name
\* the ones above them; there is one default realm.
RealmsRight(ms) ==
  LET exploded == M!Explode(<<1, 2, 3, 4>>, ms, [r \in 1..4 |-> <<>>])
      linked == M!Linkify(<<1, 2, 3, 4>>, exploded.members)
      higher == M!Explode(<<1, 2, 3, 4>>, [r \in 1..4 |-> <<>>],
                          [r \in 1..4 |-> SelectSeq(<<1, 2, 3, 4>>, LAMBDA p : r \in ToSet(ms[p]))])
  IN /\ exploded.errors = {} <=> Forest(ms)
     /\ \A r \in 1..4 : r \notin Reach(exploded.members, 1..4)[r]
     /\ exploded.errors = {} =>
          \A r \in 1..4 :
            /\ ToSet(linked.subs[r]) = Reach(ms, 1..4)[r]
            /\ \A s \in ToSet(ms[r]) : \/ linked.level[s] = linked.level[r] + 1
                                       \/ \E p \in (1..4) \ {r} : s \in ToSet(ms[p])
            /\ ToSet(higher.members[r]) = ToSet(ms[r])
     /\ \A marked \in SUBSET ToSet(ms[1]) :
          \E r \in 1..4 : /\ M!GetDefault(1..4, marked) = {r}
                          /\ marked # {} => r \in marked

\* Graphs of four nodes with at most four edges
Edges == {e \in SUBSET ((1..4) \X (1..4)) : Cardinality(e) <= 4}

RECURSIVE EdgeList(_)
EdgeList(edges) ==
  IF edges = {} THEN <<>>
  ELSE LET e == CHOOSE e \in edges : TRUE IN <<e>> \o EdgeList(edges \ {e})

\* A loop is found if there is one, in nodes that lead to it; hosts are in one pack if they are
\* related, and in one only.
GraphRight(edges) ==
  LET nodes == <<1, 2, 3, 4>>
      graph == P!ParentsGraph(nodes, EdgeList(edges))
      both == P!ParentsGraph(nodes, EdgeList(edges \cup {<<e[2], e[1]>> : e \in edges}))
      looped == {n \in 1..4 : n \in Reach(graph, 1..4)[n]}
      found == P!LoopCheck(nodes, graph)
      packs == P!GetAccessibilityPacks(nodes, both)
  IN /\ found = {} <=> looped = {}
     /\ \A n \in found : ({n} \cup Reach(graph, 1..4)[n]) \cap looped # {}
     /\ ToSet(packs) = {{n} \cup Reach(both, 1..4)[n] : n \in 1..4}
     /\ \A j, k \in DOMAIN packs : j = k \/ packs[j] \cap packs[k] = {}

-----------------------------------------------------------------------------
(* The handlers of the external commands, the arguments of a line, and the livestates that *)
(* the arbiter turns into commands                                                         *)

C == INSTANCE CommandTable WITH MaxCount <- 2

\* What a command may find: the objects as configured, as one more command left them, and items
\* that are OK or not after more than one attempt
Later(part) == [o \in C!Objects |-> [part[o] EXCEPT !.attempt = 2]]
Failing(part) == [o \in C!Objects |-> [part[o] EXCEPT !.ok = FALSE, !.attempt = 3]]
PartsBefore(c) ==
  {C!Configured, Later(C!Configured), Failing(C!Configured)}
  \cup {C!Apply(C!Configured, d) : d \in {d \in C!Commands : d.on = c.on}}

\* A command that enables or disables is undone by the one that says the contrary, wherever it
\* finds the objects and whatever else was changed. A change of a value is marked, in the mask
\* of its attribute, but for the first notification delay, and MODATTR changes the values of
\* attributes that are no flags too. An item that is OK has at most max_check_attempts.
CommandRight(c) ==
  LET undo == [c EXCEPT !.to = ~c.to]
      SetValues(part) == [o \in C!Objects |-> part[o].values]
      Set(part) == \A o \in C!Targets[c.on] : part[o].values[c.attr] = ~c.to
  IN /\ c.kind = "toggle" =>
          /\ undo \in C!Commands
          /\ \A part \in PartsBefore(c) :
               Set(part) => SetValues(C!Apply(C!Apply(part, c), undo)) = SetValues(part)
     /\ \A part \in PartsBefore(c), o \in C!Objects :
          LET after == C!Apply(part, c)[o]
          IN /\ \A a \in C!Attributes \ {"delay"} :
                  after.values[a] # part[o].values[a] /\ (c.kind = "modattr" => part[o].modified.all = {})
                    => C!Bit(a) \in after.modified[C!MaskOf(a)]
             /\ part[o].ok => after.attempt <= C!CheckAttempts(after)

\* Lines of a command: the types of its arguments, and elements that exist or not
ArgumentTypes == UNION {[1..n -> {"host", "service", "object", "value", "obsolete"}] : n \in 1..3}
Lines ==
  {x \in [types : ArgumentTypes,
          elts : UNION {[1..n -> {"known", "unknown"}] : n \in 0..4}] :
     /\ Cardinality({k \in DOMAIN x.types : x.types[k] = "service"}) <= 1
     /\ Len(x.elts) <= C!ArgumentCount(x.types)}

\* The place in the line of the argument of each type; a service is two elements.
Place(types, k) == k + (IF \E j \in 1..k : types[j] = "service" THEN 1 ELSE 0)

\* A line is rejected, or each argument of the handler comes from the element of its place.
LineRight(x) ==
  LET args == C!Arguments(x.types, x.elts)
      used == SelectSeq([k \in DOMAIN x.types |-> k], LAMBDA k : x.types[k] # "obsolete")
  IN args # C!Rejected =>
       /\ Len(args) = Len(used)
       /\ \A k \in DOMAIN used : args[k] = Place(x.types, used[k])
       /\ \A k \in DOMAIN args : x.types[used[k]] # "value" => x.elts[args[k]] = "known"

\* The state of a request becomes the state of the item; an unreachable host becomes DOWN.
LivestateRight(x) ==
  LET commands == C!HostCommands(x.hosts, x.services)
      hosts == SelectSeq(x.hosts, LAMBDA s : s # "unknown state")
      services == SelectSeq(x.services, LAMBDA s : s # "unknown state")
  IN /\ Len(commands) = Len(hosts) + Len(services)
     /\ \A k \in DOMAIN commands :
          IF k <= Len(hosts)
          THEN C!HostState(commands[k]) = IF hosts[k] = "UNREACHABLE" THEN "DOWN" ELSE hosts[k]
          ELSE C!ServiceState(commands[k]) = services[k - Len(hosts)]

Requests ==
  [hosts : Lists({"UP", "DOWN", "UNREACHABLE", "unknown state"}, 1),
   services : Lists({"OK", "WARNING", "CRITICAL", "UNKNOWN", "UNREACHABLE", "unknown state"}, 2)]

-----------------------------------------------------------------------------
(* The services of four hosts, one of which the configuration does not know *)

NoService == [tags |-> {}, includes |-> {}, excludes |-> {}, keys |-> <<>>, notKeys |-> {}]
ServiceHosts ==
  [w1 |-> [NoService EXCEPT !.tags = {"linux"}, !.excludes = {<<"a">>}, !.keys = <<"k1">>],
   w2 |-> [NoService EXCEPT !.tags = {"linux", "web"}, !.includes = {<<"b">>, <<"b", "$KEY$">>, <<"b", "k1">>, <<"b", "k2">>},
                            !.keys = <<"k1", "k2">>, !.notKeys = {"k2"}],
   w3 |-> [NoService EXCEPT !.tags = {"web"}, !.keys = <<"k1", "k2">>]]

S == INSTANCE Services WITH Hosts <- ServiceHosts

Mention(h) == [name |-> h, not |-> FALSE]
MentionLists ==
  {<<Mention("w1")>>, <<Mention("w3")>>, <<Mention("w1"), Mention("w2")>>, <<Mention("w3"), Mention("w9")>>,
   <<Mention("w9")>>, <<Mention("*")>>, <<Mention("*"), [name |-> "w3", not |-> TRUE]>>}
ServiceDefinitions(name, descs) ==
  [name : {name}, desc : descs, foreach : BOOLEAN, order : {1, 2}, template : {FALSE},
   hosts : MentionLists, groups : {<<"g">>}]
  \cup [name : {name}, desc : descs, foreach : {FALSE}, order : {1}, template : {TRUE},
        hosts : {<<Mention("linux")>>, <<Mention("web"), Mention("linux")>>}, groups : {<<>>}]
DefinitionPairs ==
  {<<d, e>> : d \in ServiceDefinitions("d1", {"a"}), e \in ServiceDefinitions("d2", {"a", "b"})}

\* The names a definition gives services to, in the order they are made
Declared(d) ==
  LET About(h) == {k \in DOMAIN d.hosts : d.hosts[k].name \in {h, "*"}}
      on == IF d.template THEN {h \in DOMAIN ServiceHosts : \E k \in DOMAIN d.hosts : d.hosts[k].name \in ServiceHosts[h].tags}
            ELSE {h \in DOMAIN ServiceHosts : About(h) # {} /\ ~d.hosts[Max(About(h))].not}
      names(h) == IF ~d.foreach THEN {<<h, <<d.desc>>>>}
                  ELSE {<<h, <<d.desc, k>>>> : k \in ToSet(ServiceHosts[h].keys) \ ServiceHosts[h].notKeys}
  IN UNION {names(h) : h \in on}

Refused(name) ==
  LET h == ServiceHosts[name[1]]
  IN IF h.includes # {} THEN name[2] \notin h.includes ELSE name[2] \in h.excludes

\* A definition for one host comes after another one with a lower order that gives the host a
\* service of that name: both are kept.
TwiceDefined(pair) ==
  /\ pair[2].desc = pair[1].desc /\ ~pair[1].template /\ ~pair[2].template
  /\ pair[1].order < pair[2].order /\ Len(pair[2].hosts) = 1 /\ pair[2].hosts[1].name # "*"

\* Every name that is declared and not refused has one service, of the definition with the
\* lowest order, and the group has it.
ServicesRight(pair) ==
  LET st == S!Clean(S!Explode(pair))
      wanted == {n \in Declared(pair[1]) \cup Declared(pair[2]) : ~Refused(n)}
      Of(n) == {s \in st.items : <<s.host, s.desc>> = n}
      registered == FoldSet(LAMBDA s, ms : S!RegisterServiceIntoServicegroups(ms, s), <<>>, st.items)
      members == IF "g" \in DOMAIN registered THEN registered["g"] ELSE <<>>
      linked == S!LinkifyServicegroup(st, members)
  IN /\ {<<s.host, s.desc>> : s \in st.items} = wanted
     /\ \A n \in wanted :
          /\ ~TwiceDefined(pair) => Cardinality(Of(n)) = 1
          /\ \A d \in ToSet(pair) : n \in Declared(d) => \E s \in Of(n) : s.order <= d.order
     /\ ~TwiceDefined(pair) => linked.members = {s \in st.items : s.groups # <<>>}
     /\ linked.unknown = {} /\ ~linked.raises

-----------------------------------------------------------------------------
(* Dependencies between the hosts and services of two groups *)

E == INSTANCE Dependencies

DependencyGroups == [g1 |-> {"w1", "w2"}, g2 |-> {"w2", "w3"}]
KnownHosts == {"w1", "w2", "w3"}
Sides == [hosts : {{}, {"w1"}, {"w1", "w9"}}, groups : SUBSET {"g1", "g2"} \cup {{"g9"}}]
DependencyDefinitions ==
  [fathers : Sides, sons : Sides, sonServices : {{"a"}, {"a", "b"}}, fatherServices : {{"b"}},
   explode_hostgroup : BOOLEAN]

HostsOf(side) == side.hosts \cup UNION {DependencyGroups[g] : g \in side.groups \ {"g9"}}

Linked(l, deps) ==
  /\ \A d \in deps : d.father \in l.act_depend_of[d.son] \cap l.chk_depend_of[d.son] \cap l.parents[d.son]
  /\ \A i, j \in DOMAIN l.parents :
       /\ j \in l.act_depend_of[i] <=> i \in l.act_depend_of_me[j]
       /\ j \in l.parents[i] <=> i \in l.children[j]
       /\ j \in l.parents[i] => [son |-> i, father |-> j] \in deps

\* Every son depends on every father, as far as they are known, and both know; what is not
\* known is an error.
HostDependencyRight(x) ==
  LET exploded == E!ExplodeHostDependency(DependencyGroups, x)
      got == {E!LinkifyHostDependency(KnownHosts, d) : d \in exploded.deps}
      links == UNION {g.link : g \in got}
      wanted == {[son |-> s, father |-> f] : s \in HostsOf(x.sons) \cap KnownHosts,
                                             f \in HostsOf(x.fathers) \cap KnownHosts}
  IN /\ links = wanted
     /\ Linked(FoldSet(LAMBDA d, l : E!AddDependency(l, d), E!NoLinks(KnownHosts), links), wanted)
     /\ "g9" \in x.sons.groups \cup x.fathers.groups <=> exploded.errors # {}
     /\ HostsOf(x.fathers) # {} => ("w9" \in HostsOf(x.sons) => "w9" \in UNION {g.errors : g \in got})

\* The services of the groups depend on those of the same host when there are no dependent
\* groups, else every son on every father; sons without a host are on the hosts of the fathers.
ServiceDependencyRight(x) ==
  LET exploded == E!ExplodeServiceDependency(DependencyGroups, x)
      services == KnownHosts \X {"a", "b"}
      links == UNION {E!LinkifyServiceDependency(services, {}, d).link : d \in exploded.deps}
      sons == IF x.sons.hosts = {} THEN HostsOf(x.sons) \cup x.fathers.hosts ELSE HostsOf(x.sons)
      each == x.explode_hostgroup \/ (x.fathers.groups # {} /\ x.sons.groups = {})
      wanted == {[son |-> <<h, s>>, father |-> <<k, f>>] :
                   h \in sons \cap KnownHosts, s \in x.sonServices,
                   k \in HostsOf(x.fathers) \cap KnownHosts, f \in x.fatherServices}
      own == {[son |-> <<h, s>>, father |-> <<h, f>>] :
                h \in UNION {DependencyGroups[g] : g \in x.fathers.groups \ {"g9"}},
                s \in x.sonServices, f \in x.fatherServices}
  IN ~exploded.raises =>
       /\ links = IF each THEN own ELSE wanted
       /\ Linked(FoldSet(LAMBDA d, l : E!AddDependency(l, d), E!NoLinks(services), links), links)

-----------------------------------------------------------------------------
(* The realms of a host group and of its three hosts *)

RealmOf == [realm : {"All", "B", "C"}, default : BOOLEAN]
ValidRealm(r) == r.default => r.realm = "All"
RealmGroups ==
  {x \in [group : RealmOf, hosts : [1..3 -> RealmOf], forced : BOOLEAN] :
     ValidRealm(x.group) /\ \A h \in 1..3 : ValidRealm(x.hosts[h])}

\* A declared realm never changes; hosts without one are where the group is, unless it moved;
\* hosts of another realm than the declared one of the group are an error, and so are hosts of
\* two other realms when it has none.
RealmLinkRight(x) ==
  LET got == G!LinkifyRealms(x.forced, x.group, x.hosts, <<1, 2, 3>>)
      declared == {x.hosts[h].realm : h \in {h \in 1..3 : ~x.hosts[h].default}}
      others == declared \ {x.group.realm}
  IN /\ \A h \in 1..3 : ~x.hosts[h].default => got.hosts[h] = x.hosts[h]
     /\ ~x.group.default => (got.errors = {} <=> others = {}) /\ got.group = x.group
     /\ x.group.default /\ x.forced =>
          /\ got.errors = {} <=> Cardinality(others) <= 1
          /\ got.errors = {} /\ others # {} => others = {got.group.realm}
     /\ got.group = x.group /\ ~got.failed =>
          \A h \in 1..3 : x.hosts[h].default => got.hosts[h].realm = x.group.realm

-----------------------------------------------------------------------------
(* Command lines of macros and words, the values of which hold macros again *)

MacroNames ==
  [ARG1 |-> [kind |-> "ARGN", n |-> 1], ARG2 |-> [kind |-> "ARGN", n |-> 2],
   ARG9 |-> [kind |-> "ARGN", n |-> 9],
   HOSTNAME |-> [kind |-> "object"], USER1 |-> [kind |-> "object"],
   _HOSTV |-> [kind |-> "CUSTOM", type |-> "HOST", name |-> "V"],
   ONHOST |-> [kind |-> "ONDEMAND", prop |-> "HOSTNAME", host |-> "w2", service |-> ""],
   ONSERVICE |-> [kind |-> "ONDEMAND", prop |-> "SERVICESTATE", host |-> "", service |-> "a"]]

K == INSTANCE Macros WITH MaxLoops <- 5, Names <- MacroNames

\* Parts of a line: words, macros, and "$$"
Written(parts) ==
  FlattenSeq([k \in DOMAIN parts |->
    CASE parts[k] \in DOMAIN MacroNames -> <<"$", parts[k], "$">>
      [] parts[k] = "$$" -> <<"$", "$">>
      [] OTHER -> <<parts[k]>>])

LineParts == {"word"} \cup DOMAIN MacroNames
Values1 == {<<"x">>, <<"ARG2", "-", "USER1">>, <<"_HOSTV">>, <<"ARG2", "USER1">>, <<"$$">>, <<>>}
Values2 == {<<"y">>, <<"USER1">>, <<"ARG9">>}
OwnValues == {<<>>, <<<<"v">>>>, <<<<"USER1">>>>}
CommandLines ==
  [line : UNION {[1..n -> LineParts] : n \in 1..2} \cup {<<"ARG1", "word", "ARG1">>},
   arg1 : Values1, arg2 : Values2, own : OwnValues,
   active : SUBSET {"m1", "m2"}]

HostData(x) ==
  [type |-> "HOST", name |-> "w1", macros |-> [HOSTNAME |-> <<"w1">>],
   customs |-> IF x.own = <<>> THEN [W |-> <<"w">>] ELSE [V |-> Written(x.own[1]), W |-> <<"w">>],
   modulations |-> <<[active |-> FALSE, customs |-> [V |-> <<"m0">>]],
                     [active |-> "m1" \in x.active, customs |-> [V |-> <<"m1">>]],
                     [active |-> "m2" \in x.active, customs |-> [V |-> <<"m2">>]]>>]
ConfData ==
  [type |-> "CONFIG", name |-> "", macros |-> [USER1 |-> <<"u">>], customs |-> <<>>, modulations |-> <<>>]
KnownObjects ==
  {[type |-> "HOST", name |-> "w2", macros |-> [HOSTNAME |-> <<"w2">>]],
   [type |-> "SERVICE", name |-> <<"w1", "a">>, macros |-> [SERVICESTATE |-> <<"OK">>]]}

RECURSIVE Expanded(_, _)

\* Every macro stands for its value, and so do the macros in it; "$$" is a "$".
Expanded(x, parts) ==
  FlattenSeq([k \in DOMAIN parts |->
    CASE parts[k] = "ARG1" -> Expanded(x, x.arg1)
      [] parts[k] = "ARG2" -> Expanded(x, x.arg2)
      [] parts[k] = "_HOSTV" -> IF "m1" \in x.active THEN <<"m1">>
                                ELSE IF "m2" \in x.active THEN <<"m2">>
                                ELSE Expanded(x, FlattenSeq(x.own))
      [] parts[k] = "HOSTNAME" -> <<"w1">>
      [] parts[k] = "USER1" -> <<"u">>
      [] parts[k] = "ARG9" -> <<>>
      [] parts[k] = "ONHOST" -> <<"w2">>
      [] parts[k] = "ONSERVICE" -> <<"OK">>
      [] parts[k] = "$$" -> <<"$">>
      [] OTHER -> <<parts[k]>>])

LineResolved(x) ==
  K!Resolve(Written(x.line), <<HostData(x), ConfData>>, <<Written(x.arg1), Written(x.arg2)>>, KnownObjects)
  = Expanded(x, x.line)

\* Macros side by side in an argument, or macros whose values hold a "$" side by side: the "$$" in
\* the middle is taken for an escaped one.
SideBySide(x) ==
  LET HoldsDollar(part) == \/ part = "ARG1" /\ ToSet(x.arg1) \cap ({"$$"} \cup DOMAIN MacroNames) # {}
                           \/ part = "ARG2" /\ ToSet(x.arg2) \cap DOMAIN MacroNames # {}
                           \/ part = "_HOSTV" /\ x.own = <<<<"USER1">>>>
  IN \/ x.arg1 = <<"ARG2", "USER1">>
     \/ \E k \in 2..Len(x.line) : HoldsDollar(x.line[k - 1]) /\ HoldsDollar(x.line[k])

-----------------------------------------------------------------------------
(* The calls *)

Idle == [of |-> "nothing", with |-> {}]

Call(algorithm, inputs) ==
  call.of = "nothing" /\ \E x \in inputs : call' = [of |-> algorithm, with |-> x]

EvalRule == Call("rule", RuleTrees)
EvalTriple == Call("triple", TripleRules)
EvalMixed == Call("mixed rule", MixedRules) \/ Call("mixed expression", MixedExpressions)
EvalSearch == Call("search", DOMAIN Searches)
EvalExpression == Call("expression", FlatExpressions)
SearchPeriod == Call("period", TimePeriods)
SearchRange == Call("range", YearlessEntries)
Inherit == Call("inheritance", Inheritances)
ReadDefinitions == Call("definitions", Readings)
ExplodeGroups == Call("groups", GroupTrees)
ExplodeHosts == Call("hosts", HostLists)
ExplodeRealms == Call("realms", RealmTrees)
SearchLoops == Call("graph", Edges)
ExplodeServices == Call("services", DefinitionPairs)
ExplodeDependencies == Call("dependency", DependencyDefinitions)
LinkRealms == Call("realm link", RealmGroups)
ResolveMacros == Call("macros", CommandLines)
RunCommand == Call("command", C!Commands)
ParseLine == Call("line", Lines)
PatchLivestate == Call("livestate", Requests)
Return == call.of # "nothing" /\ call' = Idle

Init == call = Idle

Next ==
  \/ EvalRule \/ EvalTriple \/ EvalMixed \/ EvalSearch \/ EvalExpression \/ SearchPeriod \/ SearchRange
  \/ Inherit \/ ReadDefinitions \/ ExplodeGroups \/ ExplodeHosts
  \/ ExplodeRealms \/ SearchLoops \/ ExplodeServices \/ ExplodeDependencies \/ LinkRealms
  \/ ResolveMacros
  \/ RunCommand \/ ParseLine \/ PatchLivestate \/ Return

Spec == Init /\ [][Next]_call

Calls(algorithm) == call.of = algorithm

\* A business rule, and an expression over host groups, mean the formula that was written:
\* the nodes of eval_cor_pattern keep the operators, the negations, the parentheses, the
\* thresholds and the items that were named or searched. Operators mixed without parentheses
\* give no business rule, and in a group expression the last one counts for all the names.
ExpressionsMean ==
  [][/\ Calls("rule")' => RuleRight(call'.with)
     /\ Calls("triple")' => TripleRight(call'.with)
     /\ Calls("mixed rule")' => MixedRefused(call'.with)
     /\ Calls("mixed expression")' => MixedRight(call'.with)
     /\ Calls("search")' => SearchRight(call'.with)
     /\ Calls("expression")' => ExpressionRight(call'.with)]_call

\* get_next_valid_time_from_t gives the first valid time, get_next_invalid_time_from_t the
\* first invalid one, and get_start_and_end_time the days of an entry or the next ones: month
\* and year ends, weekdays counted from the end, and ranges over the new year included. The days
\* are claimed for calls about one year: a range keeps the year it was first asked about, and
\* gives the days of that year, or of the one its last call moved to, ever after.
TimesFound ==
  [][/\ Calls("period")' => PeriodRight(call'.with)
     /\ Calls("range")' => RangeRight(call'.with)]_call

\* Whatever was inherited before it, an item has the list that its own value and its templates
\* give it, its custom variables are the first ones given, and of the definitions of a name the one with the lowest order is kept.
Inherited ==
  /\ Calls("inheritance") => InheritanceRight(call.with)
  /\ Calls("definitions") => KeptRight(call.with)

\* After explode a group has the hosts of the groups in it and no other one, whatever the order
\* of the groups, unless a group without hosts has several group members; in a list of hosts
\* the last mention of a host decides. The realms of a group and of its hosts agree, or it is
\* an error; realms have those below them, and a loop of realms is found and cut.
GroupsExploded ==
  /\ Calls("realm link") => RealmLinkRight(call.with)
  /\ Calls("groups") /\ ~Shares(call.with) => \A g \in 1..3 : GroupRight(call.with, g)
  /\ Calls("hosts") => HostListRight(call.with)
  /\ Calls("realms") => RealmsRight(call.with)

\* A command is undone by its contrary, a changed value is marked as modified (but for the delay of
\* the first notification, which DELAY_HOST_NOTIFICATION changes silently), a handler gets
\* the elements of the line at their places, and a livestate becomes the state of the item.
CommandsRight ==
  /\ Calls("command") => CommandRight(call.with)
  /\ Calls("line") => LineRight(call.with)
  /\ Calls("livestate") => LivestateRight(call.with)

\* Every host gets the services that the definitions and templates declare for it, each one
\* once and from the definition that has precedence, and no service that it excludes.
ServicesMade == [][Calls("services")' => ServicesRight(call'.with)]_call

\* Every son of a dependency depends on every father and both know it, for checks, actions and
\* the graph; what a definition names and nobody knows is an error. A loop of dependencies is
\* found whatever node the search begins with, and hosts that are related are in one pack.
DependenciesLinked ==
  /\ Calls("dependency") => HostDependencyRight(call.with) /\ ServiceDependencyRight(call.with)
  /\ Calls("graph") => GraphRight(call.with)

\* The resolved line has the value of each macro and of the macros in values, unless two macros
\* are side by side in a value.
MacrosResolved == [][Calls("macros")' /\ ~SideBySide(call'.with) => LineResolved(call'.with)]_call
=============================================================================
