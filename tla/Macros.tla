------------------------------- MODULE Macros -------------------------------
(***************************************************************************)
(* MacroResolver: the macros of a command line are replaced by their       *)
(* values, which may hold other macros, until none is left or the loop has *)
(* run too often. A line is a sequence of "$" and of words. data are the   *)
(* objects of the command in their order, the resolver and the             *)
(* configuration last: [type, name, macros, customs, modulations], where   *)
(* macros and customs are functions to lines.                              *)
(***************************************************************************)
EXTENDS Integers, Sequences, SequencesExt, FiniteSets, FiniteSetsExt

CONSTANTS MaxLoops,   \* 32 in the code
          Names       \* what a macro name says: [kind, ...], see GetValue

\* _get_macros, each one once in the order of the line: what is between two "$", and after the
\* last one if their number is odd. A "$$" is a macro without a name.
GetMacros(line) ==
  LET Add(macros, chunk) == IF chunk \in ToSet(macros) THEN macros ELSE Append(macros, chunk)
      Token(acc, t) ==
        IF t # "$" THEN [acc EXCEPT !.chunk = Append(@, t)]
        ELSE [in |-> ~acc.in, chunk |-> <<>>,
              macros |-> IF acc.in THEN Add(acc.macros, acc.chunk) ELSE acc.macros]
      end == FoldLeft(Token, [in |-> FALSE, chunk |-> <<>>, macros |-> <<>>], line)
  IN IF end.in THEN Add(end.macros, end.chunk) ELSE end.macros

\* _resolve_argn
ResolveArgn(n, args) == IF n \in DOMAIN args THEN args[n] ELSE <<>>

\* The last object that has the macro gives its type to it, in _get_type_of_macro.
ResolveObject(macro, data) ==
  LET with == {k \in DOMAIN data : macro \in DOMAIN data[k].macros}
  IN IF with = {} THEN <<>> ELSE data[Max(with)].macros[macro]

\* Mutant: the last active modulation is taken.
Modulated_Last(elt, name, value) ==
  LET active == {k \in DOMAIN elt.modulations :
                   elt.modulations[k].active /\ name \in DOMAIN elt.modulations[k].customs}
  IN IF active = {} THEN value ELSE elt.modulations[Max(active)].customs[name]

\* The first active modulation that has the macro changes its value.
Modulated(elt, name, value) ==
  LET active == {k \in DOMAIN elt.modulations :
                   elt.modulations[k].active /\ name \in DOMAIN elt.modulations[k].customs}
  IN IF active = {} THEN value ELSE elt.modulations[Min(active)].customs[name]

\* A custom macro: an element without any is skipped with its modulations.
ResolveCustom(type, name, data) ==
  LET Elt(value, elt) ==
        CASE elt.type # type \/ DOMAIN elt.customs = {} -> value
          [] OTHER -> Modulated(elt, name, IF name \in DOMAIN elt.customs THEN elt.customs[name] ELSE value)
  IN FoldLeft(Elt, <<>>, data)

\* The host of the data, for an on demand macro without a host
HostOf(data, name) ==
  LET hosts == {k \in DOMAIN data : data[k].type = "HOST"}
  IN IF name # "" \/ hosts = {} THEN name ELSE data[Max(hosts)].name

\* _resolve_ondemand: $SERVICE...:host:description$ or $HOST...:name$, in the known objects
ResolveOndemand(m, data, known) ==
  LET host == HostOf(data, m.host)
      services == {o \in known : o.type = "SERVICE" /\ o.name = <<host, m.service>>}
      others == {o \in known : o.type # "SERVICE" /\ o.name = host /\ m.prop \in DOMAIN o.macros}
      found == IF m.service # "" THEN services ELSE others
  IN IF found # {} THEN (CHOOSE o \in found : TRUE).macros[m.prop]
     ELSE IF m.service # "" THEN <<"n/a">> ELSE <<>>

\* _get_type_of_macro, and the value of one macro in a loop; known are the objects of the
\* configuration, a macro that is none of these is empty. The beginning of a name is enough for
\* an argument.
GetValue(chunk, data, args, known) ==
  LET macro == chunk[1]
      m == Names[macro]
  IN IF chunk = <<>> \/ macro \notin DOMAIN Names THEN <<>>
     ELSE CASE m.kind = "ARGN" -> ResolveArgn(m.n, args)
            [] m.kind # "ARGN" /\ Len(chunk) > 1 -> <<>>
            [] m.kind = "CUSTOM" /\ Len(chunk) = 1 -> ResolveCustom(m.type, m.name, data)
            [] m.kind = "ONDEMAND" /\ Len(chunk) = 1 -> ResolveOndemand(m, data, known)
            [] m.kind = "object" /\ Len(chunk) = 1 -> ResolveObject(macro, data)

RECURSIVE Replaced(_, _, _)

\* str.replace
Replaced(line, old, new) ==
  IF Len(line) < Len(old) THEN line
  ELSE IF SubSeq(line, 1, Len(old)) = old
  THEN new \o Replaced(SubSeq(line, Len(old) + 1, Len(line)), old, new)
  ELSE <<Head(line)>> \o Replaced(Tail(line), old, new)

\* One loop: all the macros are replaced one after the other, then a "$$" that is left is set
\* aside.
ResolveOnce(line, data, args, known) ==
  Replaced(FoldLeft(LAMBDA l, chunk : Replaced(l, <<"$">> \o chunk \o <<"$">>,
                                               GetValue(chunk, data, args, known)),
                    line, GetMacros(line)),
           <<"$", "$">>, <<"DOUBLEDOLLAR">>)

RECURSIVE Loops(_, _, _, _, _)
Loops(nb_loop, line, data, args, known) ==
  IF GetMacros(line) = <<>> \/ nb_loop > MaxLoops THEN line
  ELSE Loops(nb_loop + 1, ResolveOnce(line, data, args, known), data, args, known)

\* resolve_simple_macros_in_string
Resolve(line, data, args, known) ==
  Replaced(Loops(0, line, data, args, known), <<"DOUBLEDOLLAR">>, <<"$">>)
=============================================================================
