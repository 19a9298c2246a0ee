------------------------------- MODULE Realms -------------------------------
(***************************************************************************)
(* Realms: a realm has realms as members, or names the realms above it.    *)
(* explode looks for loops, linkify gives each realm its level and all of  *)
(* the realms below it, and one of them is the default. realms is the      *)
(* order of the dictionary, members a function to sequences of realms.     *)
(***************************************************************************)
EXTENDS Integers, Sequences, SequencesExt, FiniteSets, FiniteSetsExt

RECURSIVE GetRealmsByExplosion(_, _)

\* A member gave None: the realm loses all of its members, and gives None.
Cut(st, r) == [st EXCEPT !.members[r] = <<>>, !.looped = TRUE]

\* get_realms_by_explosion; looped says that it gave None. A realm that is met again is an
\* error, also when two realms have it.
GetRealmsByExplosion(st, r) ==
  LET Member(s, m) ==
        CASE s.looped \/ m \notin DOMAIN s.members -> s
          [] OTHER -> LET got == GetRealmsByExplosion(s, m)
                      IN IF got.looped THEN Cut(got, r) ELSE got
  IN IF r \in st.tagged THEN [st EXCEPT !.errors = @ \cup {r}, !.looped = TRUE]
     ELSE FoldLeft(Member, [st EXCEPT !.tagged = @ \cup {r}], st.members[r])

\* The realms that name higher realms become members of those.
AddHigher(members, higher, r) ==
  FoldLeft(LAMBDA ms, h : IF h \in DOMAIN ms THEN [ms EXCEPT ![h] = Append(@, r)] ELSE ms,
           members, higher[r])

\* explode
Explode(realms, members, higher) ==
  FoldLeft(LAMBDA st, r : GetRealmsByExplosion([st EXCEPT !.tagged = {}, !.looped = FALSE], r),
           [members |-> FoldLeft(LAMBDA ms, r : AddHigher(ms, higher, r), members, realms),
            tagged |-> {}, errors |-> {}, looped |-> FALSE],
           realms)

RECURSIVE SetLevel(_, _, _, _)

\* set_level, for st = [level, subs]
SetLevel(members, st, r, level) ==
  LET begun == [st EXCEPT !.level[r] = level, !.subs[r] = <<>>]
      Child(s, c) ==
        IF c \notin DOMAIN members THEN s
        ELSE LET below == SetLevel(members, [s EXCEPT !.subs[r] = Append(@, c)], c, level + 1)
             IN [below EXCEPT !.subs[r] =
                   @ \o SelectSeq(below.subs[c], LAMBDA g : g \notin ToSet(below.subs[r]))]
  IN FoldLeft(Child, begun, members[r])

\* linkify: from the realms that are members of no other one
Linkify(realms, members) ==
  FoldLeft(LAMBDA st, r :
             IF \E p \in ToSet(realms) \ {r} : r \in ToSet(members[p]) THEN st
             ELSE SetLevel(members, st, r, 0),
           [level |-> [r \in ToSet(realms) |-> 0], subs |-> [r \in ToSet(realms) |-> <<>>]],
           realms)

\* get_default, with the names as numbers: the default realm, the first by name of several or
\* of all; afterwards no other one is marked.
GetDefault(realms, marked) ==
  IF realms = {} THEN {} ELSE {Min(IF marked = {} THEN realms ELSE marked)}
=============================================================================
