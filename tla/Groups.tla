------------------------------- MODULE Groups -------------------------------
(***************************************************************************)
(* Groups of hosts, services and contacts: a group has members and groups  *)
(* as members (hostgroup_members, ...); explode replaces the second by the *)
(* first. A group whose member list is empty takes the list object of its  *)
(* first group member, and not a copy: list says whose list a group holds, *)
(* content what is in it. The members are made unique afterwards: a list   *)
(* is the set of its elements.                                             *)
(***************************************************************************)
EXTENDS Sequences, SequencesExt

\* The groups as they are read, st is [list, content, tagged, exploded].
Read(members) ==
  [list |-> [g \in DOMAIN members |-> g], content |-> members, tagged |-> {}, exploded |-> {}]

\* get_hosts, get_services, get_contacts
GetMembers(st, g) == st.content[st.list[g]]

\* Mutant: a group that has members keeps them only.
AddMembers_First(st, g, child) ==
  IF GetMembers(st, g) = {} THEN [st EXCEPT !.list[g] = st.list[child]] ELSE st

\* add_members, with the list of a group that is a member
AddMembers(st, g, child) ==
  IF GetMembers(st, g) = {} THEN [st EXCEPT !.list[g] = st.list[child]]
  ELSE [st EXCEPT !.content[st.list[g]] = @ \cup GetMembers(st, child)]

RECURSIVE GetByExplosion(_, _, _)

\* get_hosts_by_explosion, get_services_by_explosion, get_contacts_by_explosion: a group
\* that is met again in one explosion is taken as it is (and reported as a loop); unknown
\* groups are skipped.
GetByExplosion(groups, st, g) ==
  LET entered == [st EXCEPT !.exploded = @ \cup {g}, !.tagged = @ \cup {g}]
      Child(s, c) ==
        IF c \notin DOMAIN groups THEN s ELSE AddMembers(GetByExplosion(groups, s, c), g, c)
  IN IF g \in st.tagged THEN [st EXCEPT !.exploded = @ \cup {g}]
     ELSE FoldLeft(Child, entered, groups[g])

\* explode: groups gives the group members, order the one of the dictionary.
Explode(groups, members, order) ==
  FoldLeft(LAMBDA st, g : IF g \in st.exploded THEN st
                          ELSE GetByExplosion(groups, [st EXCEPT !.tagged = {}], g),
           Read(members), order)

-----------------------------------------------------------------------------
(* linkify_hostgroups_hosts, linkify_contactgroups_contacts: "*" is every host, the rest    *)
(* must be known.                                                                           *)

LinkMembers(names, known) ==
  (names \cap known) \cup (IF "*" \in names THEN known ELSE {})

UnknownMembers(names, known) == names \ (known \cup {"*"})

-----------------------------------------------------------------------------
(* explode_host_groups_into_hosts: the hosts of the groups, then the names; "!name" removes *)
(* what came before it.                                                                     *)

Exploded(hosts, known) ==
  FoldLeft(LAMBDA names, h : CASE h.not -> names \ {h.name}
                               [] ~h.not /\ h.name = "*" -> names \cup known
                               [] OTHER -> names \cup {h.name},
           {}, hosts)

-----------------------------------------------------------------------------
(* linkify_hostgroups_realms_hosts: the realms of a group and of its hosts. group and hosts *)
(* are [realm, default], default when no realm was declared. A host without a realm takes   *)
(* the one of its group; a group without a realm takes the one of its hosts, if they agree. *)

\* One host, for acc = [group, hosts, errors, doubts, new, failed]
LinkRealm(forced, acc, h) ==
  LET host == acc.hosts[h]
      group == acc.group
  IN CASE acc.failed \/ (~host.default /\ host.realm = group.realm) -> acc
       [] ~acc.failed /\ host.default -> [acc EXCEPT !.hosts[h].realm = group.realm]
       [] ~acc.failed /\ ~host.default /\ host.realm # group.realm /\ ~group.default ->
            [acc EXCEPT !.errors = @ \cup {h}]
       [] OTHER ->
            [acc EXCEPT !.doubts = @ \cup {h},
                        !.new = IF forced /\ @ = "" THEN host.realm ELSE @,
                        !.errors = IF forced /\ acc.new \notin {"", host.realm} THEN @ \cup {h} ELSE @,
                        !.failed = forced /\ acc.new \notin {"", host.realm}]

\* The group moves when one realm was found; the hosts before it stay where they are.
LinkifyRealms(forced, group, hosts, order) ==
  LET acc == FoldLeft(LAMBDA a, h : LinkRealm(forced, a, h),
                      [group |-> group, hosts |-> hosts, errors |-> {}, doubts |-> {},
                       new |-> "", failed |-> FALSE], order)
  IN CASE ~forced \/ acc.failed -> acc
       [] forced /\ acc.new = "" -> [acc EXCEPT !.errors = @ \cup acc.doubts]
       [] OTHER -> [acc EXCEPT !.group.realm = acc.new]
=============================================================================
