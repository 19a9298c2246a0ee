---------------------------- MODULE Dependencies ----------------------------
(***************************************************************************)
(* Host and service dependencies: a definition names hosts and groups of   *)
(* hosts on both sides, fathers and sons. explode makes one dependency of  *)
(* each pair, linkify looks up what it names and tells both sides.         *)
(* Services are pairs of a host and a description; groups is a function    *)
(* from the known host groups to their hosts.                              *)
(***************************************************************************)
EXTENDS Sequences, SequencesExt, FiniteSets, FiniteSetsExt

\* The hosts of one side, and the groups of it that are not known
SideHosts(groups, side) ==
  side.hosts \cup UNION {groups[g] : g \in side.groups \cap DOMAIN groups}

UnknownGroups(groups, side) == side.groups \ DOMAIN groups

\* Hostdependencies.explode: a definition without sons stays as it is.
ExplodeHostDependency(groups, dep) ==
  [deps |-> {[son |-> s, father |-> f] :
               s \in SideHosts(groups, dep.sons), f \in SideHosts(groups, dep.fathers)},
   stays |-> SideHosts(groups, dep.sons) = {},
   errors |-> UnknownGroups(groups, dep.sons) \cup UnknownGroups(groups, dep.fathers)]

\* linkify_host_dep_by_host: a host that is not known is an error of the dependency.
LinkifyHostDependency(hosts, d) ==
  [link |-> IF {d.son, d.father} \subseteq hosts THEN {d} ELSE {},
   errors |-> {d.son, d.father} \ hosts]

-----------------------------------------------------------------------------
(* Service dependencies *)

\* explode_hostgroup: each host of the groups depends on itself, and an unknown group is an error.
ExplodeHostgroup(groups, dep) ==
  [deps |-> {[son |-> <<h, s>>, father |-> <<h, f>>] :
               h \in UNION {groups[g] : g \in dep.fathers.groups \cap DOMAIN groups},
               s \in dep.sonServices, f \in dep.fatherServices},
   errors |-> UnknownGroups(groups, dep.fathers), raises |-> FALSE]

\* Mutant: the sons of a dependency without a dependent host are of the group only.
SonSide_NoHost(dep) == dep.sons

\* A dependency without a dependent host is one of the hosts of its fathers.
SonSide(dep) ==
  IF dep.sons.hosts = {} THEN [dep.sons EXCEPT !.hosts = dep.fathers.hosts] ELSE dep.sons

\* Servicedependencies.explode: groups without dependent groups are exploded host by host. An
\* unknown group raises, since the error is added to the group that was not found, and so does
\* explode_hostgroup without a group.
ExplodeServiceDependency(groups, dep) ==
  LET byHost == dep.explode_hostgroup \/ (dep.fathers.groups # {} /\ dep.sons.groups = {})
      bad == IF byHost THEN dep.fathers.groups = {}
             ELSE UnknownGroups(groups, dep.fathers) \cup UnknownGroups(groups, dep.sons) # {}
      couples == {[son |-> <<h, s>>, father |-> <<k, f>>] :
                    h \in SideHosts(groups, SonSide(dep)), s \in dep.sonServices,
                    k \in SideHosts(groups, dep.fathers), f \in dep.fatherServices}
  IN CASE bad -> [deps |-> {}, errors |-> {}, raises |-> TRUE]
       [] ~bad /\ byHost -> ExplodeHostgroup(groups, dep)
       [] OTHER -> [deps |-> couples, errors |-> {}, raises |-> FALSE]

\* linkify_svc_dep_by_service: services that are unknown are an error, unless the host excludes
\* them; the dependency is removed in both cases. The son is looked up first.
LinkifyServiceDependency(services, excluded, d) ==
  LET missing == IF d.son \notin services THEN {d.son} ELSE {d.father} \ services
  IN [link |-> IF missing = {} THEN {d} ELSE {}, errors |-> missing \ excluded]

-----------------------------------------------------------------------------
(* The links: add_act_dependency, add_chk_dependency *)

NoLinks(items) ==
  [act_depend_of |-> [i \in items |-> {}], act_depend_of_me |-> [i \in items |-> {}],
   chk_depend_of |-> [i \in items |-> {}], chk_depend_of_me |-> [i \in items |-> {}],
   parents |-> [i \in items |-> {}], children |-> [i \in items |-> {}]]

AddActDependency(l, son, father) ==
  [l EXCEPT !.act_depend_of[son] = @ \cup {father}, !.act_depend_of_me[father] = @ \cup {son},
            !.parents[son] = @ \cup {father}, !.children[father] = @ \cup {son}]

AddChkDependency(l, son, father) ==
  [l EXCEPT !.chk_depend_of[son] = @ \cup {father}, !.chk_depend_of_me[father] = @ \cup {son},
            !.parents[son] = @ \cup {father}, !.children[father] = @ \cup {son}]

\* linkify_host_by_host_dep, linkify_service_by_svc_dep
AddDependency(l, d) == AddChkDependency(AddActDependency(l, d.son, d.father), d.son, d.father)
=============================================================================
