------------------------------ MODULE Services ------------------------------
(***************************************************************************)
(* The services of a configuration. A definition names hosts, or is a      *)
(* template that names templates of hosts; Services.explode makes of it    *)
(* one service per host, and of one with a duplicate_foreach one service   *)
(* per key of the host. items are the services there are, index is         *)
(* name_to_item: (host, description) to a service, which is what the       *)
(* service groups and the dependencies are looked up in.                   *)
(***************************************************************************)
EXTENDS Integers, Sequences, SequencesExt, FiniteSets, FiniteSetsExt, TLC

\* A host name to [tags, includes, excludes, keys, notKeys]: the templates it uses, its
\* service_includes and service_excludes, and the keys of its generator and of the "!" one.
CONSTANT Hosts

LOCAL G == INSTANCE Groups

\* is_excluded_for, is_excluded_for_sdesc
IsExcludedFor(host, desc, template) ==
  IF ~template /\ Hosts[host].includes # {} THEN desc \notin Hosts[host].includes
  ELSE desc \in Hosts[host].excludes

\* The description has a "$KEY$" in it when there is a duplicate_foreach.
Description(d) == IF d.foreach THEN <<d.desc, "$KEY$">> ELSE <<d.desc>>

\* The service of a definition on a host
Service(d, host, desc) ==
  [of |-> d.name, host |-> host, desc |-> desc, order |-> d.order,
   foreach |-> desc[Len(desc)] = "$KEY$", groups |-> d.groups]

IndexKey(s) == <<s.host, s.desc>>

\* manage_conflict keeps the service that is indexed.
KeepsExisting(st, s) ==
  IndexKey(s) \in DOMAIN st.index /\ st.index[IndexKey(s)].order < s.order

\* index_item: the service that has the name is removed, or keeps it.
IndexItem(st, s) ==
  IF KeepsExisting(st, s) THEN st
  ELSE [st EXCEPT !.items = {i \in @ : IndexKey(s) \in DOMAIN st.index => i # st.index[IndexKey(s)]},
                  !.index = (IndexKey(s) :> s) @@ @]

\* add_item
AddItem(st, s) ==
  LET indexed == IndexItem(st, s)
  IN [indexed EXCEPT !.items = @ \cup {indexed.index[IndexKey(s)]}]

\* remove_item: the index is by host and description, and unindex_item looks for the
\* description alone, so nothing leaves it.
RemoveItem(st, s) == [st EXCEPT !.items = @ \ {s}]

\* A copy for a host, unless the host excludes it
CopyFor(st, d, host, template) ==
  IF IsExcludedFor(host, Description(d), template) THEN st
  ELSE AddItem(st, Service(d, host, Description(d)))

\* explode_services_from_hosts: the error of an unknown host is one of the definition, which
\* is removed.
ExplodeServicesFromHosts(st, d, names) ==
  FoldSet(LAMBDA h, s : CopyFor(s, d, h, FALSE), st, names \cap DOMAIN Hosts)

\* A definition that is not a template, in explode: with one host it is the service itself,
\* whatever is indexed and excluded.
ExplodeDefinition(st, d) ==
  LET names == G!Exploded(d.hosts, DOMAIN Hosts)
      One(h) == LET s == Service(d, h, Description(d))
                IN IndexItem([st EXCEPT !.items = @ \cup {s}], s)
  IN IF Cardinality(names) = 1 THEN One(CHOOSE h \in names : TRUE)
     ELSE ExplodeServicesFromHosts(st, d, names)

\* Mutant: the hosts that use the first template only
HostsThatUse_First(d) == {h \in DOMAIN Hosts : d.hosts # <<>> /\ d.hosts[1].name \in Hosts[h].tags}

\* find_hosts_that_use_template, for the templates that host_name lists
HostsThatUse(d) == {h \in DOMAIN Hosts : \E k \in DOMAIN d.hosts : d.hosts[k].name \in Hosts[h].tags}

\* explode_services_from_templates, _local_create_service
ExplodeServicesFromTemplates(st, d) ==
  FoldSet(LAMBDA h, s : CopyFor(s, d, h, TRUE), st, HostsThatUse(d))

\* explode_services_duplicates, duplicate: a service with an unknown host has an error and stays.
ExplodeServicesDuplicates(st, d, s) ==
  LET Key(acc, key) ==
        IF key \in Hosts[s.host].notKeys \/ IsExcludedFor(s.host, <<d.desc, key>>, FALSE) THEN acc
        ELSE AddItem(acc, Service(d, s.host, <<d.desc, key>>))
  IN IF s.host \notin DOMAIN Hosts THEN st
     ELSE RemoveItem(FoldLeft(Key, st, Hosts[s.host].keys), s)

\* Services that the host excludes are removed in the end.
RemoveExcluded(st) ==
  FoldSet(LAMBDA s, acc : RemoveItem(acc, s), st,
          {s \in st.items : s.host \in DOMAIN Hosts /\ IsExcludedFor(s.host, s.desc, FALSE)})

\* explode: the definitions, the templates, the generators, the exclusions
Explode(definitions) ==
  LET plain == FoldLeft(ExplodeDefinition, [items |-> {}, index |-> <<>>],
                        SelectSeq(definitions, LAMBDA d : ~d.template))
      all == FoldLeft(ExplodeServicesFromTemplates, plain,
                      SelectSeq(definitions, LAMBDA d : d.template))
      Definition(s) == CHOOSE d \in ToSet(definitions) : d.name = s.of
      generated == FoldSet(LAMBDA s, acc : ExplodeServicesDuplicates(acc, Definition(s), s),
                           all, {s \in all.items : s.foreach})
  IN RemoveExcluded(generated)

\* linkify_s_by_hst and clean: a service whose host is unknown has a warning, and is deleted.
Clean(st) == [st EXCEPT !.items = {s \in @ : s.host \in DOMAIN Hosts}]

\* find_srv_by_name_and_hostname
Find(st, key) == IF key \in DOMAIN st.index THEN {st.index[key]} ELSE {}

-----------------------------------------------------------------------------
(* Service groups: their members are a list of hosts and descriptions, in turn. *)

\* register_service_into_servicegroups, with add_member of the groups
RegisterServiceIntoServicegroups(members, s) ==
  FoldLeft(LAMBDA ms, g : IF g \in DOMAIN ms THEN [ms EXCEPT ![g] = @ \o <<s.host, s.desc>>]
                          ELSE (g :> <<s.host, s.desc>>) @@ ms,
           members, s.groups)

\* linkify_servicegroups_services: the services found, the pairs that are unknown; it raises
\* when a service that was found is not one any more.
LinkifyServicegroup(st, members) ==
  LET pairs == {<<members[2 * k - 1], members[2 * k]>> : k \in 1..(Len(members) \div 2)}
      excluded == {p \in pairs : p[1] \in DOMAIN Hosts /\ IsExcludedFor(p[1], p[2], FALSE)}
      found == UNION {Find(st, p) : p \in pairs}
  IN IF Len(members) = 1 THEN [members |-> {}, unknown |-> {members}, raises |-> FALSE]
     ELSE [members |-> found,
           unknown |-> {p \in pairs \ excluded : Find(st, p) = {}},
           raises |-> ~(found \subseteq st.items)]
=============================================================================
