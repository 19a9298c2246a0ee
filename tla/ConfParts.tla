----------------------------- MODULE ConfParts -----------------------------
(***************************************************************************)
(* How the arbiter cuts the configuration into parts and gives each part   *)
(* to a scheduler and to satellites: the hosts that depend on each other   *)
(* form a pack, the packs of a realm are dealt to its schedulers, and      *)
(* prepare_dispatch then chooses the links. Everything here is a function  *)
(* of the configuration: hosts, their relations, realms and links.         *)
(***************************************************************************)
EXTENDS SequencesExt, FiniteSetsExt

NoLink == "no link"   \* scheduler_link = None

-----------------------------------------------------------------------------
(* The realm of a pack of hosts (DependencyGraph computes the packs), from *)
(* create_packs.                                                           *)

\* No host of it has one: the default
\* realm; two different ones: an error, the pack is in no realm.
PackRealm(pack, realmOf, default, noRealm) ==
  LET realms == {realmOf[h] : h \in pack} \ {noRealm}
  IN  CASE realms = {}              -> default
        [] Cardinality(realms) = 1  -> CHOOSE r \in realms : TRUE
        [] OTHER                    -> noRealm

-----------------------------------------------------------------------------
(* Dealing the packs of a realm to its schedulers, create_packs again.     *)

\* Weighted round robin: each scheduler once for every point of its weight.
WeightList(schedulers, weight) ==
  FlattenSeq([i \in 1..Len(schedulers) |-> [j \in 1..weight[schedulers[i]] |-> i]])

\* One pack. i = 0 stands for the integer i left by the loop that created
\* the packs: the first pack always takes the next index of the round robin.
\* Afterwards the same index is kept until its part is as large as the
\* largest one seen.
DealPack(acc, pack, wheel) ==
  LET size == Len(acc.packs[acc.i]) + Cardinality(pack)
      turn == acc.i = 0 \/ size >= acc.highest
      i    == IF turn THEN wheel[(acc.turns % Len(wheel)) + 1] ELSE acc.i
  IN  [packs   |-> [acc.packs EXCEPT ![i] = @ \o SetToSeq(pack)],
       i       |-> i,
       turns   |-> IF turn THEN acc.turns + 1 ELSE acc.turns,
       highest |-> IF acc.i # 0 /\ turn THEN size ELSE acc.highest]

\* packs: index of the scheduler -> the hosts of its part; 0 collects nothing.
DealPacks(packs, schedulers, weight) ==
  LET wheel == WeightList(schedulers, weight)
      start == [packs |-> [i \in 0..Len(schedulers) |-> <<>>], i |-> 0,
                turns |-> 0, highest |-> 0]
  IN  FoldLeft(LAMBDA acc, p : DealPack(acc, p, wheel), start, packs).packs

\* cut_into_parts: a realm has one part for each of its schedulers, spares
\* included, or one when it only has potential ones.
PartCount(realm) ==
  IF realm.schedulers # {} THEN Cardinality(realm.schedulers)
  ELSE IF realm.potentials # {} THEN 1 ELSE 0

-----------------------------------------------------------------------------
(* prepare_dispatch. A realm is a record: parts (a sequence), schedulers   *)
(* and potentials (sets of links), sats and potsats (satellite type -> set *)
(* of links).                                                              *)

\* util.master_then_spare
MasterThenSpare(links, spares) ==
  SelectSeq(links, LAMBDA l : l \notin spares) \o SelectSeq(links, LAMBDA l : l \in spares)

\* Realm.get_potential_satellites_by_type
Potential(links, own, potentials) ==
  LET mine == SelectSeq(links, LAMBDA l : l \in own)
  IN  IF mine # <<>> THEN mine ELSE SelectSeq(links, LAMBDA l : l \in potentials)

\* A part takes the last scheduler of the pool that still needs a
\* configuration; those skipped are gone for the next parts.
AssignPart(acc, part) ==
  LET usable == {i \in 1..Len(acc.pool) : acc.pool[i] \notin DOMAIN acc.toManage}
      last   == Max(usable)
  IN  IF usable = {}
      THEN [acc EXCEPT !.pool = <<>>, !.needs = @ \ {part}, !.seen = @ \cup {part}]
      ELSE [acc EXCEPT !.pool     = SubSeq(@, 1, last - 1),
                       !.owner    = [@ EXCEPT ![part] = acc.pool[last]],
                       !.toManage = (acc.pool[last] :> part) @@ @,
                       !.needs    = @ \cup {part},
                       !.seen     = @ \cup {part}]

\* The satellites of one type for one part: every potential one gets it. A
\* part without a scheduler ends prepare_dispatch ("return").
GiveSatellites(acc, part, type, realm, satellites) ==
  IF acc.returned \/ part \notin acc.needs
  THEN [acc EXCEPT !.returned = TRUE]
  ELSE LET got == ToSet(Potential(satellites, realm.sats[type], realm.potsats[type]))
       IN  [acc EXCEPT !.managedBy[part][type] = got,
                       !.given = [s \in DOMAIN @ |-> IF s \in got THEN @[s] \cup {part}
                                                                  ELSE @[s]]]

PrepareRealm(acc, realm, schedulers, satellites, types) ==
  LET pool     == Potential(schedulers, realm.schedulers, realm.potentials)
      assigned == FoldLeft(AssignPart, [acc EXCEPT !.pool = pool], realm.parts)
      pairs    == FlattenSeq([i \in 1..Len(realm.parts) |->
                    [j \in 1..Len(types) |-> <<realm.parts[i], types[j]>>]])
  IN  IF acc.returned \/ realm.parts = <<>> \/ pool = <<>>
      THEN acc
      ELSE FoldLeft(LAMBDA a, pt : GiveSatellites(a, pt[1], pt[2], realm, satellites),
                    assigned, pairs)

\* owner: part -> scheduler_link; given: satellite -> the parts of its
\* configuration; managedBy: part -> type -> to_satellites_managed_by.
PrepareDispatch(realms, schedulers, spares, satellites, types) ==
  LET parts == UNION {ToSet(realms[i].parts) : i \in 1..Len(realms)}
      start == [pool |-> <<>>, owner |-> [p \in parts |-> NoLink], toManage |-> <<>>,
                needs |-> {}, seen |-> {}, returned |-> FALSE,
                managedBy |-> [p \in parts |-> [t \in ToSet(types) |-> {}]],
                given |-> [s \in ToSet(satellites) |-> {}]]
  IN  FoldLeft(LAMBDA acc, r : PrepareRealm(acc, r, MasterThenSpare(schedulers, spares),
                                            satellites, types),
               start, realms)
=============================================================================
