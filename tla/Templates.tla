----------------------------- MODULE Templates ------------------------------
(***************************************************************************)
(* The objects of the configuration before they are exploded: which of     *)
(* several definitions of a name is kept, the templates an object uses,    *)
(* and the inheritance of a list property, where a value that begins with  *)
(* "+" adds to what the templates give, and of the custom variables.       *)
(* An object is "template" or "item"; get_property_by_inheritance writes   *)
(* the values it finds in the objects it goes through, so the state of     *)
(* the objects is passed along.                                            *)
(***************************************************************************)
EXTENDS Integers, Sequences, SequencesExt, FiniteSets, FiniteSetsExt, TLC

-----------------------------------------------------------------------------
(* Definitions with the same name. A definition is [name, order, uuid]; the index is a     *)
(* function from names to definitions, objects the ones that are kept.                     *)

\* manage_conflict: the lowest definition_order, the last definition if they are equal
ManageConflict(existing, item) == IF existing.order < item.order THEN existing ELSE item

\* index_item, index_template
Index(index, item) ==
  IF item.name \in DOMAIN index THEN ManageConflict(index[item.name], item) ELSE item

\* remove_item, remove_template, for the definition that is not kept
RemoveDefinition(objects, index, item) ==
  IF item.name \in DOMAIN index /\ Index(index, item) = item
  THEN objects \ {index[item.name]} ELSE objects

\* add_item, add_template
AddDefinition(st, item) ==
  LET kept == Index(st.index, item)
  IN [objects |-> RemoveDefinition(st.objects, st.index, item) \cup {kept},
      index |-> (item.name :> kept) @@ st.index]

\* add_items
AddDefinitions(items) ==
  FoldLeft(AddDefinition, [objects |-> {}, index |-> <<>>], items)

-----------------------------------------------------------------------------
(* Templates of an object *)

\* linkify_item_templates: unknown templates are skipped, an object that uses itself is an
\* error, a template counts once.
LinkifyItemTemplates(obj, use, templates) ==
  FoldLeft(LAMBDA ts, t : IF t \notin templates \/ t = obj \/ t \in ToSet(ts) THEN ts
                          ELSE Append(ts, t),
           <<>>, use)

RECURSIVE GetAllTags(_, _)

\* get_all_tags: the templates of the object and theirs; a loop would never end.
GetAllTags(uses, obj) ==
  ToSet(uses[obj]) \cup UNION {GetAllTags(uses, t) : t \in ToSet(uses[obj])}

-----------------------------------------------------------------------------
(* A list property. conf is [uses, template]; st is [attr, plus], functions on the objects *)
(* that have the value, or the additive value.                                             *)

Distinct(list) ==
  FoldLeft(LAMBDA seen, x : IF x \in ToSet(seen) THEN seen ELSE Append(seen, x), <<>>, list)

\* Mutant: a template loses its "+" too.
Clean_NoPlus(conf, obj, list) == SelectSeq(Distinct(list), LAMBDA x : x # "+")

\* Only a template keeps the "+" that its users look at.
Clean(conf, obj, list) ==
  IF conf.template[obj] THEN Distinct(list) ELSE SelectSeq(Distinct(list), LAMBDA x : x # "+")

IsAdditive(list) == list # <<>> /\ Head(list) = "+"

SetAttr(st, obj, value) == [st EXCEPT !.attr = (obj :> value) @@ @]

\* get_plus_and_delete
DeletePlus(st, obj) ==
  [st EXCEPT !.plus = [o \in DOMAIN @ \ {obj} |-> @[o]]]

\* The additive value of the object joins what it has, and the template that holds it stays
\* additive.
AddPlus(conf, st, obj, value) ==
  LET joined == value \o st.plus[obj]
      marked == IF conf.template[obj] /\ joined # <<>> /\ Head(joined) # "+"
                THEN <<"+">> \o joined ELSE joined
  IN SetAttr(DeletePlus(st, obj), obj, Clean(conf, obj, marked))

RECURSIVE GetPropertyByInheritance(_, _, _)

\* One template of the loop of get_property_by_inheritance
FromTemplate(conf, obj, acc, template) ==
  LET got == GetPropertyByInheritance(conf, acc.st, template)
      list == got.value
      kept == IF IsAdditive(list) /\ ~conf.template[obj] THEN Tail(list) ELSE list
      had == IF obj \in DOMAIN got.st.attr THEN got.st.attr[obj] ELSE <<>>
      joined == IF had # <<>> /\ IsAdditive(kept) THEN had \o Tail(kept) ELSE had \o kept
      set == SetAttr(got.st, obj, Clean(conf, obj, joined))
  IN CASE acc.done -> acc
       [] ~acc.done /\ list = <<>> -> [acc EXCEPT !.st = got.st]
       [] ~acc.done /\ IsAdditive(list) -> [acc EXCEPT !.st = set]
       [] OTHER -> [st |-> IF obj \in DOMAIN set.plus
                           THEN AddPlus(conf, set, obj, set.attr[obj]) ELSE set,
                    done |-> TRUE]

\* get_property_by_inheritance; no value is the empty list.
GetPropertyByInheritance(conf, st, obj) ==
  LET Value(s) == IF obj \in DOMAIN s.attr THEN s.attr[obj] ELSE <<>>
      looped == FoldLeft(LAMBDA acc, t : FromTemplate(conf, obj, acc, t),
                         [st |-> st, done |-> FALSE], conf.uses[obj]).st
      added == IF obj \in DOMAIN looped.plus THEN AddPlus(conf, looped, obj, Value(looped))
               ELSE looped
  IN IF obj \in DOMAIN st.attr THEN [st |-> st, value |-> Clean(conf, obj, st.attr[obj])]
     ELSE [st |-> added, value |-> Value(added)]

\* apply_partial_inheritance: the items, then the templates, in the order of their definitions
ApplyPartialInheritance(conf, st, order) ==
  FoldLeft(LAMBDA s, obj : GetPropertyByInheritance(conf, s, obj).st, st, order)

-----------------------------------------------------------------------------
(* Custom variables. st is [customs, plus, lists]: customs and plus, the values of an object *)
(* by name. A "_NAME" is always a string and never additive; what is still in plus when the  *)
(* properties are done is a list under a name nobody knows. lists has the elements of a list  *)
(* by its identity, for an object and its users share the one that is inherited.             *)

\* value.insert(0, obj.get_plus_and_delete(prop)), if the object has a "+" there
TakePlus(st, obj, prop, value) ==
  IF prop \notin DOMAIN st.plus[obj] THEN st
  ELSE [st EXCEPT !.lists[value] = <<st.plus[obj][prop]>> \o @,
                  !.plus[obj] = [p \in DOMAIN @ \ {prop} |-> @[p]]]

SetCustom(st, obj, prop, value) ==
  [TakePlus(st, obj, prop, value) EXCEPT !.customs[obj] = (prop :> value) @@ @]

RECURSIVE GetCustoms(_, _, _)

\* One template of the loop: what the object has counts, then what the template has.
CustomsFrom(conf, st, obj, template) ==
  LET theirs == GetCustoms(conf, st, template)
  IN FoldSet(LAMBDA prop, s : SetCustom(s, obj, prop, (s.customs[obj] @@ s.customs[template])[prop]),
             theirs, DOMAIN theirs.customs[template])

\* get_customs_properties_by_inheritance: the templates in their order, then the "+" of the
\* variables the object has, then the other ones become variables.
GetCustoms(conf, st, obj) ==
  LET inherited == FoldLeft(LAMBDA s, t : CustomsFrom(conf, s, obj, t), st, conf.uses[obj])
      added == FoldSet(LAMBDA prop, s : SetCustom(s, obj, prop, s.customs[obj][prop]),
                       inherited, DOMAIN inherited.customs[obj])
  IN [added EXCEPT !.customs[obj] = added.plus[obj] @@ @, !.plus[obj] = <<>>]

\* apply_inheritance, after the properties: the items, then the templates
ApplyCustoms(conf, st, order) == FoldLeft(LAMBDA s, obj : GetCustoms(conf, s, obj), st, order)
=============================================================================
