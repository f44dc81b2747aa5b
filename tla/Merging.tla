------------------------------- MODULE Merging --------------------------------
(***************************************************************************)
(* The two functions on values the reducer decides with                    *)
(* (bindings/rust/src/evaluate.rs): merge_state_value overlays what was    *)
(* observed on what the model says, structural_difference compares the     *)
(* two. Alternatives has them decide on the outcome of an action.          *)
(***************************************************************************)
EXTENDS Values, Functions

CONSTANTS
  Value, \* every value that is observed, assigned or the result of a merge
  Depth(_) \* how deep a value is nested

Tags == {"int", "text", "bool", "set", "absent", "record", "map", "list", "tuple", "present"}

\* A value has one of the kinds, with the contents of that kind.
Formed(v) ==
  \/ \E kind \in Tags : Is(kind, v) /\ v = [field \in {kind} |-> v[kind]]
  \/ Is("tag", v) /\ v = [tag |-> v.tag, value |-> v.value]

IsMapping(f) == f = [x \in DOMAIN f |-> f[x]]

\* The values directly inside a value. Keys of maps and items of sets are only
\* compared.
Inside(v) ==
  CASE Is("record", v) -> Range(v.record)
    [] Is("map", v) -> Range(v.map)
    [] Is("list", v) -> Range(v.list)
    [] Is("tuple", v) -> Range(v.tuple)
    [] Is("tag", v) -> {v.value}
    [] Is("present", v) -> {v.present}
    [] OTHER -> {}

ASSUME ValueAssumption ==
  \A v \in Value :
    /\ Depth(v) \in Nat
    /\ Formed(v)
    /\ \A w \in Inside(v) : w \in Value /\ Depth(w) < Depth(v)
    /\ Is("record", v) => IsMapping(v.record)
    /\ Is("map", v) => IsMapping(v.map)
    /\ Is("list", v) => v.list \in Seq(Value)
    /\ Is("tuple", v) => v.tuple \in Seq(Value)

-----------------------------------------------------------------------------
\* The entries an observed map, or a record in the place of a map, stands for.
Entries(v) ==
  IF Is("map", v) THEN v.map
  ELSE [key \in {Text(name) : name \in DOMAIN v.record} |-> v.record[key.text]]

\* The parts of a merge. `merge` is the function itself, for what is inside.
SameLength(items, update) == Len(items) = Len(update)

MergeItems(merge, items, update) == [i \in DOMAIN items |-> merge[items[i]][update[i]]]

\* Fault: what the model says of a field is not overwritten.
KeepModelFields(merge, fields, update) ==
  [name \in DOMAIN fields \cup DOMAIN update |->
     IF name \in DOMAIN fields THEN fields[name] ELSE update[name]]

\* Both halves of a record survive: what was not observed is the model's.
MergeFields(merge, fields, update) ==
  [name \in DOMAIN fields \cup DOMAIN update |->
     CASE name \notin DOMAIN update -> fields[name]
       [] name \notin DOMAIN fields -> update[name]
       [] OTHER -> merge[fields[name]][update[name]]]

\* A map has the entries that were observed and no others.
MergeEntries(merge, entries, update) ==
  [key \in DOMAIN update |->
     IF key \in DOMAIN entries THEN merge[entries[key]][update[key]] ELSE update[key]]

MergeParts(merge, v, update) ==
  CASE Is("map", v) /\ (Is("map", update) \/ Is("record", update)) ->
         [map |-> MergeEntries(merge, v.map, Entries(update))]
    [] Both("record", v, update) ->
         [record |-> MergeFields(merge, v.record, update.record)]
    [] Both("list", v, update) /\ SameLength(v.list, update.list) ->
         [list |-> MergeItems(merge, v.list, update.list)]
    [] Both("tuple", v, update) /\ SameLength(v.tuple, update.tuple) ->
         [tuple |-> MergeItems(merge, v.tuple, update.tuple)]
    [] Both("tag", v, update) /\ v.tag = update.tag ->
         [tag |-> v.tag, value |-> merge[v.value][update.value]]
    [] Both("present", v, update) ->
         [present |-> merge[v.present][update.present]]
    [] OTHER -> update

\* merge_state_value
Merging(domain) ==
  LET merge[v \in domain] == [update \in domain |-> MergeParts(merge, v, update)] IN merge

Merge(v, update) == Merging(Value)[v][update]

\* Merging is only ever asked for values, and answers with one.
ASSUME MergedIsValue == \A v, update \in Value : Merge(v, update) \in Value

-----------------------------------------------------------------------------
\* Fault: entries only one side has are not compared.
EqualCommonEntries(equals, entries, others) ==
  \A k \in DOMAIN entries \cap DOMAIN others : equals[entries[k]][others[k]]

EqualEntries(equals, entries, others) ==
  DOMAIN entries = DOMAIN others /\ \A k \in DOMAIN entries : equals[entries[k]][others[k]]

EqualItems(equals, items, others) ==
  Len(items) = Len(others) /\ \A i \in DOMAIN items : equals[items[i]][others[i]]

EqualParts(equals, v, w) ==
  CASE Both("record", v, w) -> EqualEntries(equals, v.record, w.record)
    [] Both("present", v, w) -> equals[v.present][w.present]
    [] Both("list", v, w) -> EqualItems(equals, v.list, w.list)
    [] Both("map", v, w) -> EqualEntries(equals, v.map, w.map)
    [] OTHER -> v = w

\* structurally_equal: structural_difference finds nothing.
Equality(domain) ==
  LET equals[v \in domain] == [w \in domain |-> EqualParts(equals, v, w)] IN equals

Equal(v, w) == Equality(Value)[v][w]

-----------------------------------------------------------------------------
\* What an observation says of a value: a record speaks for the fields it has,
\* every other value for itself, and a record for a map where its keys are texts.
SaysParts(says, o, v) ==
  CASE Both("record", o, v) ->
         /\ DOMAIN o.record \subseteq DOMAIN v.record
         /\ \A name \in DOMAIN o.record : says[o.record[name]][v.record[name]]
    [] Is("map", v) /\ (Is("map", o) \/ Is("record", o)) ->
         /\ DOMAIN Entries(o) = DOMAIN v.map
         /\ \A key \in DOMAIN v.map : says[Entries(o)[key]][v.map[key]]
    [] Both("list", o, v) ->
         Len(o.list) = Len(v.list) /\ \A i \in DOMAIN o.list : says[o.list[i]][v.list[i]]
    [] Both("tuple", o, v) ->
         Len(o.tuple) = Len(v.tuple) /\ \A i \in DOMAIN o.tuple : says[o.tuple[i]][v.tuple[i]]
    [] Both("tag", o, v) -> o.tag = v.tag /\ says[o.value][v.value]
    [] Both("present", o, v) -> says[o.present][v.present]
    [] OTHER -> o = v

Saying(domain) ==
  LET says[o \in domain] == [v \in domain |-> SaysParts(says, o, v)] IN says

Says(o, v) == Saying(Value)[o][v]

\* An observation that leaves nothing of a value out.
WholeParts(whole, o, v) ==
  CASE Both("record", o, v) ->
         /\ DOMAIN v.record \subseteq DOMAIN o.record
         /\ \A name \in DOMAIN v.record : whole[o.record[name]][v.record[name]]
    [] Both("map", o, v) ->
         \A key \in DOMAIN o.map \cap DOMAIN v.map : whole[o.map[key]][v.map[key]]
    [] Both("list", o, v) /\ Len(o.list) = Len(v.list) ->
         \A i \in DOMAIN o.list : whole[o.list[i]][v.list[i]]
    [] Both("tuple", o, v) /\ Len(o.tuple) = Len(v.tuple) ->
         \A i \in DOMAIN o.tuple : whole[o.tuple[i]][v.tuple[i]]
    [] Both("tag", o, v) -> o.tag = v.tag => whole[o.value][v.value]
    [] Both("present", o, v) -> whole[o.present][v.present]
    [] OTHER -> ~(Is("map", v) /\ Is("record", o))

Wholeness(domain) ==
  LET whole[o \in domain] == [v \in domain |-> WholeParts(whole, o, v)] IN whole

Whole(o, v) == Wholeness(Value)[o][v]

=============================================================================
