------------------------------- MODULE MCValues ------------------------------
(***************************************************************************)
(* Values of every kind, two levels deep: containers of numbers, and       *)
(* containers of those; and the values these are merged to.                *)
(***************************************************************************)
EXTENDS Merging, SequencesExt

CONSTANT p, q \* field names and texts

\* Functions from some of the keys.
Some(keys, inner) == UNION {[some -> inner] : some \in SUBSET keys}

Records(fields) == {[record |-> f] : f \in fields}
Maps(entries) == {[map |-> f] : f \in entries}

\* Containers of some values; of few where there is room for several.
Containers(inner, few) ==
  Records(Some({p, q}, inner))
    \cup Maps(Some({Text(p), Text(q)}, few) \cup [{[int |-> 0]} -> inner])
    \cup {[list |-> s] : s \in BoundedSeq(few, 2)}
    \cup {[tuple |-> <<v, w>>] : v \in inner, w \in few}
    \cup {[set |-> s] : s \in SUBSET few}
    \cup {[tag |-> t, value |-> v] : t \in {"A", "B"}, v \in inner}
    \cup {[present |-> v] : v \in inner}
    \cup {[absent |-> TRUE]}

Numbers == {[int |-> 0], [int |-> 1]}
Flat == Numbers \cup {Text(p)} \cup Containers(Numbers, Numbers)

\* One or two values of each kind to put inside others.
Inner ==
  {[int |-> 0], [record |-> <<>>], [map |-> <<>>], [absent |-> TRUE]}
    \cup Records([{p, q} -> {[int |-> 0]}] \cup [{p} -> Numbers])
    \cup Maps([{Text(p)} -> {[int |-> 0]}])
    \cup {[list |-> <<[int |-> 0]>>], [present |-> [int |-> 0]],
          [tag |-> "A", value |-> [int |-> 0]]}

Few == {[record |-> <<>>]} \cup Records([{p} -> Numbers])

\* What may be observed or assigned, and what these are merged to: inside, a
\* record may have gained the fields of another, and a map the entries of a record.
MCReported == Flat \cup Containers(Inner, Few)

MergedInner ==
  Inner \cup Numbers \cup Records([{p, q} -> Numbers])
    \cup Maps([{Text(p)} -> Numbers] \cup [{Text(p), Text(q)} -> Numbers])

Mergeable ==
  MCReported \cup Containers(MergedInner, Few)
    \cup Maps(Some({Text(p), Text(q)}, MergedInner))

MCValue == Mergeable

RECURSIVE MCDepth(_)
MCDepth(v) ==
  IF Inside(v) = {} THEN 0 ELSE 1 + Max({MCDepth(w) : w \in Inside(v)})

=============================================================================
