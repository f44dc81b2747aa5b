-------------------------------- MODULE Values --------------------------------
(***************************************************************************)
(* RuntimeValue (bindings/rust/src/evaluate.rs). A value is tagged by the  *)
(* name of its one field, except a variant, which has a tag of its own:    *)
(* [int |-> 1], [record |-> f], [tag |-> t, value |-> v].                  *)
(***************************************************************************)
EXTENDS Naturals, Sequences

Is(kind, v) == kind \in DOMAIN v
Both(kind, v, w) == Is(kind, v) /\ Is(kind, w)

Text(name) == [text |-> name]

=============================================================================
