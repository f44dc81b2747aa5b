-------------------------- MODULE Alternatives_proofs -------------------------
(***************************************************************************)
(* What the reducer makes of one step, for every set of values and every   *)
(* tree of actions: a merged value says what was observed and is unchanged *)
(* just where the observation says nothing else; the capture pass finds a  *)
(* state Quint may reach, the first alternative where guards come first;   *)
(* and the projection is accepted exactly when Quint took that alternative *)
(* and the observation says nothing else.                                  *)
(*                                                                         *)
(* Merge, Equal, Says, Whole, evaluation, outcomes and the first outcome   *)
(* are recursive functions over values and trees. That each of them exists *)
(* (the equation that defines it has a solution) and what holds of it are  *)
(* proved by induction on how deep what it is applied to is nested.        *)
(***************************************************************************)
EXTENDS Alternatives, TLAPS, WellFoundedInduction

\* A set of numbers that is not empty has a smallest one.
LEMMA LeastNatural ==
  ASSUME NEW S \in SUBSET Nat, S # {}
  PROVE  \E k \in S : \A j \in S : ~(j < k)
<1>1. PICK k \in S : \A j \in S : ~(<<j, k>> \in OpToRel(<, Nat))
  BY NatLessThanWellFounded, WFMin
<1> QED
  BY <1>1 DEF OpToRel

\* Induction over what is nested: good is whatever has only good parts.
LEMMA NestedInduction ==
  ASSUME NEW S, NEW D \in [S -> Nat], NEW Good,
         \A x \in S : (\A y \in S : D[y] < D[x] => y \in Good) => x \in Good
  PROVE  \A x \in S : x \in Good
<1> DEFINE Bad == {D[x] : x \in {y \in S : y \notin Good}}
<1> SUFFICES ASSUME Bad # {} PROVE FALSE
  OBVIOUS
<1>1. Bad \in SUBSET Nat
  OBVIOUS
<1>2. PICK k \in Bad : \A j \in Bad : ~(j < k)
  <2> HIDE DEF Bad
  <2> QED
    BY <1>1, LeastNatural
<1>3. PICK x \in S : x \notin Good /\ k = D[x]
  BY <1>2
<1>4. \A y \in S : D[y] < D[x] => y \in Good
  BY <1>2, <1>3
<1> QED
  BY <1>3, <1>4

\* A function whose value at x depends on its values at what is nested in x
\* only is defined by that.
Nested(F, S, T, D) ==
  /\ F \in [[S -> T] -> [S -> T]]
  /\ \A g, h \in [S -> T], x \in S :
       (\A y \in S : D[y] < D[x] => g[y] = h[y]) => F[g][x] = F[h][x]

LEMMA NestedRecursion ==
  ASSUME NEW S, NEW T, NEW F, NEW D, D \in [S -> Nat], T # {}, Nested(F, S, T, D)
  PROVE  \E g \in [S -> T] : F[g] = g
<1>0. PICK t \in T : TRUE
  OBVIOUS
<1> USE DEF Nested
<1> DEFINE Good(n) == {g \in [S -> T] : \A x \in S : D[x] < n => F[g][x] = g[x]}
           Bad == {n \in Nat : Good(n) = {}}
           limit == [x \in S |-> (CHOOSE g \in [S -> T] : g \in Good(D[x] + 1))[x]]
<1>1. Bad = {}
  <2> SUFFICES ASSUME Bad # {} PROVE FALSE
    OBVIOUS
  <2>1. PICK n \in Bad : \A j \in Bad : ~(j < n)
    <3>1. Bad \in SUBSET Nat
      OBVIOUS
    <3> HIDE DEF Bad
    <3> QED
      BY <3>1, LeastNatural
  <2>2. n # 0
    <3>1. [x \in S |-> t] \in Good(0)
      OBVIOUS
    <3> QED
      BY <3>1, <2>1
  <2>3. n - 1 \in Nat /\ n - 1 \notin Bad
    <3>1. n \in Nat
      BY <2>1
    <3>2. n - 1 \in Nat /\ n - 1 < n
      BY <3>1, <2>2
    <3> HIDE DEF Bad
    <3> QED
      BY <3>2, <2>1
  <2>4. PICK g : g \in Good(n - 1)
    BY <2>3
  <2>5. g \in [S -> T] /\ \A x \in S : D[x] < n - 1 => F[g][x] = g[x]
    BY <2>4
  <2>6. F[g] \in [S -> T]
    BY <2>5
  <2>7. ASSUME NEW x \in S, D[x] < n
        PROVE  F[F[g]][x] = F[g][x]
    <3>1. \A y \in S : D[y] < D[x] => F[g][y] = g[y]
      BY <2>5, <2>7, <2>3
    <3> QED
      BY <3>1, <2>5, <2>6
  <2>8. F[g] \in Good(n)
    BY <2>6, <2>7
  <2> QED
    BY <2>1, <2>8
<1>2. ASSUME NEW n \in Nat, NEW g \in Good(n), NEW h \in Good(n)
      PROVE  \A x \in S : D[x] < n => g[x] = h[x]
  <2> DEFINE Agree == {x \in S : D[x] < n => g[x] = h[x]}
  <2>0. g \in [S -> T] /\ h \in [S -> T]
    OBVIOUS
  <2>1. ASSUME NEW x \in S, \A y \in S : D[y] < D[x] => y \in Agree
        PROVE  x \in Agree
    <3> SUFFICES ASSUME D[x] < n PROVE g[x] = h[x]
      OBVIOUS
    <3>1. \A y \in S : D[y] < D[x] => g[y] = h[y]
      BY <2>1
    <3>2. F[g][x] = F[h][x]
      BY <3>1, <2>0
    <3>3. F[g][x] = g[x] /\ F[h][x] = h[x]
      OBVIOUS
    <3> QED
      BY <3>2, <3>3
  <2>2. \A x \in S : x \in Agree
    <3> HIDE DEF Agree
    <3> QED
      BY <2>1, NestedInduction
  <2> QED
    BY <2>2
<1>3. ASSUME NEW x \in S
      PROVE  \E g \in Good(D[x] + 1) : limit[x] = g[x]
  <2>1. D[x] + 1 \in Nat
    OBVIOUS
  <2>2. \E g \in [S -> T] : g \in Good(D[x] + 1)
    BY <1>1, <2>1
  <2> HIDE DEF Good
  <2>3. limit[x] = (CHOOSE g \in [S -> T] : g \in Good(D[x] + 1))[x]
    OBVIOUS
  <2> QED
    BY <2>2, <2>3
<1>4. limit \in [S -> T]
  <2>1. \A x \in S : limit[x] \in T
    BY <1>3
  <2>2. limit = [x \in S |-> limit[x]]
    OBVIOUS
  <2> HIDE DEF limit
  <2> QED
    BY <2>1, <2>2
<1>5. ASSUME NEW x \in S
      PROVE  F[limit][x] = limit[x]
  <2>1. PICK g \in Good(D[x] + 1) : limit[x] = g[x]
    BY <1>3
  <2>2. g \in [S -> T] /\ F[g][x] = g[x]
    OBVIOUS
  <2>3. ASSUME NEW y \in S, D[y] < D[x]
        PROVE  limit[y] = g[y]
    <3>1. PICK h \in Good(D[y] + 1) : limit[y] = h[y]
      BY <1>3
    <3>2. g \in Good(D[y] + 1)
      BY <2>3
    <3>3. D[y] + 1 \in Nat /\ D[y] < D[y] + 1
      OBVIOUS
    <3> HIDE DEF Good, limit
    <3> QED
      BY <3>1, <3>2, <3>3, <1>2
  <2> HIDE DEF limit
  <2> QED
    BY <2>1, <2>2, <2>3, <1>4
<1> HIDE DEF limit
<1>6. F[limit] = limit
  <2>1. F[limit] \in [S -> T]
    BY <1>4
  <2> QED
    BY <2>1, <1>4, <1>5
<1> QED
  BY <1>4, <1>6

\* How deep each value is nested.
depth == [v \in Value |-> Depth(v)]

LEMMA DepthIsNatural == depth \in [Value -> Nat]
BY ValueAssumption DEF depth

-----------------------------------------------------------------------------
Containing == {"record", "map", "list", "tuple", "present"}

\* A value of a kind is of no other, and is what it contains.
LEMMA OneKind ==
  ASSUME NEW v \in Value
  PROVE  /\ Is("record", v) => DOMAIN v = {"record"} /\ v = [record |-> v.record]
         /\ Is("map", v) => DOMAIN v = {"map"} /\ v = [map |-> v.map]
         /\ Is("list", v) => DOMAIN v = {"list"} /\ v = [list |-> v.list]
         /\ Is("tuple", v) => DOMAIN v = {"tuple"} /\ v = [tuple |-> v.tuple]
         /\ Is("present", v) => DOMAIN v = {"present"} /\ v = [present |-> v.present]
         /\ Is("tag", v) => DOMAIN v = {"tag", "value"} /\ v = [tag |-> v.tag, value |-> v.value]
<1>1. Formed(v)
  BY ValueAssumption
<1>2. CASE Is("tag", v) /\ v = [tag |-> v.tag, value |-> v.value]
  BY <1>2 DEF Is
<1>3. CASE \E kind \in Tags : Is(kind, v) /\ v = [field \in {kind} |-> v[kind]]
  <2>1. PICK kind \in Tags : Is(kind, v) /\ v = [field \in {kind} |-> v[kind]]
    BY <1>3
  <2>2. DOMAIN v = {kind}
    BY <2>1
  <2>3. kind \in Containing \/ kind \notin Containing \cup {"tag"}
    BY <2>1 DEF Tags, Containing
  <2>4. CASE kind = "record"
    BY <2>1, <2>2, <2>4 DEF Is
  <2>5. CASE kind = "map"
    BY <2>1, <2>2, <2>5 DEF Is
  <2>6. CASE kind = "list"
    BY <2>1, <2>2, <2>6 DEF Is
  <2>7. CASE kind = "tuple"
    BY <2>1, <2>2, <2>7 DEF Is
  <2>8. CASE kind = "present"
    BY <2>1, <2>2, <2>8 DEF Is
  <2>9. CASE kind \notin Containing \cup {"tag"}
    BY <2>1, <2>2, <2>9 DEF Is, Containing
  <2> QED
    BY <2>3, <2>4, <2>5, <2>6, <2>7, <2>8, <2>9 DEF Containing
<1> QED
  BY <1>1, <1>2, <1>3 DEF Formed

\* What is inside a value is a value less deep.
LEMMA InsideIsValue ==
  ASSUME NEW v \in Value
  PROVE  /\ Is("record", v) =>
              \A name \in DOMAIN v.record :
                v.record[name] \in Value /\ depth[v.record[name]] < depth[v]
         /\ Is("map", v) =>
              \A key \in DOMAIN v.map : v.map[key] \in Value /\ depth[v.map[key]] < depth[v]
         /\ Is("list", v) =>
              \A i \in DOMAIN v.list : v.list[i] \in Value /\ depth[v.list[i]] < depth[v]
         /\ Is("tuple", v) =>
              \A i \in DOMAIN v.tuple : v.tuple[i] \in Value /\ depth[v.tuple[i]] < depth[v]
         /\ Is("tag", v) => v.value \in Value /\ depth[v.value] < depth[v]
         /\ Is("present", v) => v.present \in Value /\ depth[v.present] < depth[v]
<1>1. \A w \in Inside(v) : w \in Value /\ depth[w] < depth[v]
  BY ValueAssumption DEF depth
<1>2. CASE Is("record", v)
  <2>1. Inside(v) = Range(v.record) /\ DOMAIN v = {"record"}
    BY <1>2, OneKind DEF Inside, Is
  <2> QED
    BY <1>1, <2>1 DEF Range, Is
<1>3. CASE Is("map", v)
  <2>1. DOMAIN v = {"map"}
    BY <1>3, OneKind
  <2>2. Inside(v) = Range(v.map)
    BY <1>3, <2>1 DEF Inside, Is
  <2> QED
    BY <1>1, <2>1, <2>2 DEF Range, Is
<1>4. CASE Is("list", v)
  <2>1. DOMAIN v = {"list"}
    BY <1>4, OneKind
  <2>2. Inside(v) = Range(v.list)
    BY <1>4, <2>1 DEF Inside, Is
  <2> QED
    BY <1>1, <2>1, <2>2 DEF Range, Is
<1>5. CASE Is("tuple", v)
  <2>1. DOMAIN v = {"tuple"}
    BY <1>5, OneKind
  <2>2. Inside(v) = Range(v.tuple)
    BY <1>5, <2>1 DEF Inside, Is
  <2> QED
    BY <1>1, <2>1, <2>2 DEF Range, Is
<1>6. CASE Is("tag", v)
  <2>1. DOMAIN v = {"tag", "value"}
    BY <1>6, OneKind
  <2>2. Inside(v) = {v.value}
    BY <1>6, <2>1 DEF Inside, Is
  <2> QED
    BY <1>1, <2>1, <2>2 DEF Is
<1>7. CASE Is("present", v)
  <2>1. DOMAIN v = {"present"}
    BY <1>7, OneKind
  <2>2. Inside(v) = {v.present}
    BY <1>7, <2>1 DEF Inside, Is
  <2> QED
    BY <1>1, <2>1, <2>2 DEF Is
<1> QED
  BY <1>2, <1>3, <1>4, <1>5, <1>6, <1>7

-----------------------------------------------------------------------------
\* What is merged depends on merging what is inside only.
LEMMA MergePartsAgree ==
  ASSUME NEW g, NEW h, NEW v \in Value, NEW update,
         \A w \in Value : depth[w] < depth[v] => g[w] = h[w]
  PROVE  MergeParts(g, v, update) = MergeParts(h, v, update)
<1>1. ASSUME Is("map", v)
      PROVE  \A entries : MergeEntries(g, v.map, entries) = MergeEntries(h, v.map, entries)
  <2>1. \A key \in DOMAIN v.map : g[v.map[key]] = h[v.map[key]]
    BY <1>1, InsideIsValue
  <2> QED
    BY <2>1 DEF MergeEntries
<1>2. ASSUME Is("record", v)
      PROVE  \A fields : MergeFields(g, v.record, fields) = MergeFields(h, v.record, fields)
  <2>1. \A key \in DOMAIN v.record : g[v.record[key]] = h[v.record[key]]
    BY <1>2, InsideIsValue
  <2> QED
    BY <2>1 DEF MergeFields
<1>3. ASSUME Is("list", v)
      PROVE  \A items : MergeItems(g, v.list, items) = MergeItems(h, v.list, items)
  <2>1. \A key \in DOMAIN v.list : g[v.list[key]] = h[v.list[key]]
    BY <1>3, InsideIsValue
  <2> QED
    BY <2>1 DEF MergeItems
<1>4. ASSUME Is("tuple", v)
      PROVE  \A items : MergeItems(g, v.tuple, items) = MergeItems(h, v.tuple, items)
  <2>1. \A key \in DOMAIN v.tuple : g[v.tuple[key]] = h[v.tuple[key]]
    BY <1>4, InsideIsValue
  <2> QED
    BY <2>1 DEF MergeItems
<1>5. Is("tag", v) => g[v.value] = h[v.value]
  BY InsideIsValue
<1>6. Is("present", v) => g[v.present] = h[v.present]
  BY InsideIsValue
<1> QED
  BY <1>1, <1>2, <1>3, <1>4, <1>5, <1>6 DEF MergeParts, Both

\* So there is a function that merges by merging what is inside.
LEMMA MergingRecursion ==
  Merging(Value) = [v \in Value |-> [update \in Value |-> MergeParts(Merging(Value), v, update)]]
<1> DEFINE Over(g) == [v \in Value |-> [update \in Value |-> MergeParts(g, v, update)]]
           Good(g, n) == \A v \in Value : depth[v] < n => g[v] = Over(g)[v]
           Bad == {n \in Nat : \A g : ~Good(g, n)}
           best(n) == CHOOSE g : Good(g, n)
           limit == [v \in Value |-> best(depth[v] + 1)[v]]
<1>0. depth \in [Value -> Nat]
  BY DepthIsNatural
<1>1. ASSUME NEW g, NEW h, NEW v \in Value,
             \A w \in Value : depth[w] < depth[v] => g[w] = h[w]
      PROVE  Over(g)[v] = Over(h)[v]
  <2>1. \A update \in Value : MergeParts(g, v, update) = MergeParts(h, v, update)
    BY <1>1, MergePartsAgree
  <2> QED
    BY <2>1
<1>2. \A g : \A v \in Value : Over(g)[v] = [update \in Value |-> MergeParts(g, v, update)]
  OBVIOUS
<1> HIDE DEF Over
<1>3. Bad = {}
  <2> SUFFICES ASSUME Bad # {} PROVE FALSE
    OBVIOUS
  <2>1. PICK n \in Bad : \A j \in Bad : ~(j < n)
    <3>1. Bad \in SUBSET Nat
      OBVIOUS
    <3> HIDE DEF Bad
    <3> QED
      BY <3>1, LeastNatural
  <2>2. n # 0
    <3>1. Good(Merging(Value), 0)
      BY <1>0
    <3> QED
      BY <3>1, <2>1
  <2>3. n - 1 \in Nat /\ n - 1 \notin Bad
    <3>1. n \in Nat
      BY <2>1
    <3>2. n - 1 \in Nat /\ n - 1 < n
      BY <3>1, <2>2
    <3> HIDE DEF Bad
    <3> QED
      BY <3>2, <2>1
  <2>4. PICK g : Good(g, n - 1)
    BY <2>3
  <2>7. ASSUME NEW v \in Value, depth[v] < n
        PROVE  Over(g)[v] = Over(Over(g))[v]
    <3>1. \A w \in Value : depth[w] < depth[v] => g[w] = Over(g)[w]
      BY <2>4, <2>7, <2>3, <1>0
    <3> QED
      BY <3>1, <1>1
  <2>8. Good(Over(g), n)
    BY <2>7
  <2> QED
    BY <2>1, <2>8
<1>4. ASSUME NEW n \in Nat, NEW g, NEW h, Good(g, n), Good(h, n)
      PROVE  \A v \in Value : depth[v] < n => g[v] = h[v]
  <2> DEFINE Agree == {v \in Value : depth[v] < n => g[v] = h[v]}
  <2>1. ASSUME NEW v \in Value, \A w \in Value : depth[w] < depth[v] => w \in Agree
        PROVE  v \in Agree
    <3> SUFFICES ASSUME depth[v] < n PROVE g[v] = h[v]
      OBVIOUS
    <3>1. \A w \in Value : depth[w] < depth[v] => g[w] = h[w]
      BY <2>1, <1>0
    <3>2. Over(g)[v] = Over(h)[v]
      BY <3>1, <1>1
    <3> QED
      BY <3>2, <1>4
  <2>2. \A v \in Value : v \in Agree
    <3> HIDE DEF Agree
    <3> QED
      BY <1>0, <2>1, NestedInduction
  <2> QED
    BY <2>2
<1>5. \A n \in Nat : Good(best(n), n)
  <2>1. \A n \in Nat : \E g : Good(g, n)
    BY <1>3
  <2> HIDE DEF Good
  <2> QED
    BY <2>1
<1>6. ASSUME NEW v \in Value
      PROVE  limit[v] = Over(limit)[v]
  <2> DEFINE g == best(depth[v] + 1)
  <2>1. limit[v] = g[v]
    OBVIOUS
  <2>2. depth[v] \in Nat
    BY <1>0
  <2>3. Good(g, depth[v] + 1)
    BY <1>5, <2>2
  <2>4. g[v] = Over(g)[v]
    BY <2>2, <2>3
  <2>5. ASSUME NEW w \in Value, depth[w] < depth[v]
        PROVE  limit[w] = g[w]
    <3> DEFINE h == best(depth[w] + 1)
    <3>1. limit[w] = h[w]
      OBVIOUS
    <3>2. depth[w] \in Nat
      BY <1>0
    <3>3. Good(h, depth[w] + 1)
      BY <1>5, <3>2
    <3>4. Good(g, depth[w] + 1)
      BY <2>2, <2>3, <2>5, <3>2, <1>0
    <3> HIDE DEF h, g, Good, limit
    <3>5. h[w] = g[w]
      BY <1>4, <3>2, <3>3, <3>4
    <3> QED
      BY <3>1, <3>5
  <2> HIDE DEF limit, g
  <2>6. Over(limit)[v] = Over(g)[v]
    BY <2>5, <1>1
  <2> QED
    BY <2>1, <2>4, <2>6
<1>7. limit = Over(limit)
  <2>1. limit = [v \in Value |-> limit[v]]
    OBVIOUS
  <2> HIDE DEF limit
  <2>2. Over(limit) = [v \in Value |-> Over(limit)[v]]
    BY DEF Over
  <2> QED
    BY <2>1, <2>2, <1>6
<1> HIDE DEF limit
<1>8. \E f : f = [v \in Value |-> [update \in Value |-> MergeParts(f, v, update)]]
  BY <1>7 DEF Over
<1> QED
  BY <1>8 DEF Merging

\* Comparing depends on comparing what is inside only.
LEMMA EqualAgree ==
  ASSUME NEW g, NEW h, NEW v \in Value, NEW w \in Value,
         \A x \in Value : depth[x] < depth[v] => g[x] = h[x]
  PROVE  EqualParts(g, v, w) <=> EqualParts(h, v, w)
<1>1. /\ Is("record", v) => \A name \in DOMAIN v.record : g[v.record[name]] = h[v.record[name]]
      /\ Is("map", v) => \A key \in DOMAIN v.map : g[v.map[key]] = h[v.map[key]]
      /\ Is("list", v) => \A i \in DOMAIN v.list : g[v.list[i]] = h[v.list[i]]
      /\ Is("tuple", v) => \A i \in DOMAIN v.tuple : g[v.tuple[i]] = h[v.tuple[i]]
      /\ Is("tag", v) => g[v.value] = h[v.value]
      /\ Is("present", v) => g[v.present] = h[v.present]
  BY InsideIsValue
<1> QED
  BY <1>1 DEF EqualParts, EqualEntries, EqualItems, Both

LEMMA EqualIsBoolean ==
  ASSUME NEW g \in [Value -> [Value -> BOOLEAN]], NEW v \in Value, NEW w \in Value
  PROVE  EqualParts(g, v, w) \in BOOLEAN
<1>1. Both("present", v, w) => g[v.present][w.present] \in BOOLEAN
  BY InsideIsValue DEF Both
<1> QED
  BY <1>1 DEF EqualParts, EqualEntries, EqualItems

LEMMA EqualRecursion ==
  Equality(Value) = [v \in Value |-> [w \in Value |-> EqualParts(Equality(Value), v, w)]]
<1> DEFINE F == [g \in [Value -> [Value -> BOOLEAN]] |->
                  [v \in Value |-> [w \in Value |-> EqualParts(g, v, w)]]]
<1>1. F \in [[Value -> [Value -> BOOLEAN]] -> [Value -> [Value -> BOOLEAN]]]
  BY EqualIsBoolean
<1>2. ASSUME NEW g \in [Value -> [Value -> BOOLEAN]], NEW h \in [Value -> [Value -> BOOLEAN]], NEW v \in Value,
             \A w \in Value : depth[w] < depth[v] => g[w] = h[w]
      PROVE  F[g][v] = F[h][v]
  <2>1. \A w \in Value : EqualParts(g, v, w) <=> EqualParts(h, v, w)
    BY <1>2, EqualAgree
  <2>2. \A w \in Value : EqualParts(g, v, w) \in BOOLEAN /\ EqualParts(h, v, w) \in BOOLEAN
    BY EqualIsBoolean
  <2>3. \A w \in Value : EqualParts(g, v, w) = EqualParts(h, v, w)
    BY <2>1, <2>2
  <2>4. [w \in Value |-> EqualParts(g, v, w)] = [w \in Value |-> EqualParts(h, v, w)]
    BY <2>3
  <2>5. F[g][v] = [w \in Value |-> EqualParts(g, v, w)] /\ F[h][v] = [w \in Value |-> EqualParts(h, v, w)]
    OBVIOUS
  <2> QED
    BY <2>4, <2>5
<1>3. depth \in [Value -> Nat]
  BY DepthIsNatural
<1>4. \E g \in [Value -> [Value -> BOOLEAN]] : F[g] = g
  <2>1. Nested(F, Value, [Value -> BOOLEAN], depth)
    <3> HIDE DEF F
    <3> QED
      BY <1>1, <1>2 DEF Nested
  <2>2. [Value -> BOOLEAN] # {}
    <3>1. [w \in Value |-> TRUE] \in [Value -> BOOLEAN]
      OBVIOUS
    <3> QED
      BY <3>1
  <2> HIDE DEF F
  <2> QED
    BY <1>3, <2>1, <2>2, NestedRecursion
<1>5. PICK g \in [Value -> [Value -> BOOLEAN]] : F[g] = g
  BY <1>4
<1>6. F[g] = [v \in Value |-> [w \in Value |-> EqualParts(g, v, w)]]
  OBVIOUS
<1>7. \E f : f = [v \in Value |-> [w \in Value |-> EqualParts(f, v, w)]]
  <2> HIDE DEF F
  <2> QED
    BY <1>5, <1>6
<1> QED
  BY <1>7 DEF Equality

\* structural_difference finds nothing between two values just when they are the
\* same: comparing part by part overlooks nothing and makes nothing up.
THEOREM EqualIsSame ==
  ASSUME NEW v \in Value, NEW w \in Value
  PROVE  Equal(v, w) <=> v = w
<1> DEFINE Good == {x \in Value : \A y \in Value : Equality(Value)[x][y] <=> x = y}
<1>1. ASSUME NEW x \in Value, \A y \in Value : depth[y] < depth[x] => y \in Good
      PROVE  x \in Good
  <2> SUFFICES ASSUME NEW y \in Value PROVE Equality(Value)[x][y] <=> x = y
    OBVIOUS
  <2>1. Equality(Value)[x][y] <=> EqualParts(Equality(Value), x, y)
    BY EqualRecursion
  <2>2. \A a \in Value : depth[a] < depth[x] => \A b \in Value : Equality(Value)[a][b] <=> a = b
    BY <1>1
  <2> HIDE DEF Good
  <2>3. CASE Both("record", x, y)
    <3>1. \A k \in DOMAIN x.record : x.record[k] \in Value /\ depth[x.record[k]] < depth[x]
      BY <2>3, InsideIsValue DEF Both
    <3>2. \A k \in DOMAIN y.record : y.record[k] \in Value
      BY <2>3, InsideIsValue DEF Both
    <3>3. IsMapping(x.record) /\ IsMapping(y.record)
      BY <2>3, ValueAssumption DEF Both
    <3>6. x = [record |-> x.record] /\ y = [record |-> y.record] /\ DOMAIN x = {"record"}
      BY <2>3, OneKind DEF Both
    <3>4. EqualParts(Equality(Value), x, y) <=> EqualEntries(Equality(Value), x.record, y.record)
      BY <2>3, <3>6 DEF EqualParts, Both, Is
    <3>5. EqualEntries(Equality(Value), x.record, y.record) <=> x.record = y.record
      BY <2>2, <3>1, <3>2, <3>3 DEF EqualEntries, IsMapping
    <3> QED
      BY <2>1, <3>4, <3>5, <3>6
  <2>4. CASE Both("map", x, y)
    <3>1. \A k \in DOMAIN x.map : x.map[k] \in Value /\ depth[x.map[k]] < depth[x]
      BY <2>4, InsideIsValue DEF Both
    <3>2. \A k \in DOMAIN y.map : y.map[k] \in Value
      BY <2>4, InsideIsValue DEF Both
    <3>3. IsMapping(x.map) /\ IsMapping(y.map)
      BY <2>4, ValueAssumption DEF Both
    <3>6. x = [map |-> x.map] /\ y = [map |-> y.map] /\ DOMAIN x = {"map"}
      BY <2>4, OneKind DEF Both
    <3>4. EqualParts(Equality(Value), x, y) <=> EqualEntries(Equality(Value), x.map, y.map)
      BY <2>4, <3>6 DEF EqualParts, Both, Is
    <3>5. EqualEntries(Equality(Value), x.map, y.map) <=> x.map = y.map
      BY <2>2, <3>1, <3>2, <3>3 DEF EqualEntries, IsMapping
    <3> QED
      BY <2>1, <3>4, <3>5, <3>6
  <2>5. CASE Both("list", x, y)
    <3>1. \A k \in DOMAIN x.list : x.list[k] \in Value /\ depth[x.list[k]] < depth[x]
      BY <2>5, InsideIsValue DEF Both
    <3>2. \A k \in DOMAIN y.list : y.list[k] \in Value
      BY <2>5, InsideIsValue DEF Both
    <3>3. x.list \in Seq(Value) /\ y.list \in Seq(Value)
      BY <2>5, ValueAssumption DEF Both
    <3>6. x = [list |-> x.list] /\ y = [list |-> y.list] /\ DOMAIN x = {"list"}
      BY <2>5, OneKind DEF Both
    <3>4. EqualParts(Equality(Value), x, y) <=> EqualItems(Equality(Value), x.list, y.list)
      BY <2>5, <3>6 DEF EqualParts, Both, Is
    <3>5. EqualItems(Equality(Value), x.list, y.list) <=> x.list = y.list
      <4>1. DOMAIN x.list = 1 .. Len(x.list) /\ DOMAIN y.list = 1 .. Len(y.list)
        BY <3>3
      <4>2. EqualItems(Equality(Value), x.list, y.list)
              <=> Len(x.list) = Len(y.list) /\ \A i \in DOMAIN x.list : x.list[i] = y.list[i]
        BY <2>2, <3>1, <3>2, <4>1 DEF EqualItems
      <4> QED
        BY <3>3, <4>2
    <3> QED
      BY <2>1, <3>4, <3>5, <3>6
  <2>6. CASE Both("present", x, y)
    <3>1. x.present \in Value /\ y.present \in Value /\ depth[x.present] < depth[x]
      BY <2>6, InsideIsValue DEF Both
    <3>2. x = [present |-> x.present] /\ y = [present |-> y.present] /\ DOMAIN x = {"present"}
      BY <2>6, OneKind DEF Both
    <3>3. EqualParts(Equality(Value), x, y) <=> Equality(Value)[x.present][y.present]
      BY <2>6, <3>2 DEF EqualParts, Both, Is
    <3> QED
      BY <2>1, <2>2, <3>1, <3>2, <3>3
  <2>7. CASE ~(\/ Both("record", x, y) \/ Both("map", x, y)
               \/ Both("list", x, y) \/ Both("present", x, y))
    BY <2>1, <2>7 DEF EqualParts
  <2> QED
    BY <2>3, <2>4, <2>5, <2>6, <2>7
<1>2. depth \in [Value -> Nat]
  BY DepthIsNatural
<1>3. \A x \in Value : x \in Good
  <2> HIDE DEF Good
  <2> QED
    BY <1>1, <1>2, NestedInduction
<1> QED
  BY <1>3 DEF Equal

\* What is inside the entries an observation stands for is inside it.
LEMMA EntriesInside ==
  ASSUME NEW o \in Value, Is("map", o) \/ Is("record", o)
  PROVE  \A key \in DOMAIN Entries(o) :
           Entries(o)[key] \in Value /\ depth[Entries(o)[key]] < depth[o]
<1>1. CASE Is("map", o)
  BY <1>1, InsideIsValue DEF Entries
<1>2. CASE Is("record", o)
  <2>1. ~Is("map", o)
    BY <1>2, OneKind DEF Is
  <2>2. Entries(o) = [key \in {Text(name) : name \in DOMAIN o.record} |-> o.record[key.text]]
    BY <2>1 DEF Entries
  <2>3. ASSUME NEW key \in DOMAIN Entries(o)
        PROVE  Entries(o)[key] \in Value /\ depth[Entries(o)[key]] < depth[o]
    <3>1. PICK name \in DOMAIN o.record : key = Text(name)
      BY <2>2
    <3>2. key.text = name
      BY <3>1 DEF Text
    <3>3. Entries(o)[key] = o.record[name]
      BY <2>2, <3>2
    <3> QED
      BY <1>2, <3>3, InsideIsValue
  <2> QED
    BY <2>3
<1> QED
  BY <1>1, <1>2

LEMMA SaysAgree ==
  ASSUME NEW g, NEW h, NEW v \in Value, NEW w \in Value,
         \A x \in Value : depth[x] < depth[v] => g[x] = h[x]
  PROVE  SaysParts(g, v, w) <=> SaysParts(h, v, w)
<1>1. /\ Is("record", v) => \A name \in DOMAIN v.record : g[v.record[name]] = h[v.record[name]]
      /\ Is("map", v) => \A key \in DOMAIN v.map : g[v.map[key]] = h[v.map[key]]
      /\ Is("list", v) => \A i \in DOMAIN v.list : g[v.list[i]] = h[v.list[i]]
      /\ Is("tuple", v) => \A i \in DOMAIN v.tuple : g[v.tuple[i]] = h[v.tuple[i]]
      /\ Is("map", v) \/ Is("record", v) =>
           \A key \in DOMAIN Entries(v) : g[Entries(v)[key]] = h[Entries(v)[key]]
      /\ Is("tag", v) => g[v.value] = h[v.value]
      /\ Is("present", v) => g[v.present] = h[v.present]
  BY InsideIsValue, EntriesInside
<1> QED
  BY <1>1 DEF SaysParts, Both

LEMMA SaysIsBoolean ==
  ASSUME NEW g \in [Value -> [Value -> BOOLEAN]], NEW v \in Value, NEW w \in Value
  PROVE  SaysParts(g, v, w) \in BOOLEAN
<1>1. Both("present", v, w) => g[v.present][w.present] \in BOOLEAN
  BY InsideIsValue, EntriesInside DEF Both
<1> QED
  BY <1>1 DEF SaysParts

LEMMA SaysRecursion ==
  Saying(Value) = [v \in Value |-> [w \in Value |-> SaysParts(Saying(Value), v, w)]]
<1> DEFINE F == [g \in [Value -> [Value -> BOOLEAN]] |->
                  [v \in Value |-> [w \in Value |-> SaysParts(g, v, w)]]]
<1>1. F \in [[Value -> [Value -> BOOLEAN]] -> [Value -> [Value -> BOOLEAN]]]
  BY SaysIsBoolean
<1>2. ASSUME NEW g \in [Value -> [Value -> BOOLEAN]], NEW h \in [Value -> [Value -> BOOLEAN]], NEW v \in Value,
             \A w \in Value : depth[w] < depth[v] => g[w] = h[w]
      PROVE  F[g][v] = F[h][v]
  <2>1. \A w \in Value : SaysParts(g, v, w) <=> SaysParts(h, v, w)
    BY <1>2, SaysAgree
  <2>2. \A w \in Value : SaysParts(g, v, w) \in BOOLEAN /\ SaysParts(h, v, w) \in BOOLEAN
    BY SaysIsBoolean
  <2>3. \A w \in Value : SaysParts(g, v, w) = SaysParts(h, v, w)
    BY <2>1, <2>2
  <2>4. [w \in Value |-> SaysParts(g, v, w)] = [w \in Value |-> SaysParts(h, v, w)]
    BY <2>3
  <2>5. F[g][v] = [w \in Value |-> SaysParts(g, v, w)] /\ F[h][v] = [w \in Value |-> SaysParts(h, v, w)]
    OBVIOUS
  <2> QED
    BY <2>4, <2>5
<1>3. depth \in [Value -> Nat]
  BY DepthIsNatural
<1>4. \E g \in [Value -> [Value -> BOOLEAN]] : F[g] = g
  <2>1. Nested(F, Value, [Value -> BOOLEAN], depth)
    <3> HIDE DEF F
    <3> QED
      BY <1>1, <1>2 DEF Nested
  <2>2. [Value -> BOOLEAN] # {}
    <3>1. [w \in Value |-> TRUE] \in [Value -> BOOLEAN]
      OBVIOUS
    <3> QED
      BY <3>1
  <2> HIDE DEF F
  <2> QED
    BY <1>3, <2>1, <2>2, NestedRecursion
<1>5. PICK g \in [Value -> [Value -> BOOLEAN]] : F[g] = g
  BY <1>4
<1>6. F[g] = [v \in Value |-> [w \in Value |-> SaysParts(g, v, w)]]
  OBVIOUS
<1>7. \E f : f = [v \in Value |-> [w \in Value |-> SaysParts(f, v, w)]]
  <2> HIDE DEF F
  <2> QED
    BY <1>5, <1>6
<1> QED
  BY <1>7 DEF Saying

LEMMA WholeAgree ==
  ASSUME NEW g, NEW h, NEW v \in Value, NEW w \in Value,
         \A x \in Value : depth[x] < depth[v] => g[x] = h[x]
  PROVE  WholeParts(g, v, w) <=> WholeParts(h, v, w)
<1>1. /\ Is("record", v) => \A name \in DOMAIN v.record : g[v.record[name]] = h[v.record[name]]
      /\ Is("map", v) => \A key \in DOMAIN v.map : g[v.map[key]] = h[v.map[key]]
      /\ Is("list", v) => \A i \in DOMAIN v.list : g[v.list[i]] = h[v.list[i]]
      /\ Is("tuple", v) => \A i \in DOMAIN v.tuple : g[v.tuple[i]] = h[v.tuple[i]]
      /\ Is("tag", v) => g[v.value] = h[v.value]
      /\ Is("present", v) => g[v.present] = h[v.present]
  BY InsideIsValue
<1> QED
  BY <1>1 DEF WholeParts, Both

LEMMA WholeIsBoolean ==
  ASSUME NEW g \in [Value -> [Value -> BOOLEAN]], NEW v \in Value, NEW w \in Value
  PROVE  WholeParts(g, v, w) \in BOOLEAN
<1>1. Both("present", v, w) => g[v.present][w.present] \in BOOLEAN
  BY InsideIsValue DEF Both
<1> QED
  BY <1>1 DEF WholeParts

LEMMA WholeRecursion ==
  Wholeness(Value) = [v \in Value |-> [w \in Value |-> WholeParts(Wholeness(Value), v, w)]]
<1> DEFINE F == [g \in [Value -> [Value -> BOOLEAN]] |->
                  [v \in Value |-> [w \in Value |-> WholeParts(g, v, w)]]]
<1>1. F \in [[Value -> [Value -> BOOLEAN]] -> [Value -> [Value -> BOOLEAN]]]
  BY WholeIsBoolean
<1>2. ASSUME NEW g \in [Value -> [Value -> BOOLEAN]], NEW h \in [Value -> [Value -> BOOLEAN]], NEW v \in Value,
             \A w \in Value : depth[w] < depth[v] => g[w] = h[w]
      PROVE  F[g][v] = F[h][v]
  <2>1. \A w \in Value : WholeParts(g, v, w) <=> WholeParts(h, v, w)
    BY <1>2, WholeAgree
  <2>2. \A w \in Value : WholeParts(g, v, w) \in BOOLEAN /\ WholeParts(h, v, w) \in BOOLEAN
    BY WholeIsBoolean
  <2>3. \A w \in Value : WholeParts(g, v, w) = WholeParts(h, v, w)
    BY <2>1, <2>2
  <2>4. [w \in Value |-> WholeParts(g, v, w)] = [w \in Value |-> WholeParts(h, v, w)]
    BY <2>3
  <2>5. F[g][v] = [w \in Value |-> WholeParts(g, v, w)] /\ F[h][v] = [w \in Value |-> WholeParts(h, v, w)]
    OBVIOUS
  <2> QED
    BY <2>4, <2>5
<1>3. depth \in [Value -> Nat]
  BY DepthIsNatural
<1>4. \E g \in [Value -> [Value -> BOOLEAN]] : F[g] = g
  <2>1. Nested(F, Value, [Value -> BOOLEAN], depth)
    <3> HIDE DEF F
    <3> QED
      BY <1>1, <1>2 DEF Nested
  <2>2. [Value -> BOOLEAN] # {}
    <3>1. [w \in Value |-> TRUE] \in [Value -> BOOLEAN]
      OBVIOUS
    <3> QED
      BY <3>1
  <2> HIDE DEF F
  <2> QED
    BY <1>3, <2>1, <2>2, NestedRecursion
<1>5. PICK g \in [Value -> [Value -> BOOLEAN]] : F[g] = g
  BY <1>4
<1>6. F[g] = [v \in Value |-> [w \in Value |-> WholeParts(g, v, w)]]
  OBVIOUS
<1>7. \E f : f = [v \in Value |-> [w \in Value |-> WholeParts(f, v, w)]]
  <2> HIDE DEF F
  <2> QED
    BY <1>5, <1>6
<1> QED
  BY <1>7 DEF Wholeness

LEMMA MergeIs ==
  ASSUME NEW v \in Value, NEW update \in Value
  PROVE  Merging(Value)[v][update] = MergeParts(Merging(Value), v, update) /\ Merging(Value)[v][update] \in Value
<1>1. Merging(Value)[v] = [u \in Value |-> MergeParts(Merging(Value), v, u)]
  <2> DEFINE whole == [x \in Value |-> [u \in Value |-> MergeParts(Merging(Value), x, u)]]
  <2>1. Merging(Value) = whole
    BY MergingRecursion
  <2>2. whole[v] = [u \in Value |-> MergeParts(Merging(Value), v, u)]
    OBVIOUS
  <2> HIDE DEF whole
  <2> QED
    BY <2>1, <2>2
<1>2. Merging(Value)[v][update] = MergeParts(Merging(Value), v, update)
  BY <1>1
<1> QED
  BY <1>2, MergedIsValue DEF Merge

LEMMA SaysIs ==
  ASSUME NEW o \in Value, NEW v \in Value
  PROVE  Saying(Value)[o][v] <=> SaysParts(Saying(Value), o, v)
BY SaysRecursion

LEMMA WholeIs ==
  ASSUME NEW o \in Value, NEW v \in Value
  PROVE  Wholeness(Value)[o][v] <=> WholeParts(Wholeness(Value), o, v)
BY WholeRecursion

\* Kinds exclude each other.
LEMMA OtherKinds ==
  ASSUME NEW v \in Value
  PROVE  /\ Is("record", v) => ~Is("map", v) /\ ~Is("list", v) /\ ~Is("tuple", v) /\ ~Is("tag", v) /\ ~Is("present", v)
         /\ Is("map", v) => ~Is("record", v) /\ ~Is("list", v) /\ ~Is("tuple", v) /\ ~Is("tag", v) /\ ~Is("present", v)
         /\ Is("list", v) => ~Is("record", v) /\ ~Is("map", v) /\ ~Is("tuple", v) /\ ~Is("tag", v) /\ ~Is("present", v)
         /\ Is("tuple", v) => ~Is("record", v) /\ ~Is("map", v) /\ ~Is("list", v) /\ ~Is("tag", v) /\ ~Is("present", v)
         /\ Is("tag", v) => ~Is("record", v) /\ ~Is("map", v) /\ ~Is("list", v) /\ ~Is("tuple", v) /\ ~Is("present", v)
         /\ Is("present", v) => ~Is("record", v) /\ ~Is("map", v) /\ ~Is("list", v) /\ ~Is("tuple", v) /\ ~Is("tag", v)
BY OneKind DEF Is

\* What a comparison with an observation comes down to, for each kind.
LEMMA SaysOfKind ==
  ASSUME NEW o \in Value, NEW v \in Value
  PROVE  /\ Both("record", o, v) =>
              (Saying(Value)[o][v] <=>
                 /\ DOMAIN o.record \subseteq DOMAIN v.record
                 /\ \A name \in DOMAIN o.record : Saying(Value)[o.record[name]][v.record[name]])
         /\ Is("map", v) /\ (Is("map", o) \/ Is("record", o)) =>
              (Saying(Value)[o][v] <=>
                 /\ DOMAIN Entries(o) = DOMAIN v.map
                 /\ \A key \in DOMAIN v.map : Saying(Value)[Entries(o)[key]][v.map[key]])
         /\ Both("list", o, v) =>
              (Saying(Value)[o][v] <=>
                 /\ Len(o.list) = Len(v.list)
                 /\ \A i \in DOMAIN o.list : Saying(Value)[o.list[i]][v.list[i]])
         /\ Both("tuple", o, v) =>
              (Saying(Value)[o][v] <=>
                 /\ Len(o.tuple) = Len(v.tuple)
                 /\ \A i \in DOMAIN o.tuple : Saying(Value)[o.tuple[i]][v.tuple[i]])
         /\ Both("tag", o, v) =>
              (Saying(Value)[o][v] <=> o.tag = v.tag /\ Saying(Value)[o.value][v.value])
         /\ Both("present", o, v) => (Saying(Value)[o][v] <=> Saying(Value)[o.present][v.present])
         /\ (/\ ~Both("record", o, v) /\ ~Both("list", o, v) /\ ~Both("tuple", o, v)
             /\ ~Both("tag", o, v) /\ ~Both("present", o, v)
             /\ ~(Is("map", v) /\ (Is("map", o) \/ Is("record", o))))
              => (Saying(Value)[o][v] <=> o = v)
<1>1. Saying(Value)[o][v] <=> SaysParts(Saying(Value), o, v)
  BY SaysIs
<1>2. CASE Both("record", o, v)
  BY <1>1, <1>2, OtherKinds DEF SaysParts, Both
<1>3. CASE Is("map", v) /\ (Is("map", o) \/ Is("record", o))
  BY <1>1, <1>3, OtherKinds DEF SaysParts, Both
<1>4. CASE Both("list", o, v)
  BY <1>1, <1>4, OtherKinds DEF SaysParts, Both
<1>5. CASE Both("tuple", o, v)
  BY <1>1, <1>5, OtherKinds DEF SaysParts, Both
<1>6. CASE Both("tag", o, v)
  BY <1>1, <1>6, OtherKinds DEF SaysParts, Both
<1>7. CASE Both("present", o, v)
  BY <1>1, <1>7, OtherKinds DEF SaysParts, Both
<1>8. CASE /\ ~Both("record", o, v) /\ ~Both("list", o, v) /\ ~Both("tuple", o, v)
           /\ ~Both("tag", o, v) /\ ~Both("present", o, v)
           /\ ~(Is("map", v) /\ (Is("map", o) \/ Is("record", o)))
  BY <1>1, <1>8 DEF SaysParts
<1> QED
  BY <1>2, <1>3, <1>4, <1>5, <1>6, <1>7, <1>8

\* What merging comes down to, for each kind.
LEMMA MergeMaps ==
  ASSUME NEW v \in Value, NEW o \in Value, Is("map", v), Is("map", o) \/ Is("record", o)
  PROVE  Merging(Value)[v][o] = [map |-> MergeEntries(Merging(Value), v.map, Entries(o))]
<1>1. ~Is("record", v) /\ ~Is("list", v) /\ ~Is("tuple", v) /\ ~Is("tag", v) /\ ~Is("present", v)
  BY OtherKinds DEF Both
<1>2. MergeParts(Merging(Value), v, o) = [map |-> MergeEntries(Merging(Value), v.map, Entries(o))]
  BY <1>1 DEF MergeParts, Both
<1> QED
  BY <1>2, MergeIs

LEMMA MergeRecords ==
  ASSUME NEW v \in Value, NEW o \in Value, Both("record", v, o)
  PROVE  Merging(Value)[v][o] = [record |-> MergeFields(Merging(Value), v.record, o.record)]
<1>1. ~Is("map", v) /\ ~Is("list", v) /\ ~Is("tuple", v) /\ ~Is("tag", v) /\ ~Is("present", v)
  BY OtherKinds DEF Both
<1>2. MergeParts(Merging(Value), v, o) = [record |-> MergeFields(Merging(Value), v.record, o.record)]
  BY <1>1 DEF MergeParts, Both
<1> QED
  BY <1>2, MergeIs

LEMMA MergeLists ==
  ASSUME NEW v \in Value, NEW o \in Value, Both("list", v, o), Len(v.list) = Len(o.list)
  PROVE  Merging(Value)[v][o] = [list |-> MergeItems(Merging(Value), v.list, o.list)]
<1>1. ~Is("record", v) /\ ~Is("map", v) /\ ~Is("tuple", v) /\ ~Is("tag", v) /\ ~Is("present", v)
  BY OtherKinds DEF Both
<1>2. MergeParts(Merging(Value), v, o) = [list |-> MergeItems(Merging(Value), v.list, o.list)]
  BY <1>1 DEF MergeParts, Both, SameLength
<1> QED
  BY <1>2, MergeIs

LEMMA MergeTuples ==
  ASSUME NEW v \in Value, NEW o \in Value, Both("tuple", v, o), Len(v.tuple) = Len(o.tuple)
  PROVE  Merging(Value)[v][o] = [tuple |-> MergeItems(Merging(Value), v.tuple, o.tuple)]
<1>1. ~Is("record", v) /\ ~Is("map", v) /\ ~Is("list", v) /\ ~Is("tag", v) /\ ~Is("present", v)
  BY OtherKinds DEF Both
<1>2. MergeParts(Merging(Value), v, o) = [tuple |-> MergeItems(Merging(Value), v.tuple, o.tuple)]
  BY <1>1 DEF MergeParts, Both, SameLength
<1> QED
  BY <1>2, MergeIs

LEMMA MergeTags ==
  ASSUME NEW v \in Value, NEW o \in Value, Both("tag", v, o), v.tag = o.tag
  PROVE  Merging(Value)[v][o] = [tag |-> v.tag, value |-> Merging(Value)[v.value][o.value]]
<1>1. ~Is("record", v) /\ ~Is("map", v) /\ ~Is("list", v) /\ ~Is("tuple", v) /\ ~Is("present", v)
  BY OtherKinds DEF Both
<1>2. MergeParts(Merging(Value), v, o) = [tag |-> v.tag, value |-> Merging(Value)[v.value][o.value]]
  BY <1>1 DEF MergeParts, Both
<1> QED
  BY <1>2, MergeIs

LEMMA MergePresent ==
  ASSUME NEW v \in Value, NEW o \in Value, Both("present", v, o)
  PROVE  Merging(Value)[v][o] = [present |-> Merging(Value)[v.present][o.present]]
<1>1. ~Is("record", v) /\ ~Is("map", v) /\ ~Is("list", v) /\ ~Is("tuple", v) /\ ~Is("tag", v)
  BY OtherKinds DEF Both
<1>2. MergeParts(Merging(Value), v, o) = [present |-> Merging(Value)[v.present][o.present]]
  BY <1>1 DEF MergeParts, Both
<1> QED
  BY <1>2, MergeIs

\* Of different kinds, lengths or tags, the observation takes the place of the value.
LEMMA MergeDiffering ==
  ASSUME NEW v \in Value, NEW o \in Value,
         ~Both("record", v, o), ~Both("present", v, o),
         ~(Is("map", v) /\ (Is("map", o) \/ Is("record", o))),
         ~(Both("list", v, o) /\ Len(v.list) = Len(o.list)),
         ~(Both("tuple", v, o) /\ Len(v.tuple) = Len(o.tuple)),
         ~(Both("tag", v, o) /\ v.tag = o.tag)
  PROVE  Merging(Value)[v][o] = o
<1>1. MergeParts(Merging(Value), v, o) = o
  BY DEF MergeParts, SameLength
<1> QED
  BY <1>1, MergeIs

LEMMA SaysItself ==
  ASSUME NEW v \in Value
  PROVE  Saying(Value)[v][v]
<1> DEFINE Good == {o \in Value : Saying(Value)[o][o]}
<1>1. ASSUME NEW o \in Value, \A w \in Value : depth[w] < depth[o] => w \in Good
      PROVE  o \in Good
  <2>1. \A w \in Value : depth[w] < depth[o] => Saying(Value)[w][w]
    BY <1>1
  <2> HIDE DEF Good
  <2>2. Saying(Value)[o][o]
    <3>1. CASE Is("record", o)
      BY <2>1, <3>1, InsideIsValue, SaysOfKind DEF Both
    <3>2. CASE Is("map", o)
      <4>1. Entries(o) = o.map
        BY <3>2 DEF Entries
      <4> QED
        BY <2>1, <3>2, <4>1, InsideIsValue, SaysOfKind
    <3>3. CASE Is("list", o)
      BY <2>1, <3>3, InsideIsValue, SaysOfKind DEF Both
    <3>4. CASE Is("tuple", o)
      BY <2>1, <3>4, InsideIsValue, SaysOfKind DEF Both
    <3>5. CASE Is("tag", o)
      BY <2>1, <3>5, InsideIsValue, SaysOfKind DEF Both
    <3>6. CASE Is("present", o)
      BY <2>1, <3>6, InsideIsValue, SaysOfKind DEF Both
    <3>7. CASE ~(\/ Is("record", o) \/ Is("map", o) \/ Is("list", o)
                 \/ Is("tuple", o) \/ Is("tag", o) \/ Is("present", o))
      BY <3>7, SaysOfKind DEF Both
    <3> QED
      BY <3>1, <3>2, <3>3, <3>4, <3>5, <3>6, <3>7
  <2> QED
    BY <2>2 DEF Good
<1>2. \A o \in Value : o \in Good
  <2> HIDE DEF Good
  <2> QED
    BY <1>1, DepthIsNatural, NestedInduction
<1> QED
  BY <1>2

\* For any two values, the merged value says all the observation said, however
\* deep it is nested (merge_observed).
THEOREM MergedSays ==
  ASSUME NEW v \in Value, NEW o \in Value
  PROVE  Says(o, Merge(v, o))
<1> DEFINE Good == {x \in Value : \A w \in Value : Saying(Value)[x][Merging(Value)[w][x]]}
<1>1. ASSUME NEW x \in Value, \A y \in Value : depth[y] < depth[x] => y \in Good,
             NEW w \in Value
      PROVE  Saying(Value)[x][Merging(Value)[w][x]]
  <2> DEFINE m == Merging(Value)[w][x]
  <2>0. m \in Value
    BY MergeIs
  <2>1. \A y \in Value : depth[y] < depth[x] => \A z \in Value : Saying(Value)[y][Merging(Value)[z][y]]
    BY <1>1
  <2> HIDE DEF Good
  <2>2. CASE Both("record", w, x)
    <3>1. m = [record |-> MergeFields(Merging(Value), w.record, x.record)]
      BY <2>2, MergeRecords
    <3> DEFINE fields == MergeFields(Merging(Value), w.record, x.record)
    <3>2. Is("record", m) /\ m.record = fields
      BY <3>1 DEF Is
    <3>3. DOMAIN fields = DOMAIN w.record \cup DOMAIN x.record
      BY DEF MergeFields
    <3>4. ASSUME NEW name \in DOMAIN x.record
          PROVE  Saying(Value)[x.record[name]][fields[name]]
      <4>1. x.record[name] \in Value /\ depth[x.record[name]] < depth[x]
        BY <2>2, InsideIsValue DEF Both
      <4>2. CASE name \in DOMAIN w.record
        <5>1. w.record[name] \in Value
          BY <2>2, <4>2, InsideIsValue DEF Both
        <5>2. fields[name] = Merging(Value)[w.record[name]][x.record[name]]
          BY <4>2 DEF MergeFields
        <5> QED
          BY <2>1, <4>1, <5>1, <5>2
      <4>3. CASE name \notin DOMAIN w.record
        <5>1. fields[name] = x.record[name]
          BY <4>3 DEF MergeFields
        <5> QED
          BY <4>1, <5>1, SaysItself
      <4> QED
        BY <4>2, <4>3
    <3> HIDE DEF m, fields
    <3>5. Both("record", x, m)
      BY <2>2, <3>2 DEF Both
    <3>6. Saying(Value)[x][m] <=>
            /\ DOMAIN x.record \subseteq DOMAIN m.record
            /\ \A name \in DOMAIN x.record : Saying(Value)[x.record[name]][m.record[name]]
      BY <2>0, <3>5, SaysOfKind
    <3> QED
      BY <3>2, <3>3, <3>4, <3>6 DEF m
  <2>3. CASE Is("map", w) /\ (Is("map", x) \/ Is("record", x))
    <3> DEFINE entries == MergeEntries(Merging(Value), w.map, Entries(x))
    <3>1. m = [map |-> entries]
      BY <2>3, MergeMaps
    <3>2. Is("map", m) /\ m.map = entries
      BY <3>1 DEF Is
    <3>3. DOMAIN entries = DOMAIN Entries(x)
      BY DEF MergeEntries
    <3>4. ASSUME NEW key \in DOMAIN Entries(x)
          PROVE  Saying(Value)[Entries(x)[key]][entries[key]]
      <4>1. Entries(x)[key] \in Value /\ depth[Entries(x)[key]] < depth[x]
        BY <2>3, EntriesInside
      <4>2. CASE key \in DOMAIN w.map
        <5>1. w.map[key] \in Value
          BY <2>3, <4>2, InsideIsValue
        <5>2. entries[key] = Merging(Value)[w.map[key]][Entries(x)[key]]
          BY <4>2 DEF MergeEntries
        <5> QED
          BY <2>1, <4>1, <5>1, <5>2
      <4>3. CASE key \notin DOMAIN w.map
        <5>1. entries[key] = Entries(x)[key]
          BY <4>3 DEF MergeEntries
        <5> QED
          BY <4>1, <5>1, SaysItself
      <4> QED
        BY <4>2, <4>3
    <3> HIDE DEF m, entries
    <3>5. Saying(Value)[x][m] <=>
            /\ DOMAIN Entries(x) = DOMAIN m.map
            /\ \A key \in DOMAIN m.map : Saying(Value)[Entries(x)[key]][m.map[key]]
      BY <2>0, <2>3, <3>2, SaysOfKind
    <3> QED
      BY <3>2, <3>3, <3>4, <3>5 DEF m
  <2>4. CASE Both("list", w, x) /\ Len(w.list) = Len(x.list)
    <3> DEFINE items == MergeItems(Merging(Value), w.list, x.list)
    <3>1. m = [list |-> items]
      BY <2>4, MergeLists
    <3>2. Is("list", m) /\ m.list = items
      BY <3>1 DEF Is
    <3>3. w.list \in Seq(Value) /\ x.list \in Seq(Value)
      BY <2>4, ValueAssumption DEF Both
    <3>4. DOMAIN w.list = 1 .. Len(x.list) /\ DOMAIN x.list = 1 .. Len(x.list)
      BY <2>4, <3>3
    <3>5. ASSUME NEW i \in DOMAIN x.list
          PROVE  Saying(Value)[x.list[i]][items[i]]
      <4>1. x.list[i] \in Value /\ depth[x.list[i]] < depth[x] /\ w.list[i] \in Value
        BY <2>4, <3>4, InsideIsValue DEF Both
      <4>2. items[i] = Merging(Value)[w.list[i]][x.list[i]]
        BY <3>4 DEF MergeItems
      <4> QED
        BY <2>1, <4>1, <4>2
    <3>6. Len(items) = Len(x.list)
      <4>1. items \in Seq(Value)
        BY <2>0, <3>2, ValueAssumption
      <4>2. DOMAIN items = 1 .. Len(x.list)
        BY <3>4 DEF MergeItems
      <4> HIDE DEF items
      <4> QED
        BY <3>3, <4>1, <4>2
    <3> HIDE DEF m, items
    <3>7. Both("list", x, m)
      BY <2>4, <3>2 DEF Both
    <3>8. Saying(Value)[x][m] <=>
            /\ Len(x.list) = Len(m.list)
            /\ \A i \in DOMAIN x.list : Saying(Value)[x.list[i]][m.list[i]]
      BY <2>0, <3>7, SaysOfKind
    <3> QED
      BY <3>2, <3>5, <3>6, <3>8 DEF m
  <2>5. CASE Both("tuple", w, x) /\ Len(w.tuple) = Len(x.tuple)
    <3> DEFINE items == MergeItems(Merging(Value), w.tuple, x.tuple)
    <3>1. m = [tuple |-> items]
      BY <2>5, MergeTuples
    <3>2. Is("tuple", m) /\ m.tuple = items
      BY <3>1 DEF Is
    <3>3. w.tuple \in Seq(Value) /\ x.tuple \in Seq(Value)
      BY <2>5, ValueAssumption DEF Both
    <3>4. DOMAIN w.tuple = 1 .. Len(x.tuple) /\ DOMAIN x.tuple = 1 .. Len(x.tuple)
      BY <2>5, <3>3
    <3>5. ASSUME NEW i \in DOMAIN x.tuple
          PROVE  Saying(Value)[x.tuple[i]][items[i]]
      <4>1. x.tuple[i] \in Value /\ depth[x.tuple[i]] < depth[x] /\ w.tuple[i] \in Value
        BY <2>5, <3>4, InsideIsValue DEF Both
      <4>2. items[i] = Merging(Value)[w.tuple[i]][x.tuple[i]]
        BY <3>4 DEF MergeItems
      <4> QED
        BY <2>1, <4>1, <4>2
    <3>6. Len(items) = Len(x.tuple)
      <4>1. items \in Seq(Value)
        BY <2>0, <3>2, ValueAssumption
      <4>2. DOMAIN items = 1 .. Len(x.tuple)
        BY <3>4 DEF MergeItems
      <4> HIDE DEF items
      <4> QED
        BY <3>3, <4>1, <4>2
    <3> HIDE DEF m, items
    <3>7. Both("tuple", x, m)
      BY <2>5, <3>2 DEF Both
    <3>8. Saying(Value)[x][m] <=>
            /\ Len(x.tuple) = Len(m.tuple)
            /\ \A i \in DOMAIN x.tuple : Saying(Value)[x.tuple[i]][m.tuple[i]]
      BY <2>0, <3>7, SaysOfKind
    <3> QED
      BY <3>2, <3>5, <3>6, <3>8 DEF m
  <2>6. CASE Both("tag", w, x) /\ w.tag = x.tag
    <3>1. m = [tag |-> w.tag, value |-> Merging(Value)[w.value][x.value]]
      BY <2>6, MergeTags
    <3>2. Is("tag", m) /\ m.tag = x.tag /\ m.value = Merging(Value)[w.value][x.value]
      BY <2>6, <3>1 DEF Is
    <3>3. w.value \in Value /\ x.value \in Value /\ depth[x.value] < depth[x]
      BY <2>6, InsideIsValue DEF Both
    <3>4. Saying(Value)[x.value][Merging(Value)[w.value][x.value]]
      BY <2>1, <3>3
    <3> HIDE DEF m
    <3> QED
      BY <2>0, <2>6, <3>2, <3>4, SaysOfKind DEF Both, m
  <2>7. CASE Both("present", w, x)
    <3>1. m = [present |-> Merging(Value)[w.present][x.present]]
      BY <2>7, MergePresent
    <3>2. Is("present", m) /\ m.present = Merging(Value)[w.present][x.present]
      BY <2>7, <3>1 DEF Is
    <3>3. w.present \in Value /\ x.present \in Value /\ depth[x.present] < depth[x]
      BY <2>7, InsideIsValue DEF Both
    <3>4. Saying(Value)[x.present][Merging(Value)[w.present][x.present]]
      BY <2>1, <3>3
    <3> HIDE DEF m
    <3> QED
      BY <2>0, <2>7, <3>2, <3>4, SaysOfKind DEF Both, m
  <2>8. CASE m = x
    BY <2>8, SaysItself
  <2> QED
    BY <2>2, <2>3, <2>4, <2>5, <2>6, <2>7, <2>8, MergeDiffering
<1>2. \A x \in Value : x \in Good
  <2>1. \A x \in Value : (\A y \in Value : depth[y] < depth[x] => y \in Good) => x \in Good
    BY <1>1
  <2> HIDE DEF Good
  <2> QED
    BY <2>1, DepthIsNatural, NestedInduction
<1> QED
  BY <1>2 DEF Says, Merge

\* Merging changes nothing just when the observation says nothing the value does
\* not: what is compared with the model after merge_observed shows every difference.
THEOREM UnchangedIsSaid ==
  ASSUME NEW v \in Value, NEW o \in Value
  PROVE  Merge(v, o) = v <=> Says(o, v)
<1> DEFINE Good == {x \in Value : \A w \in Value : Saying(Value)[x][w] => Merging(Value)[w][x] = w}
<1>1. ASSUME NEW x \in Value, \A y \in Value : depth[y] < depth[x] => y \in Good,
             NEW w \in Value, Saying(Value)[x][w]
      PROVE  Merging(Value)[w][x] = w
  <2>1. \A y \in Value : depth[y] < depth[x] =>
          \A z \in Value : Saying(Value)[y][z] => Merging(Value)[z][y] = z
    BY <1>1
  <2> HIDE DEF Good
  <2>2. CASE Both("record", w, x)
    <3> DEFINE fields == MergeFields(Merging(Value), w.record, x.record)
    <3>1. Merging(Value)[w][x] = [record |-> fields]
      BY <2>2, MergeRecords
    <3>2. DOMAIN x.record \subseteq DOMAIN w.record
          /\ \A name \in DOMAIN x.record : Saying(Value)[x.record[name]][w.record[name]]
      BY <1>1, <2>2, SaysOfKind DEF Both
    <3>3. DOMAIN fields = DOMAIN w.record
      BY <3>2 DEF MergeFields
    <3>4. ASSUME NEW name \in DOMAIN w.record
          PROVE  fields[name] = w.record[name]
      <4>1. CASE name \in DOMAIN x.record
        <5>1. x.record[name] \in Value /\ depth[x.record[name]] < depth[x]
          BY <2>2, <4>1, InsideIsValue DEF Both
        <5>2. w.record[name] \in Value
          BY <2>2, InsideIsValue DEF Both
        <5>3. fields[name] = Merging(Value)[w.record[name]][x.record[name]]
          BY <4>1 DEF MergeFields
        <5> QED
          BY <2>1, <3>2, <4>1, <5>1, <5>2, <5>3
      <4>2. CASE name \notin DOMAIN x.record
        BY <4>2 DEF MergeFields
      <4> QED
        BY <4>1, <4>2
    <3>5. IsMapping(w.record) /\ w = [record |-> w.record]
      BY <2>2, OneKind, ValueAssumption DEF Both
    <3>6. fields = [name \in DOMAIN fields |-> fields[name]]
      BY DEF MergeFields
    <3> HIDE DEF fields
    <3>7. fields = w.record
      BY <3>3, <3>4, <3>5, <3>6 DEF IsMapping
    <3> QED
      BY <3>1, <3>5, <3>7
  <2>3. CASE Is("map", w) /\ (Is("map", x) \/ Is("record", x))
    <3> DEFINE entries == MergeEntries(Merging(Value), w.map, Entries(x))
    <3>1. Merging(Value)[w][x] = [map |-> entries]
      BY <2>3, MergeMaps
    <3>2. DOMAIN Entries(x) = DOMAIN w.map
          /\ \A key \in DOMAIN w.map : Saying(Value)[Entries(x)[key]][w.map[key]]
      BY <1>1, <2>3, SaysOfKind
    <3>3. DOMAIN entries = DOMAIN w.map
      BY <3>2 DEF MergeEntries
    <3>4. ASSUME NEW key \in DOMAIN w.map
          PROVE  entries[key] = w.map[key]
      <4>1. Entries(x)[key] \in Value /\ depth[Entries(x)[key]] < depth[x]
        BY <2>3, <3>2, EntriesInside
      <4>2. w.map[key] \in Value
        BY <2>3, InsideIsValue
      <4>3. entries[key] = Merging(Value)[w.map[key]][Entries(x)[key]]
        BY <3>2 DEF MergeEntries
      <4> QED
        BY <2>1, <3>2, <4>1, <4>2, <4>3
    <3>5. IsMapping(w.map) /\ w = [map |-> w.map]
      BY <2>3, OneKind, ValueAssumption
    <3>6. entries = [key \in DOMAIN entries |-> entries[key]]
      BY DEF MergeEntries
    <3> HIDE DEF entries
    <3>7. entries = w.map
      BY <3>3, <3>4, <3>5, <3>6 DEF IsMapping
    <3> QED
      BY <3>1, <3>5, <3>7
  <2>4. CASE Both("list", w, x)
    <3> DEFINE items == MergeItems(Merging(Value), w.list, x.list)
    <3>1. Len(x.list) = Len(w.list) /\ \A i \in DOMAIN x.list : Saying(Value)[x.list[i]][w.list[i]]
      BY <1>1, <2>4, SaysOfKind DEF Both
    <3>2. Merging(Value)[w][x] = [list |-> items]
      BY <2>4, <3>1, MergeLists
    <3>3. w.list \in Seq(Value) /\ x.list \in Seq(Value)
      BY <2>4, ValueAssumption DEF Both
    <3>4. DOMAIN w.list = DOMAIN x.list
      BY <3>1, <3>3
    <3>5. ASSUME NEW i \in DOMAIN w.list
          PROVE  Merging(Value)[w.list[i]][x.list[i]] = w.list[i]
      <4>1. x.list[i] \in Value /\ depth[x.list[i]] < depth[x] /\ w.list[i] \in Value
        BY <2>4, <3>4, InsideIsValue DEF Both
      <4> QED
        BY <2>1, <3>1, <3>4, <4>1
    <3>6. items = [i \in DOMAIN w.list |-> w.list[i]]
      BY <3>5 DEF MergeItems
    <3>7. w.list = [i \in DOMAIN w.list |-> w.list[i]] /\ w = [list |-> w.list]
      BY <2>4, <3>3, OneKind DEF Both
    <3> QED
      BY <3>2, <3>6, <3>7
  <2>5. CASE Both("tuple", w, x)
    <3> DEFINE items == MergeItems(Merging(Value), w.tuple, x.tuple)
    <3>1. Len(x.tuple) = Len(w.tuple) /\ \A i \in DOMAIN x.tuple : Saying(Value)[x.tuple[i]][w.tuple[i]]
      BY <1>1, <2>5, SaysOfKind DEF Both
    <3>2. Merging(Value)[w][x] = [tuple |-> items]
      BY <2>5, <3>1, MergeTuples
    <3>3. w.tuple \in Seq(Value) /\ x.tuple \in Seq(Value)
      BY <2>5, ValueAssumption DEF Both
    <3>4. DOMAIN w.tuple = DOMAIN x.tuple
      BY <3>1, <3>3
    <3>5. ASSUME NEW i \in DOMAIN w.tuple
          PROVE  Merging(Value)[w.tuple[i]][x.tuple[i]] = w.tuple[i]
      <4>1. x.tuple[i] \in Value /\ depth[x.tuple[i]] < depth[x] /\ w.tuple[i] \in Value
        BY <2>5, <3>4, InsideIsValue DEF Both
      <4> QED
        BY <2>1, <3>1, <3>4, <4>1
    <3>6. items = [i \in DOMAIN w.tuple |-> w.tuple[i]]
      BY <3>5 DEF MergeItems
    <3>7. w.tuple = [i \in DOMAIN w.tuple |-> w.tuple[i]] /\ w = [tuple |-> w.tuple]
      BY <2>5, <3>3, OneKind DEF Both
    <3> QED
      BY <3>2, <3>6, <3>7
  <2>6. CASE Both("tag", w, x)
    <3>1. x.tag = w.tag /\ Saying(Value)[x.value][w.value]
      BY <1>1, <2>6, SaysOfKind DEF Both
    <3>2. Merging(Value)[w][x] = [tag |-> w.tag, value |-> Merging(Value)[w.value][x.value]]
      BY <2>6, <3>1, MergeTags
    <3>3. w.value \in Value /\ x.value \in Value /\ depth[x.value] < depth[x]
      BY <2>6, InsideIsValue DEF Both
    <3>4. w = [tag |-> w.tag, value |-> w.value]
      BY <2>6, OneKind DEF Both
    <3> QED
      BY <2>1, <3>1, <3>2, <3>3, <3>4
  <2>7. CASE Both("present", w, x)
    <3>1. Saying(Value)[x.present][w.present]
      BY <1>1, <2>7, SaysOfKind DEF Both
    <3>2. Merging(Value)[w][x] = [present |-> Merging(Value)[w.present][x.present]]
      BY <2>7, MergePresent
    <3>3. w.present \in Value /\ x.present \in Value /\ depth[x.present] < depth[x]
      BY <2>7, InsideIsValue DEF Both
    <3>4. w = [present |-> w.present]
      BY <2>7, OneKind DEF Both
    <3> QED
      BY <2>1, <3>1, <3>2, <3>3, <3>4
  <2>8. CASE /\ ~Both("record", w, x) /\ ~Both("list", w, x) /\ ~Both("tuple", w, x)
             /\ ~Both("tag", w, x) /\ ~Both("present", w, x)
             /\ ~(Is("map", w) /\ (Is("map", x) \/ Is("record", x)))
    <3>1. x = w
      BY <1>1, <2>8, SaysOfKind DEF Both
    <3>2. Merging(Value)[w][x] = x
      BY <2>8, MergeDiffering
    <3> QED
      BY <3>1, <3>2
  <2> QED
    BY <2>2, <2>3, <2>4, <2>5, <2>6, <2>7, <2>8
<1>2. \A x \in Value : x \in Good
  <2>1. \A x \in Value : (\A y \in Value : depth[y] < depth[x] => y \in Good) => x \in Good
    BY <1>1
  <2> HIDE DEF Good
  <2> QED
    BY <2>1, DepthIsNatural, NestedInduction
<1>3. Says(o, v) => Merge(v, o) = v
  BY <1>2 DEF Says, Merge
<1>4. Says(o, Merge(v, o))
  BY MergedSays
<1> QED
  BY <1>3, <1>4

\* What a whole observation comes down to, for each kind.
LEMMA WholeOfKind ==
  ASSUME NEW o \in Value, NEW v \in Value, Wholeness(Value)[o][v]
  PROVE  /\ Both("record", o, v) =>
              /\ DOMAIN v.record \subseteq DOMAIN o.record
              /\ \A name \in DOMAIN v.record : Wholeness(Value)[o.record[name]][v.record[name]]
         /\ Both("map", o, v) =>
              \A key \in DOMAIN o.map \cap DOMAIN v.map : Wholeness(Value)[o.map[key]][v.map[key]]
         /\ Both("list", o, v) /\ Len(o.list) = Len(v.list) =>
              \A i \in DOMAIN o.list : Wholeness(Value)[o.list[i]][v.list[i]]
         /\ Both("tuple", o, v) /\ Len(o.tuple) = Len(v.tuple) =>
              \A i \in DOMAIN o.tuple : Wholeness(Value)[o.tuple[i]][v.tuple[i]]
         /\ Both("tag", o, v) /\ o.tag = v.tag => Wholeness(Value)[o.value][v.value]
         /\ Both("present", o, v) => Wholeness(Value)[o.present][v.present]
         /\ ~(Is("map", v) /\ Is("record", o))
<1>1. WholeParts(Wholeness(Value), o, v)
  BY WholeIs
<1>2. CASE Both("record", o, v)
  BY <1>1, <1>2, OtherKinds DEF WholeParts, Both
<1>3. CASE Both("map", o, v)
  BY <1>1, <1>3, OtherKinds DEF WholeParts, Both
<1>4. CASE Both("list", o, v)
  BY <1>1, <1>4, OtherKinds DEF WholeParts, Both
<1>5. CASE Both("tuple", o, v)
  BY <1>1, <1>5, OtherKinds DEF WholeParts, Both
<1>6. CASE Both("tag", o, v)
  BY <1>1, <1>6, OtherKinds DEF WholeParts, Both
<1>7. CASE Both("present", o, v)
  BY <1>1, <1>7, OtherKinds DEF WholeParts, Both
<1>8. CASE Is("map", v) /\ Is("record", o)
  BY <1>1, <1>8, OtherKinds DEF WholeParts, Both
<1> QED
  BY <1>2, <1>3, <1>4, <1>5, <1>6, <1>7, <1>8

\* Where an observation leaves out nothing of the value, nothing of the model's is
\* left after merge_observed: the implementation is what is compared.
THEOREM WholeReplaces ==
  ASSUME NEW v \in Value, NEW o \in Value, Whole(o, v)
  PROVE  Merge(v, o) = o
<1> DEFINE Good == {x \in Value : \A w \in Value : Wholeness(Value)[x][w] => Merging(Value)[w][x] = x}
<1>1. ASSUME NEW x \in Value, \A y \in Value : depth[y] < depth[x] => y \in Good,
             NEW w \in Value, Wholeness(Value)[x][w]
      PROVE  Merging(Value)[w][x] = x
  <2>1. \A y \in Value : depth[y] < depth[x] =>
          \A z \in Value : Wholeness(Value)[y][z] => Merging(Value)[z][y] = y
    BY <1>1
  <2> HIDE DEF Good
  <2>2. CASE Both("record", w, x)
    <3> DEFINE fields == MergeFields(Merging(Value), w.record, x.record)
    <3>1. Merging(Value)[w][x] = [record |-> fields]
      BY <2>2, MergeRecords
    <3>2. DOMAIN w.record \subseteq DOMAIN x.record
          /\ \A name \in DOMAIN w.record : Wholeness(Value)[x.record[name]][w.record[name]]
      BY <1>1, <2>2, WholeOfKind DEF Both
    <3>3. DOMAIN fields = DOMAIN x.record
      BY <3>2 DEF MergeFields
    <3>4. ASSUME NEW name \in DOMAIN x.record
          PROVE  fields[name] = x.record[name]
      <4>1. CASE name \in DOMAIN w.record
        <5>1. x.record[name] \in Value /\ depth[x.record[name]] < depth[x]
          BY <2>2, <4>1, InsideIsValue DEF Both
        <5>2. w.record[name] \in Value
          BY <2>2, <4>1, InsideIsValue DEF Both
        <5>3. fields[name] = Merging(Value)[w.record[name]][x.record[name]]
          BY <4>1 DEF MergeFields
        <5> QED
          BY <2>1, <3>2, <4>1, <5>1, <5>2, <5>3
      <4>2. CASE name \notin DOMAIN w.record
        BY <4>2 DEF MergeFields
      <4> QED
        BY <4>1, <4>2
    <3>5. IsMapping(x.record) /\ x = [record |-> x.record]
      BY <2>2, OneKind, ValueAssumption DEF Both
    <3>6. fields = [name \in DOMAIN fields |-> fields[name]]
      BY DEF MergeFields
    <3> HIDE DEF fields
    <3>7. fields = x.record
      BY <3>3, <3>4, <3>5, <3>6 DEF IsMapping
    <3> QED
      BY <3>1, <3>5, <3>7
  <2>3. CASE Both("map", w, x)
    <3> DEFINE entries == MergeEntries(Merging(Value), w.map, Entries(x))
    <3>0. Entries(x) = x.map
      BY <2>3 DEF Entries, Both
    <3>1. Merging(Value)[w][x] = [map |-> entries]
      BY <2>3, MergeMaps DEF Both
    <3>2. \A key \in DOMAIN x.map \cap DOMAIN w.map : Wholeness(Value)[x.map[key]][w.map[key]]
      BY <1>1, <2>3, WholeOfKind DEF Both
    <3>3. DOMAIN entries = DOMAIN x.map
      BY <3>0 DEF MergeEntries
    <3>4. ASSUME NEW key \in DOMAIN x.map
          PROVE  entries[key] = x.map[key]
      <4>1. CASE key \in DOMAIN w.map
        <5>1. x.map[key] \in Value /\ depth[x.map[key]] < depth[x]
          BY <2>3, InsideIsValue DEF Both
        <5>2. w.map[key] \in Value
          BY <2>3, <4>1, InsideIsValue DEF Both
        <5>3. entries[key] = Merging(Value)[w.map[key]][x.map[key]]
          BY <3>0, <4>1 DEF MergeEntries
        <5> QED
          BY <2>1, <3>2, <4>1, <5>1, <5>2, <5>3
      <4>2. CASE key \notin DOMAIN w.map
        BY <3>0, <4>2 DEF MergeEntries
      <4> QED
        BY <4>1, <4>2
    <3>5. IsMapping(x.map) /\ x = [map |-> x.map]
      BY <2>3, OneKind, ValueAssumption DEF Both
    <3>6. entries = [key \in DOMAIN entries |-> entries[key]]
      BY DEF MergeEntries
    <3> HIDE DEF entries
    <3>7. entries = x.map
      BY <3>3, <3>4, <3>5, <3>6 DEF IsMapping
    <3> QED
      BY <3>1, <3>5, <3>7
  <2>4. CASE Both("list", w, x) /\ Len(w.list) = Len(x.list)
    <3> DEFINE items == MergeItems(Merging(Value), w.list, x.list)
    <3>1. \A i \in DOMAIN x.list : Wholeness(Value)[x.list[i]][w.list[i]]
      BY <1>1, <2>4, WholeOfKind DEF Both
    <3>2. Merging(Value)[w][x] = [list |-> items]
      BY <2>4, MergeLists
    <3>3. w.list \in Seq(Value) /\ x.list \in Seq(Value)
      BY <2>4, ValueAssumption DEF Both
    <3>4. DOMAIN w.list = DOMAIN x.list
      BY <2>4, <3>3
    <3>5. ASSUME NEW i \in DOMAIN x.list
          PROVE  Merging(Value)[w.list[i]][x.list[i]] = x.list[i]
      <4>1. x.list[i] \in Value /\ depth[x.list[i]] < depth[x] /\ w.list[i] \in Value
        BY <2>4, <3>4, InsideIsValue DEF Both
      <4> QED
        BY <2>1, <3>1, <4>1
    <3>6. items = [i \in DOMAIN x.list |-> x.list[i]]
      BY <3>4, <3>5 DEF MergeItems
    <3>7. x.list = [i \in DOMAIN x.list |-> x.list[i]] /\ x = [list |-> x.list]
      BY <2>4, <3>3, OneKind DEF Both
    <3> QED
      BY <3>2, <3>6, <3>7
  <2>5. CASE Both("tuple", w, x) /\ Len(w.tuple) = Len(x.tuple)
    <3> DEFINE items == MergeItems(Merging(Value), w.tuple, x.tuple)
    <3>1. \A i \in DOMAIN x.tuple : Wholeness(Value)[x.tuple[i]][w.tuple[i]]
      BY <1>1, <2>5, WholeOfKind DEF Both
    <3>2. Merging(Value)[w][x] = [tuple |-> items]
      BY <2>5, MergeTuples
    <3>3. w.tuple \in Seq(Value) /\ x.tuple \in Seq(Value)
      BY <2>5, ValueAssumption DEF Both
    <3>4. DOMAIN w.tuple = DOMAIN x.tuple
      BY <2>5, <3>3
    <3>5. ASSUME NEW i \in DOMAIN x.tuple
          PROVE  Merging(Value)[w.tuple[i]][x.tuple[i]] = x.tuple[i]
      <4>1. x.tuple[i] \in Value /\ depth[x.tuple[i]] < depth[x] /\ w.tuple[i] \in Value
        BY <2>5, <3>4, InsideIsValue DEF Both
      <4> QED
        BY <2>1, <3>1, <4>1
    <3>6. items = [i \in DOMAIN x.tuple |-> x.tuple[i]]
      BY <3>4, <3>5 DEF MergeItems
    <3>7. x.tuple = [i \in DOMAIN x.tuple |-> x.tuple[i]] /\ x = [tuple |-> x.tuple]
      BY <2>5, <3>3, OneKind DEF Both
    <3> QED
      BY <3>2, <3>6, <3>7
  <2>6. CASE Both("tag", w, x) /\ w.tag = x.tag
    <3>1. Wholeness(Value)[x.value][w.value]
      BY <1>1, <2>6, WholeOfKind DEF Both
    <3>2. Merging(Value)[w][x] = [tag |-> w.tag, value |-> Merging(Value)[w.value][x.value]]
      BY <2>6, MergeTags
    <3>3. w.value \in Value /\ x.value \in Value /\ depth[x.value] < depth[x]
      BY <2>6, InsideIsValue DEF Both
    <3>4. x = [tag |-> w.tag, value |-> x.value]
      BY <2>6, OneKind DEF Both
    <3> QED
      BY <2>1, <3>1, <3>2, <3>3, <3>4
  <2>7. CASE Both("present", w, x)
    <3>1. Wholeness(Value)[x.present][w.present]
      BY <1>1, <2>7, WholeOfKind DEF Both
    <3>2. Merging(Value)[w][x] = [present |-> Merging(Value)[w.present][x.present]]
      BY <2>7, MergePresent
    <3>3. w.present \in Value /\ x.present \in Value /\ depth[x.present] < depth[x]
      BY <2>7, InsideIsValue DEF Both
    <3>4. x = [present |-> x.present]
      BY <2>7, OneKind DEF Both
    <3> QED
      BY <2>1, <3>1, <3>2, <3>3, <3>4
  <2>8. CASE /\ ~Both("record", w, x) /\ ~Both("present", w, x) /\ ~Both("map", w, x)
             /\ ~(Both("list", w, x) /\ Len(w.list) = Len(x.list))
             /\ ~(Both("tuple", w, x) /\ Len(w.tuple) = Len(x.tuple))
             /\ ~(Both("tag", w, x) /\ w.tag = x.tag)
    <3>1. ~(Is("map", w) /\ Is("record", x))
      BY <1>1, WholeOfKind
    <3> QED
      BY <2>8, <3>1, MergeDiffering DEF Both
  <2> QED
    BY <2>2, <2>3, <2>4, <2>5, <2>6, <2>7, <2>8
<1>2. \A x \in Value : x \in Good
  <2>1. \A x \in Value : (\A y \in Value : depth[y] < depth[x] => y \in Good) => x \in Good
    BY <1>1
  <2> HIDE DEF Good
  <2> QED
    BY <2>1, DepthIsNatural, NestedInduction
<1> QED
  BY <1>2 DEF Whole, Merge

\* Observing again what the model computed changes nothing (merge_observed).
THEOREM MergedWithItself ==
  ASSUME NEW v \in Value
  PROVE  Merge(v, v) = v
BY UnchangedIsSaid, SaysItself DEF Says

-----------------------------------------------------------------------------
height == [b \in Tree |-> Height(b)]

LEMMA HeightIsNatural == height \in [Tree -> Nat]
BY BodyAssumption DEF height

\* A body is of one kind.
LEMMA OneBody ==
  ASSUME NEW b \in Tree
  PROVE  /\ Is("guard", b) \/ Is("assign", b) \/ Is("all", b) \/ Is("any", b) \/ Is("condition", b)
         /\ Is("guard", b) => DOMAIN b = {"guard"} /\ b.guard \in Guard
         /\ Is("assign", b) => DOMAIN b = {"assign"} /\ b.assign \in Value
         /\ Is("all", b) => DOMAIN b = {"all"} /\ b.all \in Seq(Tree)
         /\ Is("any", b) => DOMAIN b = {"any"} /\ b.any \in Seq(Tree)
         /\ Is("condition", b) => DOMAIN b = {"condition", "then", "else"} /\ b.condition \in Guard
<1>1. Grown(b)
  BY BodyAssumption
<1>2. CASE DOMAIN b = {"guard"} /\ b.guard \in Guard
  BY <1>2 DEF Is
<1>3. CASE DOMAIN b = {"assign"} /\ b.assign \in Value
  BY <1>3 DEF Is
<1>4. CASE DOMAIN b = {"all"} /\ b.all \in Seq(Tree)
  BY <1>4 DEF Is
<1>5. CASE DOMAIN b = {"any"} /\ b.any \in Seq(Tree)
  BY <1>5 DEF Is
<1>6. CASE DOMAIN b = {"condition", "then", "else"} /\ b.condition \in Guard
  BY <1>6 DEF Is
<1> QED
  BY <1>1, <1>2, <1>3, <1>4, <1>5, <1>6 DEF Grown

LEMMA OtherBodies ==
  ASSUME NEW b \in Tree
  PROVE  /\ Is("guard", b) => ~Is("assign", b) /\ ~Is("all", b) /\ ~Is("any", b) /\ ~Is("condition", b)
         /\ Is("assign", b) => ~Is("guard", b) /\ ~Is("all", b) /\ ~Is("any", b) /\ ~Is("condition", b)
         /\ Is("all", b) => ~Is("guard", b) /\ ~Is("assign", b) /\ ~Is("any", b) /\ ~Is("condition", b)
         /\ Is("any", b) => ~Is("guard", b) /\ ~Is("assign", b) /\ ~Is("all", b) /\ ~Is("condition", b)
         /\ Is("condition", b) => ~Is("guard", b) /\ ~Is("assign", b) /\ ~Is("all", b) /\ ~Is("any", b)
BY OneBody DEF Is

\* What is inside a body is a body less high.
LEMMA WithinIsTree ==
  ASSUME NEW b \in Tree
  PROVE  /\ Is("all", b) =>
              /\ Within(b) = Range(b.all)
              /\ \A i \in DOMAIN b.all : b.all[i] \in Tree /\ height[b.all[i]] < height[b]
         /\ Is("any", b) =>
              /\ Within(b) = Range(b.any)
              /\ \A i \in DOMAIN b.any : b.any[i] \in Tree /\ height[b.any[i]] < height[b]
         /\ Is("condition", b) =>
              /\ Within(b) = {b.then, b.else}
              /\ b.then \in Tree /\ height[b.then] < height[b]
              /\ b.else \in Tree /\ height[b.else] < height[b]
         /\ \A c \in Within(b) : c \in Tree /\ height[c] < height[b]
<1>1. \A c \in Within(b) : c \in Tree /\ height[c] < height[b]
  BY BodyAssumption DEF height
<1>2. CASE Is("all", b)
  <2>1. Within(b) = Range(b.all) /\ ~Is("any", b) /\ ~Is("condition", b)
    BY <1>2, OtherBodies DEF Within
  <2> QED
    BY <1>1, <1>2, <2>1 DEF Range
<1>3. CASE Is("any", b)
  <2>1. Within(b) = Range(b.any) /\ ~Is("all", b) /\ ~Is("condition", b)
    BY <1>3, OtherBodies DEF Within
  <2> QED
    BY <1>1, <1>3, <2>1 DEF Range
<1>4. CASE Is("condition", b)
  <2>1. Within(b) = {b.then, b.else} /\ ~Is("all", b) /\ ~Is("any", b)
    BY <1>4, OtherBodies DEF Within
  <2> QED
    BY <1>1, <1>4, <2>1
<1> QED
  BY <1>1, <1>2, <1>3, <1>4

-----------------------------------------------------------------------------
Truths == {"true", "false", "error"}
Results == [value : Truths, sink : Sinks]

\* The arguments of a short circuit are evaluated in order, up to the k-th: each
\* with the sink of the one before it, and the last decides.
Stops(decisive, arguments, sink, result, k) ==
  /\ k \in 0 .. Len(arguments)
  /\ result \in [0 .. Len(arguments) -> Results]
  /\ result[0] = Result(Opposite(decisive), sink)
  /\ \A j \in 1 .. k :
       result[j - 1].value = Opposite(decisive) /\ result[j] = arguments[j][result[j - 1].sink]
  /\ k = Len(arguments) \/ result[k].value # Opposite(decisive)
  /\ ShortCircuit(decisive, arguments, sink) = result[k]

Deciding(decisive, arguments, sink, result) ==
  result = [i \in 0 .. Len(arguments) |->
              IF i = 0 THEN Result(Opposite(decisive), sink)
              ELSE LET before == result[i - 1]
                   IN IF before.value \in {decisive, "error"} THEN before
                      ELSE arguments[i][before.sink]]

LEMMA ShortCircuitIs ==
  ASSUME NEW decisive \in {"true", "false"}, NEW arguments \in Seq([Sinks -> Results]),
         NEW sink \in Sinks
  PROVE  \E result :
           /\ Deciding(decisive, arguments, sink, result)
           /\ ShortCircuit(decisive, arguments, sink) = result[Len(arguments)]
<1> DEFINE n == Len(arguments)
           S == 0 .. n
           first == Result(Opposite(decisive), sink)
           F == [g \in [S -> Results] |-> [i \in S |->
                   IF i = 0 THEN first
                   ELSE IF g[i - 1].value \in {decisive, "error"} THEN g[i - 1]
                        ELSE arguments[i][g[i - 1].sink]]]
           D == [i \in S |-> i]
<1>0. n \in Nat /\ DOMAIN arguments = 1 .. n /\ \A i \in 1 .. n : arguments[i] \in [Sinks -> Results]
  OBVIOUS
<1>1. first \in Results
  BY DEF Results, Result, Opposite, Truths
<1>2. D \in [S -> Nat]
  BY <1>0
<1>3. \A g \in [S -> Results] : F[g] \in [S -> Results]
  <2> SUFFICES ASSUME NEW g \in [S -> Results], NEW i \in S PROVE F[g][i] \in Results
    OBVIOUS
  <2> HIDE DEF n, first
  <2>1. CASE i = 0
    BY <1>1, <2>1
  <2>2. CASE i # 0
    <3>1. i - 1 \in S /\ i \in 1 .. n
      BY <1>0, <2>2
    <3>2. g[i - 1] \in Results /\ g[i - 1].sink \in Sinks
      BY <3>1 DEF Results
    <3>3. arguments[i][g[i - 1].sink] \in Results
      BY <1>0, <3>1, <3>2
    <3> QED
      BY <2>2, <3>2, <3>3
  <2> QED
    BY <2>1, <2>2
<1>4. \A g, h \in [S -> Results], i \in S :
        (\A j \in S : D[j] < D[i] => g[j] = h[j]) => F[g][i] = F[h][i]
  <2> SUFFICES ASSUME NEW g \in [S -> Results], NEW h \in [S -> Results], NEW i \in S,
                      \A j \in S : D[j] < D[i] => g[j] = h[j]
               PROVE  F[g][i] = F[h][i]
    OBVIOUS
  <2> HIDE DEF n, first
  <2>1. CASE i = 0
    BY <2>1
  <2>2. CASE i # 0
    <3>1. i - 1 \in S /\ D[i - 1] < D[i]
      BY <1>0, <2>2
    <3>2. g[i - 1] = h[i - 1]
      BY <3>1
    <3> QED
      BY <2>2, <3>2
  <2> QED
    BY <2>1, <2>2
<1>5. Nested(F, S, Results, D)
  <2>1. F \in [[S -> Results] -> [S -> Results]]
    <3>1. F = [g \in [S -> Results] |-> F[g]]
      OBVIOUS
    <3> HIDE DEF F, S
    <3> QED
      BY <1>3, <3>1
  <2> HIDE DEF F, S, D
  <2> QED
    BY <1>4, <2>1 DEF Nested
<1>6. Results # {}
  BY <1>1
<1>7. \E g \in [S -> Results] : F[g] = g
  <2> HIDE DEF F, S, D
  <2> QED
    BY <1>2, <1>5, <1>6, NestedRecursion
<1>8. \E g : Deciding(decisive, arguments, sink, g)
  <2>1. PICK g \in [S -> Results] : F[g] = g
    BY <1>7
  <2>2. g = [i \in S |->
               IF i = 0 THEN first
               ELSE IF g[i - 1].value \in {decisive, "error"} THEN g[i - 1]
                    ELSE arguments[i][g[i - 1].sink]]
    BY <2>1
  <2> QED
    BY <2>2 DEF Deciding
<1> DEFINE result == CHOOSE g : Deciding(decisive, arguments, sink, g)
<1>9. Deciding(decisive, arguments, sink, result)
  BY <1>8
<1>10. ShortCircuit(decisive, arguments, sink) = result[n]
  BY DEF ShortCircuit, Deciding
<1> QED
  BY <1>9, <1>10

LEMMA ShortCircuitStops ==
  ASSUME NEW decisive \in {"true", "false"}, NEW arguments \in Seq([Sinks -> Results]),
         NEW sink \in Sinks
  PROVE  \E result, k : Stops(decisive, arguments, sink, result, k)
<1> DEFINE n == Len(arguments)
           S == 0 .. n
           D == [i \in S |-> i]
           opposite == Opposite(decisive)
<1>0. n \in Nat /\ DOMAIN arguments = 1 .. n /\ \A i \in 1 .. n : arguments[i] \in [Sinks -> Results]
  OBVIOUS
<1>1. PICK result :
        /\ Deciding(decisive, arguments, sink, result)
        /\ ShortCircuit(decisive, arguments, sink) = result[n]
  BY ShortCircuitIs
<1>2. /\ result[0] = Result(opposite, sink)
      /\ \A i \in 1 .. n :
           result[i] = IF result[i - 1].value \in {decisive, "error"} THEN result[i - 1]
                       ELSE arguments[i][result[i - 1].sink]
      /\ result = [i \in S |-> result[i]]
  <2>1. result = [i \in S |->
              IF i = 0 THEN Result(opposite, sink)
              ELSE IF result[i - 1].value \in {decisive, "error"} THEN result[i - 1]
                   ELSE arguments[i][result[i - 1].sink]]
    BY <1>1 DEF Deciding
  <2>2. 0 \in S /\ \A i \in 1 .. n : i \in S /\ i # 0
    BY <1>0
  <2>3. result = [i \in S |-> result[i]]
    BY <2>1
  <2> HIDE DEF S, n, opposite
  <2>4. result[0] = Result(opposite, sink)
    BY <2>1, <2>2
  <2>5. \A i \in 1 .. n :
           result[i] = IF result[i - 1].value \in {decisive, "error"} THEN result[i - 1]
                       ELSE arguments[i][result[i - 1].sink]
    BY <2>1, <2>2
  <2> QED
    BY <2>3, <2>4, <2>5
<1>3. \A i \in S : result[i] \in Results
  <2> DEFINE Good == {i \in S : result[i] \in Results}
  <2>1. ASSUME NEW i \in S, \A j \in S : D[j] < D[i] => j \in Good
        PROVE  i \in Good
    <3>1. CASE i = 0
      BY <1>2, <3>1 DEF Results, Result, Opposite, Truths
    <3>2. CASE i # 0
      <4>1. i \in 1 .. n /\ i - 1 \in S /\ D[i - 1] < D[i]
        BY <1>0, <3>2
      <4>2. result[i - 1] \in Results /\ result[i - 1].sink \in Sinks
        BY <2>1, <4>1 DEF Results
      <4>3. arguments[i][result[i - 1].sink] \in Results
        BY <1>0, <4>1, <4>2
      <4> HIDE DEF n
      <4>4. result[i] \in Results
        BY <1>2, <4>1, <4>2, <4>3
      <4> QED
        BY <4>4
    <3> QED
      BY <3>1, <3>2
  <2>2. D \in [S -> Nat]
    BY <1>0
  <2>3. \A i \in S : i \in Good
    <3> HIDE DEF Good, S, D
    <3> QED
      BY <2>1, <2>2, NestedInduction
  <2> QED
    BY <2>3
<1>4. result \in [S -> Results]
  BY <1>2, <1>3
<1>5. \A i \in S : result[i].value \in Truths
  BY <1>3 DEF Results
<1>6. Truths = {decisive, opposite, "error"} /\ opposite # decisive /\ opposite # "error"
  BY DEF Truths, Opposite
<1> DEFINE Stopped == {i \in S : result[i].value # opposite}
<1>7. CASE Stopped = {}
  <2>1. \A j \in 1 .. n : result[j - 1].value = opposite /\ result[j] = arguments[j][result[j - 1].sink]
    <3> SUFFICES ASSUME NEW j \in 1 .. n
                 PROVE  result[j - 1].value = opposite /\ result[j] = arguments[j][result[j - 1].sink]
      OBVIOUS
    <3>1. j - 1 \in S
      BY <1>0
    <3>2. result[j - 1].value = opposite
      BY <1>7, <3>1
    <3> HIDE DEF n, opposite
    <3> QED
      BY <1>2, <1>6, <3>2
  <2>2. Stops(decisive, arguments, sink, result, n)
    <3> HIDE DEF Stopped
    <3>1. n \in 0 .. n
      BY <1>0
    <3> QED
      BY <1>1, <1>2, <1>4, <2>1, <3>1 DEF Stops
  <2> QED
    BY <2>2
<1>8. CASE Stopped # {}
  <2>1. PICK k \in Stopped : \A j \in Stopped : ~(j < k)
    <3>1. Stopped \in SUBSET Nat
      BY <1>0
    <3> HIDE DEF Stopped
    <3> QED
      BY <1>8, <3>1, LeastNatural
  <2>2. k \in S /\ result[k].value # opposite
    BY <2>1
  <2>3. \A j \in 1 .. k : result[j - 1].value = opposite /\ result[j] = arguments[j][result[j - 1].sink]
    <3> SUFFICES ASSUME NEW j \in 1 .. k
                 PROVE  result[j - 1].value = opposite /\ result[j] = arguments[j][result[j - 1].sink]
      OBVIOUS
    <3>1. j \in 1 .. n /\ j - 1 \in S /\ j - 1 < k
      BY <1>0, <2>2
    <3>2. result[j - 1].value = opposite
      BY <2>1, <3>1
    <3> HIDE DEF n, opposite
    <3> QED
      BY <1>2, <1>6, <3>1, <3>2
  <2>4. \A i \in S : k <= i => result[i] = result[k]
    <3> DEFINE Same == {i \in S : k <= i => result[i] = result[k]}
    <3>1. ASSUME NEW i \in S, \A j \in S : D[j] < D[i] => j \in Same
          PROVE  i \in Same
      <4>1. CASE i <= k
        BY <1>0, <2>2, <4>1
      <4>2. CASE i > k
        <5>1. i \in 1 .. n /\ i - 1 \in S /\ D[i - 1] < D[i] /\ k <= i - 1
          BY <1>0, <2>2, <4>2
        <5>2. result[i - 1] = result[k]
          BY <3>1, <5>1
        <5>3. result[k].value \in {decisive, "error"}
          BY <1>5, <1>6, <2>2
        <5> HIDE DEF n
        <5>4. result[i] = result[i - 1]
          BY <1>2, <5>1, <5>2, <5>3
        <5> QED
          BY <5>2, <5>4
      <4> QED
        BY <1>0, <2>2, <4>1, <4>2
    <3>2. D \in [S -> Nat]
      BY <1>0
    <3>3. \A i \in S : i \in Same
      <4> HIDE DEF Same, S, D
      <4> QED
        BY <3>1, <3>2, NestedInduction
    <3> QED
      BY <3>3
  <2>5. result[n] = result[k]
    BY <1>0, <2>2, <2>4
  <2>6. Stops(decisive, arguments, sink, result, k)
    <3> HIDE DEF Stopped
    <3> QED
      BY <1>0, <1>1, <1>2, <1>4, <2>2, <2>3, <2>5 DEF Stops
  <2> QED
    BY <2>6
<1> QED
  BY <1>7, <1>8

LEMMA ShortCircuitTyped ==
  ASSUME NEW decisive \in {"true", "false"}, NEW arguments \in Seq([Sinks -> Results]),
         NEW sink \in Sinks
  PROVE  ShortCircuit(decisive, arguments, sink) \in Results
<1>1. PICK result, k : Stops(decisive, arguments, sink, result, k)
  BY ShortCircuitStops
<1> QED
  BY <1>1 DEF Stops

-----------------------------------------------------------------------------
Each(evaluate, arguments) == [i \in DOMAIN arguments |-> evaluate[arguments[i]]]

\* What a body evaluates to depends on what is inside only.
LEMMA EvaluateAgrees ==
  ASSUME NEW g, NEW h, NEW b \in Tree, NEW pass, NEW sink,
         \A c \in Tree : height[c] < height[b] => g[c] = h[c]
  PROVE  EvaluateParts(g, b, pass, sink) = EvaluateParts(h, b, pass, sink)
<1>1. CASE Is("all", b)
  <2>1. \A i \in DOMAIN b.all : g[b.all[i]] = h[b.all[i]]
    BY <1>1, WithinIsTree
  <2>2. Each(g, b.all) = Each(h, b.all)
    BY <2>1 DEF Each
  <2> QED
    BY <1>1, <2>2, OtherBodies DEF EvaluateParts, Each
<1>2. CASE Is("any", b)
  <2>1. \A i \in DOMAIN b.any : g[b.any[i]] = h[b.any[i]]
    BY <1>2, WithinIsTree
  <2>2. Each(g, b.any) = Each(h, b.any)
    BY <2>1 DEF Each
  <2> QED
    BY <1>2, <2>2, OtherBodies DEF EvaluateParts, Each
<1>3. CASE Is("condition", b)
  <2>1. g[b.then] = h[b.then] /\ g[b.else] = h[b.else]
    BY <1>3, WithinIsTree
  <2> QED
    BY <1>3, <2>1, OtherBodies DEF EvaluateParts
<1>4. CASE Is("guard", b)
  BY <1>4 DEF EvaluateParts
<1>5. CASE Is("assign", b)
  BY <1>5, OtherBodies DEF EvaluateParts
<1> QED
  BY <1>1, <1>2, <1>3, <1>4, <1>5, OneBody

\* Evaluation is typed where that of what is inside is.
LEMMA EvaluateTyped ==
  ASSUME NEW g, NEW b \in Tree, NEW pass, NEW sink \in Sinks,
         \A c \in Tree : height[c] < height[b] => g[c] \in [Sinks -> Results]
  PROVE  EvaluateParts(g, b, pass, sink) \in Results
<1>1. CASE Is("all", b)
  <2>1. \A i \in DOMAIN b.all : g[b.all[i]] \in [Sinks -> Results]
    BY <1>1, WithinIsTree
  <2>2. Each(g, b.all) \in Seq([Sinks -> Results])
    BY <1>1, <2>1, OneBody DEF Each
  <2>3. EvaluateParts(g, b, pass, sink) = ShortCircuit("false", Each(g, b.all), sink)
    BY <1>1, OtherBodies DEF EvaluateParts, Each
  <2> QED
    BY <2>2, <2>3, ShortCircuitTyped
<1>2. CASE Is("any", b)
  <2>1. \A i \in DOMAIN b.any : g[b.any[i]] \in [Sinks -> Results]
    BY <1>2, WithinIsTree
  <2>2. Each(g, b.any) \in Seq([Sinks -> Results])
    BY <1>2, <2>1, OneBody DEF Each
  <2>3. EvaluateParts(g, b, pass, sink) = ShortCircuit("true", Each(g, b.any), sink)
    BY <1>2, OtherBodies DEF EvaluateParts, Each
  <2> QED
    BY <2>2, <2>3, ShortCircuitTyped
<1>3. CASE Is("condition", b)
  <2>1. g[b.then] \in [Sinks -> Results] /\ g[b.else] \in [Sinks -> Results]
    BY <1>3, WithinIsTree
  <2>2. Result("error", sink) \in Results
    BY DEF Result, Results, Truths
  <2> QED
    BY <1>3, <2>1, <2>2, OtherBodies DEF EvaluateParts
<1>4. CASE Is("guard", b)
  BY <1>4, OneBody DEF EvaluateParts, Result, Results, Truths, Guard
<1>5. CASE Is("assign", b)
  <2>1. b.assign \in Sinks
    BY <1>5, OneBody DEF Sinks
  <2>2. EvaluateParts(g, b, pass, sink) = Assign(b.assign, pass, sink)
    BY <1>5, OtherBodies DEF EvaluateParts
  <2> QED
    BY <2>1, <2>2 DEF Assign, Result, Results, Truths
<1> QED
  BY <1>1, <1>2, <1>3, <1>4, <1>5, OneBody

\* So there is a function that evaluates by evaluating what is inside.
LEMMA EvaluatingRecursion ==
  ASSUME NEW pass
  PROVE  Evaluating(pass) =
           [b \in Tree |-> [sink \in Sinks |-> EvaluateParts(Evaluating(pass), b, pass, sink)]]
<1> DEFINE T == [Sinks -> Results]
           F == [g \in [Tree -> T] |->
                  [b \in Tree |-> [sink \in Sinks |-> EvaluateParts(g, b, pass, sink)]]]
<1>1. F \in [[Tree -> T] -> [Tree -> T]]
  <2> SUFFICES ASSUME NEW g \in [Tree -> T], NEW b \in Tree, NEW sink \in Sinks
               PROVE  EvaluateParts(g, b, pass, sink) \in Results
    OBVIOUS
  <2> QED
    BY EvaluateTyped
<1>2. ASSUME NEW g \in [Tree -> T], NEW h \in [Tree -> T], NEW b \in Tree,
             \A c \in Tree : height[c] < height[b] => g[c] = h[c]
      PROVE  F[g][b] = F[h][b]
  <2>1. \A sink \in Sinks : EvaluateParts(g, b, pass, sink) = EvaluateParts(h, b, pass, sink)
    BY <1>2, EvaluateAgrees
  <2> QED
    BY <2>1
<1>3. Nested(F, Tree, T, height)
  <2> HIDE DEF F, T
  <2> QED
    BY <1>1, <1>2 DEF Nested
<1>4. T # {}
  <2>1. Result("true", Nothing) \in Results
    BY DEF Result, Results, Truths, Sinks
  <2>2. [sink \in Sinks |-> Result("true", Nothing)] \in T
    BY <2>1
  <2> QED
    BY <2>2
<1>5. \E g \in [Tree -> T] : F[g] = g
  <2> HIDE DEF F, T
  <2> QED
    BY <1>3, <1>4, HeightIsNatural, NestedRecursion
<1>6. \E f : f = [b \in Tree |-> [sink \in Sinks |-> EvaluateParts(f, b, pass, sink)]]
  <2>1. PICK g \in [Tree -> T] : F[g] = g
    BY <1>5
  <2>2. F[g] = [b \in Tree |-> [sink \in Sinks |-> EvaluateParts(g, b, pass, sink)]]
    BY <2>1
  <2> HIDE DEF F
  <2> QED
    BY <2>1, <2>2
<1> QED
  BY <1>6 DEF Evaluating

LEMMA EvaluateIs ==
  ASSUME NEW pass, NEW b \in Tree
  PROVE  /\ Evaluating(pass)[b] \in [Sinks -> Results]
         /\ \A sink \in Sinks :
              Evaluating(pass)[b][sink] = EvaluateParts(Evaluating(pass), b, pass, sink)
<1> DEFINE f == Evaluating(pass)
           Good == {c \in Tree : f[c] \in [Sinks -> Results]}
<1>1. \A c \in Tree : f[c] = [sink \in Sinks |-> EvaluateParts(f, c, pass, sink)]
  <2> DEFINE whole == [c \in Tree |-> [sink \in Sinks |-> EvaluateParts(f, c, pass, sink)]]
  <2>1. f = whole
    BY EvaluatingRecursion
  <2>2. \A c \in Tree : whole[c] = [sink \in Sinks |-> EvaluateParts(f, c, pass, sink)]
    OBVIOUS
  <2> HIDE DEF whole, f
  <2> QED
    BY <2>1, <2>2
<1> HIDE DEF f
<1>2. ASSUME NEW c \in Tree, \A d \in Tree : height[d] < height[c] => d \in Good
      PROVE  c \in Good
  <2>1. \A sink \in Sinks : EvaluateParts(f, c, pass, sink) \in Results
    BY <1>2, EvaluateTyped
  <2> QED
    BY <1>1, <2>1
<1>3. \A c \in Tree : c \in Good
  <2> HIDE DEF Good
  <2> QED
    BY <1>2, HeightIsNatural, NestedInduction
<1> QED
  BY <1>1, <1>3 DEF f

\* What evaluation comes down to, for each kind of body.
LEMMA EvaluateKinds ==
  ASSUME NEW pass, NEW b \in Tree, NEW sink \in Sinks
  PROVE  /\ Is("guard", b) =>
              Evaluating(pass)[b][sink] = Result(IF b.guard = "fails" THEN "error" ELSE b.guard, sink)
         /\ Is("assign", b) => Evaluating(pass)[b][sink] = Assign(b.assign, pass, sink)
         /\ Is("all", b) =>
              Evaluating(pass)[b][sink] = ShortCircuit("false", Each(Evaluating(pass), b.all), sink)
         /\ Is("any", b) =>
              Evaluating(pass)[b][sink] = ShortCircuit("true", Each(Evaluating(pass), b.any), sink)
         /\ Is("condition", b) =>
              Evaluating(pass)[b][sink] =
                IF b.condition = "fails" THEN Result("error", sink)
                ELSE Evaluating(pass)[IF b.condition = "true" THEN b.then ELSE b.else][sink]
<1> DEFINE f == Evaluating(pass)
<1>1. f[b][sink] = EvaluateParts(f, b, pass, sink)
  BY EvaluateIs
<1> HIDE DEF f
<1>2. CASE Is("guard", b)
  BY <1>1, <1>2, OtherBodies DEF EvaluateParts, f
<1>3. CASE Is("assign", b)
  BY <1>1, <1>3, OtherBodies DEF EvaluateParts, f
<1>4. CASE Is("all", b)
  BY <1>1, <1>4, OtherBodies DEF EvaluateParts, Each, f
<1>5. CASE Is("any", b)
  BY <1>1, <1>5, OtherBodies DEF EvaluateParts, Each, f
<1>6. CASE Is("condition", b)
  BY <1>1, <1>6, OtherBodies DEF EvaluateParts, f
<1> QED
  BY <1>2, <1>3, <1>4, <1>5, <1>6, OneBody, OtherBodies

LEMMA EachIsTyped ==
  ASSUME NEW pass, NEW arguments \in Seq(Tree)
  PROVE  /\ Each(Evaluating(pass), arguments) \in Seq([Sinks -> Results])
         /\ Len(Each(Evaluating(pass), arguments)) = Len(arguments)
         /\ \A i \in 1 .. Len(arguments) :
              Each(Evaluating(pass), arguments)[i] = Evaluating(pass)[arguments[i]]
<1>1. \A i \in DOMAIN arguments : arguments[i] \in Tree
  OBVIOUS
<1>2. \A i \in DOMAIN arguments : Evaluating(pass)[arguments[i]] \in [Sinks -> Results]
  BY <1>1, EvaluateIs
<1> QED
  BY <1>2 DEF Each

\* The arguments of an `all` or an `any`, evaluated in order up to the k-th.
Runs(decisive, arguments, pass, sink, result, k) ==
  /\ k \in 0 .. Len(arguments)
  /\ result \in [0 .. Len(arguments) -> Results]
  /\ result[0] = Result(Opposite(decisive), sink)
  /\ \A j \in 1 .. k :
       /\ result[j - 1].value = Opposite(decisive)
       /\ result[j] = Evaluating(pass)[arguments[j]][result[j - 1].sink]
  /\ k = Len(arguments) \/ result[k].value # Opposite(decisive)

LEMMA AllRuns ==
  ASSUME NEW pass, NEW b \in Tree, NEW sink \in Sinks, Is("all", b)
  PROVE  \E result, k : /\ Runs("false", b.all, pass, sink, result, k)
                        /\ Evaluating(pass)[b][sink] = result[k]
<1> DEFINE each == Each(Evaluating(pass), b.all)
<1>1. Evaluating(pass)[b][sink] = ShortCircuit("false", each, sink)
  BY EvaluateKinds
<1>2. /\ each \in Seq([Sinks -> Results]) /\ Len(each) = Len(b.all)
      /\ \A i \in 1 .. Len(b.all) : each[i] = Evaluating(pass)[b.all[i]]
  BY OneBody, EachIsTyped
<1> HIDE DEF each
<1>3. PICK result, k : Stops("false", each, sink, result, k)
  BY <1>2, ShortCircuitStops
<1>4. Len(b.all) \in Nat
  BY OneBody
<1>5. Runs("false", b.all, pass, sink, result, k) /\ Evaluating(pass)[b][sink] = result[k]
  BY <1>1, <1>2, <1>3, <1>4 DEF Stops, Runs
<1> QED
  BY <1>5

LEMMA AnyRuns ==
  ASSUME NEW pass, NEW b \in Tree, NEW sink \in Sinks, Is("any", b)
  PROVE  \E result, k : /\ Runs("true", b.any, pass, sink, result, k)
                        /\ Evaluating(pass)[b][sink] = result[k]
<1> DEFINE each == Each(Evaluating(pass), b.any)
<1>1. Evaluating(pass)[b][sink] = ShortCircuit("true", each, sink)
  BY EvaluateKinds
<1>2. /\ each \in Seq([Sinks -> Results]) /\ Len(each) = Len(b.any)
      /\ \A i \in 1 .. Len(b.any) : each[i] = Evaluating(pass)[b.any[i]]
  BY OneBody, EachIsTyped
<1> HIDE DEF each
<1>3. PICK result, k : Stops("true", each, sink, result, k)
  BY <1>2, ShortCircuitStops
<1>4. Len(b.any) \in Nat
  BY OneBody
<1>5. Runs("true", b.any, pass, sink, result, k) /\ Evaluating(pass)[b][sink] = result[k]
  BY <1>1, <1>2, <1>3, <1>4 DEF Stops, Runs
<1> QED
  BY <1>5

-----------------------------------------------------------------------------
\* Outcomes, parts and needs are defined by those of what is inside.
LEMMA OutcomesAgree ==
  ASSUME NEW g, NEW h, NEW b \in Tree,
         \A c \in Tree : height[c] < height[b] => g[c] = h[c]
  PROVE  OutcomesOf(g, b) = OutcomesOf(h, b)
<1>1. CASE Is("all", b)
  <2>1. \A i \in DOMAIN b.all : g[b.all[i]] = h[b.all[i]]
    BY <1>1, WithinIsTree
  <2>2. {g[b.all[i]] : i \in DOMAIN b.all} = {h[b.all[i]] : i \in DOMAIN b.all}
    BY <2>1
  <2> QED
    BY <1>1, <2>2, OtherBodies DEF OutcomesOf
<1>2. CASE Is("any", b)
  <2>1. \A i \in DOMAIN b.any : g[b.any[i]] = h[b.any[i]]
    BY <1>2, WithinIsTree
  <2>2. {g[b.any[i]] : i \in DOMAIN b.any} = {h[b.any[i]] : i \in DOMAIN b.any}
    BY <2>1
  <2> QED
    BY <1>2, <2>2, OtherBodies DEF OutcomesOf
<1>3. CASE Is("condition", b)
  <2>1. g[b.then] = h[b.then] /\ g[b.else] = h[b.else]
    BY <1>3, WithinIsTree
  <2> QED
    BY <1>3, <2>1, OtherBodies DEF OutcomesOf
<1>4. CASE Is("guard", b)
  BY <1>4 DEF OutcomesOf
<1>5. CASE Is("assign", b)
  BY <1>5, OtherBodies DEF OutcomesOf
<1> QED
  BY <1>1, <1>2, <1>3, <1>4, <1>5, OneBody

LEMMA OutcomesTyped ==
  ASSUME NEW g, NEW b \in Tree,
         \A c \in Tree : height[c] < height[b] => g[c] \in SUBSET Sinks
  PROVE  OutcomesOf(g, b) \in SUBSET Sinks
<1>1. CASE Is("all", b)
  <2>1. \A i \in DOMAIN b.all : g[b.all[i]] \in SUBSET Sinks
    BY <1>1, WithinIsTree
  <2> DEFINE each == {g[b.all[i]] : i \in DOMAIN b.all}
             assigned == (UNION each) \ {Nothing}
  <2>2. assigned \in SUBSET Sinks /\ {Nothing} \in SUBSET Sinks
    BY <2>1 DEF Sinks
  <2>3. OutcomesOf(g, b) = CASE {} \in each -> {}
                             [] {} \notin each /\ assigned = {} -> {Nothing}
                             [] OTHER -> assigned
    BY <1>1, OtherBodies DEF OutcomesOf
  <2> HIDE DEF each, assigned
  <2> QED
    BY <2>2, <2>3
<1>2. CASE Is("any", b)
  <2>1. \A i \in DOMAIN b.any : g[b.any[i]] \in SUBSET Sinks
    BY <1>2, WithinIsTree
  <2>2. OutcomesOf(g, b) = UNION {g[b.any[i]] : i \in DOMAIN b.any}
    BY <1>2, OtherBodies DEF OutcomesOf
  <2> QED
    BY <2>1, <2>2
<1>3. CASE Is("condition", b)
  <2>1. g[b.then] \in SUBSET Sinks /\ g[b.else] \in SUBSET Sinks
    BY <1>3, WithinIsTree
  <2>2. OutcomesOf(g, b) \in {g[b.then], g[b.else], {}}
    BY <1>3, OtherBodies DEF OutcomesOf
  <2> QED
    BY <2>1, <2>2
<1>4. CASE Is("guard", b)
  <2>1. OutcomesOf(g, b) = IF b.guard = "true" THEN {Nothing} ELSE {}
    BY <1>4, OtherBodies DEF OutcomesOf
  <2> QED
    BY <2>1 DEF Sinks
<1>5. CASE Is("assign", b)
  BY <1>5, OneBody, OtherBodies DEF OutcomesOf, Sinks
<1> QED
  BY <1>1, <1>2, <1>3, <1>4, <1>5, OneBody

LEMMA OutcomesRecursion ==
  OutcomesIn(Tree) = [b \in Tree |-> OutcomesOf(OutcomesIn(Tree), b)]
<1> DEFINE T == SUBSET Sinks
           F == [g \in [Tree -> T] |-> [b \in Tree |-> OutcomesOf(g, b)]]
<1>1. F \in [[Tree -> T] -> [Tree -> T]]
  <2> SUFFICES ASSUME NEW g \in [Tree -> T], NEW b \in Tree
               PROVE  OutcomesOf(g, b) \in T
    OBVIOUS
  <2> QED
    BY OutcomesTyped
<1>2. ASSUME NEW g \in [Tree -> T], NEW h \in [Tree -> T], NEW b \in Tree,
             \A c \in Tree : height[c] < height[b] => g[c] = h[c]
      PROVE  F[g][b] = F[h][b]
  BY <1>2, OutcomesAgree
<1>3. Nested(F, Tree, T, height)
  <2> HIDE DEF F, T
  <2> QED
    BY <1>1, <1>2 DEF Nested
<1>4. T # {}
  OBVIOUS
<1>5. \E g \in [Tree -> T] : F[g] = g
  <2> HIDE DEF F, T
  <2> QED
    BY <1>3, <1>4, HeightIsNatural, NestedRecursion
<1>6. \E f : f = [b \in Tree |-> OutcomesOf(f, b)]
  <2>1. PICK g \in [Tree -> T] : F[g] = g
    BY <1>5
  <2>2. F[g] = [b \in Tree |-> OutcomesOf(g, b)]
    BY <2>1
  <2> HIDE DEF F
  <2> QED
    BY <2>1, <2>2
<1> QED
  BY <1>6 DEF OutcomesIn

LEMMA OutcomesIs ==
  ASSUME NEW b \in Tree
  PROVE  /\ Outcomes(b) \in SUBSET Sinks
         /\ OutcomesIn(Tree)[b] = Outcomes(b)
         /\ Outcomes(b) = OutcomesOf(OutcomesIn(Tree), b)
<1> DEFINE f == OutcomesIn(Tree)
           Good == {c \in Tree : f[c] \in SUBSET Sinks}
<1>1. \A c \in Tree : f[c] = OutcomesOf(f, c)
  BY OutcomesRecursion
<1> HIDE DEF f
<1>2. ASSUME NEW c \in Tree, \A d \in Tree : height[d] < height[c] => d \in Good
      PROVE  c \in Good
  BY <1>1, <1>2, OutcomesTyped
<1>3. \A c \in Tree : c \in Good
  <2> HIDE DEF Good
  <2> QED
    BY <1>2, HeightIsNatural, NestedInduction
<1> QED
  BY <1>1, <1>3 DEF f, Outcomes

\* The outcomes of each kind of body.
LEMMA OutcomesOfKind ==
  ASSUME NEW b \in Tree
  PROVE  /\ Is("guard", b) => Outcomes(b) = IF b.guard = "true" THEN {Nothing} ELSE {}
         /\ Is("assign", b) => Outcomes(b) = {b.assign}
         /\ Is("any", b) => Outcomes(b) = UNION {Outcomes(b.any[i]) : i \in DOMAIN b.any}
         /\ Is("condition", b) =>
              Outcomes(b) = CASE b.condition = "true" -> Outcomes(b.then)
                              [] b.condition = "false" -> Outcomes(b.else)
                              [] OTHER -> {}
<1>1. Outcomes(b) = OutcomesOf(OutcomesIn(Tree), b)
  BY OutcomesIs
<1>2. CASE Is("guard", b)
  BY <1>1, <1>2, OtherBodies DEF OutcomesOf
<1>3. CASE Is("assign", b)
  BY <1>1, <1>3, OtherBodies DEF OutcomesOf
<1>4. CASE Is("any", b)
  BY <1>1, <1>4, OtherBodies DEF OutcomesOf, Outcomes
<1>5. CASE Is("condition", b)
  BY <1>1, <1>5, OtherBodies DEF OutcomesOf, Outcomes
<1>6. CASE Is("all", b)
  BY <1>6, OtherBodies
<1> QED
  BY <1>2, <1>3, <1>4, <1>5, <1>6, OneBody, OtherBodies

\* An `all` has an outcome just when each conjunct has, and any assigned there.
LEMMA OutcomesOfAll ==
  ASSUME NEW b \in Tree, Is("all", b)
  PROVE  /\ Outcomes(b) # {} <=> \A i \in DOMAIN b.all : Outcomes(b.all[i]) # {}
         /\ Outcomes(b) # {} => \A i \in DOMAIN b.all : Outcomes(b.all[i]) \ {Nothing} \subseteq Outcomes(b)
         /\ \A s \in Outcomes(b) : s = Nothing \/ \E i \in DOMAIN b.all : s \in Outcomes(b.all[i])
         /\ Nothing \in Outcomes(b) => \A i \in DOMAIN b.all : Outcomes(b.all[i]) \subseteq {Nothing}
<1> DEFINE each == {Outcomes(b.all[i]) : i \in DOMAIN b.all}
           assigned == (UNION each) \ {Nothing}
<1>1. Outcomes(b) = OutcomesOf(OutcomesIn(Tree), b)
  BY OutcomesIs
<1>2. Outcomes(b) = CASE {} \in each -> {}
                      [] {} \notin each /\ assigned = {} -> {Nothing}
                      [] OTHER -> assigned
  BY <1>1, OtherBodies DEF OutcomesOf, Outcomes
<1>3. CASE {} \in each
  <2>1. Outcomes(b) = {}
    <3> HIDE DEF each, assigned
    <3> QED
      BY <1>2, <1>3
  <2> QED
    BY <1>3, <2>1
<1>4. CASE {} \notin each /\ assigned = {}
  <2>1. Outcomes(b) = {Nothing}
    <3> HIDE DEF each, assigned
    <3> QED
      BY <1>2, <1>4
  <2>2. \A i \in DOMAIN b.all : Outcomes(b.all[i]) # {} /\ Outcomes(b.all[i]) \subseteq {Nothing}
    BY <1>4
  <2> QED
    BY <2>1, <2>2
<1>5. CASE {} \notin each /\ assigned # {}
  <2>1. Outcomes(b) = assigned
    <3> HIDE DEF each, assigned
    <3> QED
      BY <1>2, <1>5
  <2>2. \A i \in DOMAIN b.all : Outcomes(b.all[i]) # {} /\ Outcomes(b.all[i]) \ {Nothing} \subseteq assigned
    BY <1>5
  <2>3. Nothing \notin assigned /\ \A s \in assigned : \E i \in DOMAIN b.all : s \in Outcomes(b.all[i])
    OBVIOUS
  <2> HIDE DEF assigned, each
  <2> QED
    BY <1>5, <2>1, <2>2, <2>3
<1> QED
  BY <1>3, <1>4, <1>5

-----------------------------------------------------------------------------
\* Where each argument has the value it has in another evaluation, the same
\* argument decides.
LEMMA SameRuns ==
  ASSUME NEW decisive \in {"true", "false"}, NEW arguments \in Seq(Tree),
         NEW pass, NEW sink, NEW result, NEW k,
         NEW other, NEW before, NEW expected, NEW m,
         Runs(decisive, arguments, pass, sink, result, k),
         Runs(decisive, arguments, other, before, expected, m),
         \A j \in 1 .. m : \A s \in Sinks :
           Evaluating(pass)[arguments[j]][s].value = expected[j].value
  PROVE  k = m /\ result[k].value = expected[m].value
<1> DEFINE n == Len(arguments)
           opposite == Opposite(decisive)
<1>1. n \in Nat /\ k \in 0 .. n /\ m \in 0 .. n
  BY DEF Runs
<1>2. \A j \in 0 .. n : result[j].sink \in Sinks
  BY DEF Runs, Results
<1>3. \A j \in 1 .. k : result[j - 1].value = opposite
                          /\ result[j] = Evaluating(pass)[arguments[j]][result[j - 1].sink]
  BY DEF Runs
<1>4. \A j \in 1 .. m : expected[j - 1].value = opposite
  BY DEF Runs
<1>5. result[0].value = opposite /\ expected[0].value = opposite
  BY DEF Runs, Result
<1>6. \A j \in 0 .. n : j <= k /\ j <= m => result[j].value = expected[j].value
  <2> SUFFICES ASSUME NEW j \in 0 .. n, j <= k, j <= m
               PROVE  result[j].value = expected[j].value
    OBVIOUS
  <2>1. CASE j = 0
    BY <1>5, <2>1
  <2>2. CASE j # 0
    <3>1. j \in 1 .. k /\ j \in 1 .. m /\ j - 1 \in 0 .. n
      BY <1>1, <2>2
    <3>2. result[j - 1].sink \in Sinks
      BY <1>2, <3>1
    <3> QED
      BY <1>3, <3>1, <3>2
  <2> QED
    BY <2>1, <2>2
<1>7. (k = n \/ result[k].value # opposite) /\ (m = n \/ expected[m].value # opposite)
  BY DEF Runs
<1> HIDE DEF n, opposite
<1>8. ~(k < m)
  <2> SUFFICES ASSUME k < m PROVE FALSE
    OBVIOUS
  <2>1. k + 1 \in 1 .. m /\ (k + 1) - 1 = k /\ k # n
    BY <1>1
  <2>2. expected[k].value = opposite
    BY <1>4, <2>1
  <2>3. k \in 0 .. n /\ k <= k /\ k <= m
    BY <1>1
  <2>4. result[k].value = expected[k].value
    BY <1>6, <2>3
  <2> QED
    BY <1>7, <2>1, <2>2, <2>4
<1>9. ~(m < k)
  <2> SUFFICES ASSUME m < k PROVE FALSE
    OBVIOUS
  <2>1. m + 1 \in 1 .. k /\ (m + 1) - 1 = m /\ m # n
    BY <1>1
  <2>2. result[m].value = opposite
    BY <1>3, <2>1
  <2>3. m \in 0 .. n /\ m <= k /\ m <= m
    BY <1>1
  <2>4. result[m].value = expected[m].value
    BY <1>6, <2>3
  <2> QED
    BY <1>7, <2>1, <2>2, <2>4
<1>10. k = m
  BY <1>1, <1>8, <1>9
<1> QED
  BY <1>1, <1>6, <1>10

\* Arguments after the i-th that assign nothing pass the sink on.
Keeps(arguments, pass, i, k) ==
  \A j \in 1 .. k : i < j => \A s \in Sinks : Evaluating(pass)[arguments[j]][s].sink = s

Kept(result, i, k) == \A j \in 0 .. k : i <= j => result[j].sink = result[i].sink

LEMMA RunKeeps ==
  ASSUME NEW decisive, NEW arguments \in Seq(Tree),
         NEW pass, NEW sink, NEW result, NEW k,
         Runs(decisive, arguments, pass, sink, result, k),
         NEW i \in 0 .. k,
         Keeps(arguments, pass, i, k)
  PROVE  Kept(result, i, k)
<1> DEFINE S == 0 .. k
           D == [j \in S |-> j]
           Same == {j \in S : i <= j => result[j].sink = result[i].sink}
<1>1. k \in Nat /\ k <= Len(arguments) /\ Len(arguments) \in Nat
  BY DEF Runs
<1>2. ASSUME NEW j \in S, \A l \in S : D[l] < D[j] => l \in Same
      PROVE  j \in Same
  <2>1. CASE j <= i
    BY <1>1, <2>1
  <2>2. CASE i < j
    <3>1. j \in 1 .. k /\ j - 1 \in S /\ D[j - 1] < D[j] /\ i <= j - 1 /\ j - 1 \in 0 .. Len(arguments)
      BY <1>1, <2>2
    <3>2. result[j - 1].sink = result[i].sink
      BY <1>2, <3>1
    <3>3. result[j] = Evaluating(pass)[arguments[j]][result[j - 1].sink]
      BY <3>1 DEF Runs
    <3>4. result[j - 1].sink \in Sinks
      BY <3>1 DEF Runs, Results
    <3> QED
      BY <2>2, <3>1, <3>2, <3>3, <3>4 DEF Keeps
  <2> QED
    BY <1>1, <2>1, <2>2
<1>3. D \in [S -> Nat]
  BY <1>1
<1>4. \A j \in S : j \in Same
  <2> HIDE DEF Same, S, D
  <2> QED
    BY <1>2, <1>3, NestedInduction
<1> QED
  BY <1>4 DEF Kept

-----------------------------------------------------------------------------
\* What the capture pass finds in a body: the same whatever is in the sink, and
\* an outcome of the body where that assigns.
Capturing(b) ==
  LET capture == Evaluating(CapturePass)[b]
  IN /\ \A s \in Sinks : capture[s].value = capture[Nothing].value
     /\ b \notin Updates => \A s \in Sinks : capture[s].sink = s
     /\ capture[Nothing].value = "true" => Outcomes(b) # {}
     /\ b \in Updates /\ capture[Nothing].value = "true" =>
          \A s \in Sinks : capture[s].sink \in Outcomes(b) /\ capture[s].sink # Nothing

LEMMA ResultIs == \A value, sink : Result(value, sink).value = value /\ Result(value, sink).sink = sink
BY DEF Result

LEMMA NothingIsSink == Nothing \in Sinks
BY DEF Sinks

\* All of the arguments have been evaluated when none has decided.
LEMMA RunOfAll ==
  ASSUME NEW decisive, NEW arguments \in Seq(Tree),
         NEW pass, NEW sink, NEW result, NEW k,
         Runs(decisive, arguments, pass, sink, result, k), result[k].value = Opposite(decisive)
  PROVE  /\ k = Len(arguments)
         /\ \A j \in 0 .. k : result[j].value = Opposite(decisive)
         /\ \A j \in 1 .. k : result[j - 1].sink \in Sinks
<1>1. k \in Nat /\ k = Len(arguments)
  BY DEF Runs
<1>2. ASSUME NEW j \in 0 .. k
      PROVE  result[j].value = Opposite(decisive)
  <2>1. CASE j = k
    BY <2>1
  <2>2. CASE j # k
    <3>1. j + 1 \in 1 .. k /\ (j + 1) - 1 = j
      BY <1>1, <2>2
    <3> QED
      BY <3>1 DEF Runs
  <2> QED
    BY <2>1, <2>2
<1>3. \A j \in 1 .. k : j - 1 \in 0 .. Len(arguments)
  BY <1>1
<1> QED
  BY <1>1, <1>2, <1>3 DEF Runs, Results

LEMMA CapturingAll ==
  ASSUME NEW b \in Tree, Is("all", b), \A i \in DOMAIN b.all : Capturing(b.all[i])
  PROVE  Capturing(b)
<1> DEFINE capture == Evaluating(CapturePass)[b]
           args == b.all
<1>0. args \in Seq(Tree) /\ Len(args) \in Nat /\ DOMAIN args = 1 .. Len(args)
      /\ \A i \in DOMAIN args : args[i] \in Tree
  BY OneBody
<1>1. PICK expected, m : Runs("false", args, CapturePass, Nothing, expected, m) /\ capture[Nothing] = expected[m]
  BY AllRuns, NothingIsSink
<1>2. m \in 0 .. Len(args) /\ \A j \in 1 .. m : j - 1 \in 0 .. Len(args) /\ j \in DOMAIN args
  BY <1>0, <1>1 DEF Runs
<1>3. \A j \in 1 .. m : \A s \in Sinks :
        Evaluating(CapturePass)[args[j]][s].value = expected[j].value
  <2> SUFFICES ASSUME NEW j \in 1 .. m, NEW s \in Sinks
               PROVE  Evaluating(CapturePass)[args[j]][s].value = expected[j].value
    OBVIOUS
  <2>1. expected[j] = Evaluating(CapturePass)[args[j]][expected[j - 1].sink]
    BY <1>1 DEF Runs
  <2>2. expected[j - 1].sink \in Sinks
    BY <1>1, <1>2 DEF Runs, Results
  <2>3. Capturing(args[j])
    BY <1>2
  <2> HIDE DEF args
  <2> QED
    BY <2>1, <2>2, <2>3 DEF Capturing
<1> DEFINE Run(s, result) ==
             /\ Runs("false", args, CapturePass, s, result, m)
             /\ capture[s] = result[m]
             /\ result[m].value = expected[m].value
<1>4. \A s \in Sinks : \E result : Run(s, result)
  <2> SUFFICES ASSUME NEW s \in Sinks PROVE \E result : Run(s, result)
    OBVIOUS
  <2>1. PICK result, k : Runs("false", args, CapturePass, s, result, k) /\ capture[s] = result[k]
    BY AllRuns
  <2> HIDE DEF args
  <2>2. k = m /\ result[k].value = expected[m].value
    BY <1>0, <1>1, <1>3, <2>1, SameRuns
  <2> QED
    BY <2>1, <2>2
<1>5. \A s \in Sinks : capture[s].value = capture[Nothing].value
  BY <1>1, <1>4
<1>6. ASSUME b \notin Updates, NEW s \in Sinks
      PROVE  capture[s].sink = s
  <2>1. PICK result : Run(s, result)
    BY <1>4
  <2>2. \A j \in 1 .. m : args[j] \notin Updates
    BY <1>0, <1>2, <1>6, EffectAssumption
  <2>3. Keeps(args, CapturePass, 0, m)
    BY <1>2, <2>2 DEF Capturing, Keeps
  <2>4. 0 \in 0 .. m /\ m \in 0 .. m /\ 0 <= m
    BY <1>2
  <2> HIDE DEF args
  <2>a. Kept(result, 0, m)
    BY <1>0, <2>1, <2>3, <2>4, RunKeeps
  <2>5. result[m].sink = result[0].sink
    BY <2>4, <2>a DEF Kept
  <2> QED
    BY <2>1, <2>5 DEF Runs, Result
<1>7. ASSUME expected[m].value = "true"
      PROVE  /\ m = Len(args)
             /\ \A j \in 1 .. m : expected[j].value = "true"
  <2>1. Opposite("false") = "true"
    BY DEF Opposite
  <2> HIDE DEF args
  <2> QED
    BY <1>0, <1>1, <1>7, <2>1, RunOfAll
<1>8. ASSUME expected[m].value = "true", NEW i \in DOMAIN args
      PROVE  Evaluating(CapturePass)[args[i]][Nothing].value = "true"
  BY <1>0, <1>3, <1>7, <1>8, NothingIsSink
<1>9. expected[m].value = "true" => Outcomes(b) # {}
  <2> SUFFICES ASSUME expected[m].value = "true" PROVE Outcomes(b) # {}
    OBVIOUS
  <2>1. \A i \in DOMAIN args : Outcomes(args[i]) # {}
    BY <1>8 DEF Capturing
  <2> QED
    BY <2>1, OutcomesOfAll
<1>10. ASSUME b \in Updates, expected[m].value = "true", NEW s \in Sinks
       PROVE  capture[s].sink \in Outcomes(b) /\ capture[s].sink # Nothing
  <2>1. PICK result : Run(s, result)
    BY <1>4
  <2>2. PICK i \in DOMAIN args : args[i] \in Updates
    BY <1>10, EffectAssumption
  <2>3. \A j \in DOMAIN args : j # i => args[j] \notin Updates
    BY <2>2, EffectAssumption
  <2>4. i \in 1 .. m /\ m \in 0 .. m
    BY <1>0, <1>7, <1>10
  <2>5. result[i - 1].sink \in Sinks /\ result[i] = Evaluating(CapturePass)[args[i]][result[i - 1].sink]
    BY <1>2, <2>1, <2>4 DEF Runs, Results
  <2>6. result[i].sink \in Outcomes(args[i]) /\ result[i].sink # Nothing
    BY <1>8, <1>10, <2>2, <2>5 DEF Capturing
  <2>7. Keeps(args, CapturePass, i, m)
    <3> SUFFICES ASSUME NEW j \in 1 .. m, i < j, NEW t \in Sinks
                 PROVE  Evaluating(CapturePass)[args[j]][t].sink = t
      BY DEF Keeps
    <3>1. j \in DOMAIN args /\ j # i
      BY <1>2, <2>4
    <3>2. args[j] \notin Updates /\ Capturing(args[j])
      BY <2>3, <3>1
    <3> QED
      BY <3>2 DEF Capturing
  <2>8. i \in 0 .. m /\ i <= m
    BY <2>4
  <2>9. result[m].sink = result[i].sink
    <3>1. Runs("false", args, CapturePass, s, result, m)
      BY <2>1
    <3> HIDE DEF args, Run
    <3>2. Kept(result, i, m)
      BY <1>0, <2>7, <2>8, <3>1, RunKeeps
    <3> QED
      BY <2>4, <2>8, <3>2 DEF Kept
  <2>10. Outcomes(args[i]) \ {Nothing} \subseteq Outcomes(b)
    BY <1>9, <1>10, <2>2, OutcomesOfAll
  <2> QED
    BY <2>1, <2>6, <2>9, <2>10
<1> QED
  BY <1>1, <1>5, <1>6, <1>9, <1>10 DEF Capturing

LEMMA CapturingAny ==
  ASSUME NEW b \in Tree, Is("any", b), \A i \in DOMAIN b.any : Capturing(b.any[i])
  PROVE  Capturing(b)
<1> DEFINE capture == Evaluating(CapturePass)[b]
           args == b.any
<1>0. args \in Seq(Tree) /\ Len(args) \in Nat /\ DOMAIN args = 1 .. Len(args)
      /\ \A i \in DOMAIN args : args[i] \in Tree
  BY OneBody
<1>1. PICK expected, m : Runs("true", args, CapturePass, Nothing, expected, m) /\ capture[Nothing] = expected[m]
  BY AnyRuns, NothingIsSink
<1>2. m \in 0 .. Len(args) /\ \A j \in 1 .. m : j - 1 \in 0 .. Len(args) /\ j \in DOMAIN args
  BY <1>0, <1>1 DEF Runs
<1>3. \A j \in 1 .. m : \A s \in Sinks :
        Evaluating(CapturePass)[args[j]][s].value = expected[j].value
  <2> SUFFICES ASSUME NEW j \in 1 .. m, NEW s \in Sinks
               PROVE  Evaluating(CapturePass)[args[j]][s].value = expected[j].value
    OBVIOUS
  <2>1. expected[j] = Evaluating(CapturePass)[args[j]][expected[j - 1].sink]
    BY <1>1 DEF Runs
  <2>2. expected[j - 1].sink \in Sinks
    BY <1>1, <1>2 DEF Runs, Results
  <2>3. Capturing(args[j])
    BY <1>2
  <2> HIDE DEF args
  <2> QED
    BY <2>1, <2>2, <2>3 DEF Capturing
<1> DEFINE Run(s, result) ==
             /\ Runs("true", args, CapturePass, s, result, m)
             /\ capture[s] = result[m]
             /\ result[m].value = expected[m].value
<1>4. \A s \in Sinks : \E result : Run(s, result)
  <2> SUFFICES ASSUME NEW s \in Sinks PROVE \E result : Run(s, result)
    OBVIOUS
  <2>1. PICK result, k : Runs("true", args, CapturePass, s, result, k) /\ capture[s] = result[k]
    BY AnyRuns
  <2> HIDE DEF args
  <2>2. k = m /\ result[k].value = expected[m].value
    BY <1>0, <1>1, <1>3, <2>1, SameRuns
  <2> QED
    BY <2>1, <2>2
<1>5. \A s \in Sinks : capture[s].value = capture[Nothing].value
  BY <1>1, <1>4
<1>6. ASSUME b \notin Updates, NEW s \in Sinks
      PROVE  capture[s].sink = s
  <2>1. PICK result : Run(s, result)
    BY <1>4
  <2>2. \A j \in 1 .. m : args[j] \notin Updates
    BY <1>0, <1>2, <1>6, EffectAssumption
  <2>3. Keeps(args, CapturePass, 0, m)
    BY <1>2, <2>2 DEF Capturing, Keeps
  <2>4. 0 \in 0 .. m /\ m \in 0 .. m /\ 0 <= m
    BY <1>2
  <2> HIDE DEF args
  <2>a. Kept(result, 0, m)
    BY <1>0, <2>1, <2>3, <2>4, RunKeeps
  <2>5. result[m].sink = result[0].sink
    BY <2>4, <2>a DEF Kept
  <2> QED
    BY <2>1, <2>5 DEF Runs, Result
\* The argument that decides is an alternative that is possible.
<1>7. ASSUME expected[m].value = "true"
      PROVE  m \in DOMAIN args /\ Evaluating(CapturePass)[args[m]][Nothing].value = "true"
  <2>1. m # 0
    BY <1>1, <1>7 DEF Runs, Result, Opposite
  <2>2. m \in 1 .. m /\ m \in DOMAIN args
    BY <1>0, <1>2, <2>1
  <2> QED
    BY <1>3, <1>7, <2>2, NothingIsSink
<1>8. ASSUME expected[m].value = "true"
      PROVE  Outcomes(args[m]) # {} /\ Outcomes(args[m]) \subseteq Outcomes(b)
  <2>1. Outcomes(args[m]) # {}
    BY <1>7, <1>8 DEF Capturing
  <2>2. Outcomes(b) = UNION {Outcomes(args[i]) : i \in DOMAIN args}
    BY OutcomesOfKind
  <2> QED
    BY <1>7, <1>8, <2>1, <2>2
<1>9. ASSUME b \in Updates, expected[m].value = "true", NEW s \in Sinks
      PROVE  capture[s].sink \in Outcomes(b) /\ capture[s].sink # Nothing
  <2>1. PICK result : Run(s, result)
    BY <1>4
  <2>2. m \in DOMAIN args /\ m \in 1 .. m
    BY <1>0, <1>7, <1>9
  <2>3. args[m] \in Updates
    BY <1>9, <2>2, EffectAssumption
  <2>4. result[m - 1].sink \in Sinks /\ result[m] = Evaluating(CapturePass)[args[m]][result[m - 1].sink]
    BY <1>2, <2>1, <2>2 DEF Runs, Results
  <2>5. result[m].sink \in Outcomes(args[m]) /\ result[m].sink # Nothing
    BY <1>7, <1>9, <2>2, <2>3, <2>4 DEF Capturing
  <2> QED
    BY <1>8, <1>9, <2>1, <2>5
<1> QED
  BY <1>1, <1>5, <1>6, <1>8, <1>9 DEF Capturing

LEMMA CapturingEvery ==
  \A b \in Tree : Capturing(b)
<1> DEFINE Good == {b \in Tree : Capturing(b)}
<1>1. ASSUME NEW b \in Tree, \A c \in Tree : height[c] < height[b] => c \in Good
      PROVE  b \in Good
  <2>1. CASE Is("all", b)
    BY <1>1, <2>1, WithinIsTree, CapturingAll
  <2>2. CASE Is("any", b)
    BY <1>1, <2>2, WithinIsTree, CapturingAny
  <2>3. CASE Is("condition", b)
    <3>1. CASE b.condition = "fails"
      <4>1. \A s \in Sinks : Evaluating(CapturePass)[b][s] = Result("error", s)
        BY <2>3, <3>1, EvaluateKinds
      <4>2. \A s \in Sinks : /\ Evaluating(CapturePass)[b][s].value = "error"
                            /\ Evaluating(CapturePass)[b][s].sink = s
        BY <4>1, ResultIs
      <4> QED
        BY <4>2, NothingIsSink DEF Capturing
    <3>2. CASE b.condition # "fails"
      <4> DEFINE c == IF b.condition = "true" THEN b.then ELSE b.else
      <4>1. c \in Tree /\ Capturing(c) /\ (c \in Updates <=> b \in Updates)
        BY <1>1, <2>3, WithinIsTree, EffectAssumption
      <4>2. \A s \in Sinks : Evaluating(CapturePass)[b][s] = Evaluating(CapturePass)[c][s]
        BY <2>3, <3>2, EvaluateKinds
      <4>3. Outcomes(b) = Outcomes(c)
        <5>1. b.condition \in {"true", "false"}
          BY <2>3, <3>2, OneBody DEF Guard
        <5> QED
          BY <2>3, <5>1, OutcomesOfKind
      <4> HIDE DEF c
      <4> QED
        BY <4>1, <4>2, <4>3, NothingIsSink DEF Capturing
    <3> QED
      BY <3>1, <3>2
  <2>4. CASE Is("guard", b)
    <3>1. \A s \in Sinks : Evaluating(CapturePass)[b][s] = Result(IF b.guard = "fails" THEN "error" ELSE b.guard, s)
      BY <2>4, EvaluateKinds
    <3>2. Outcomes(b) = IF b.guard = "true" THEN {Nothing} ELSE {}
      BY <2>4, OutcomesOfKind
    <3>3. b \notin Updates
      BY <2>4, EffectAssumption
    <3>4. \A s \in Sinks :
            /\ Evaluating(CapturePass)[b][s].value = IF b.guard = "fails" THEN "error" ELSE b.guard
            /\ Evaluating(CapturePass)[b][s].sink = s
      BY <3>1, ResultIs
    <3> QED
      BY <3>2, <3>3, <3>4, NothingIsSink DEF Capturing
  <2>5. CASE Is("assign", b)
    <3>1. \A s \in Sinks : Evaluating(CapturePass)[b][s] = Result("true", b.assign)
      BY <2>5, EvaluateKinds DEF Assign, CapturePass
    <3>2. Outcomes(b) = {b.assign} /\ b.assign \in Value /\ b.assign # Nothing
      BY <2>5, OutcomesOfKind, OneBody, BodyAssumption
    <3>3. b \in Updates
      BY <2>5, EffectAssumption
    <3>4. \A s \in Sinks : /\ Evaluating(CapturePass)[b][s].value = "true"
                          /\ Evaluating(CapturePass)[b][s].sink = b.assign
      BY <3>1, ResultIs
    <3> QED
      BY <3>2, <3>3, <3>4, NothingIsSink DEF Capturing
  <2> QED
    BY <2>1, <2>2, <2>3, <2>4, <2>5, OneBody
<1>2. \A b \in Tree : b \in Good
  <2> HIDE DEF Good
  <2> QED
    BY <1>1, HeightIsNatural, NestedInduction
<1> QED
  BY <1>2

-----------------------------------------------------------------------------
\* What the check pass finds in a body, with m for the merged state: the sink is
\* left alone, and without an error the value is that of the capture pass, which
\* had captured m where the body assigns.
Checking(b, m) ==
  LET capture == Evaluating(CapturePass)[b]
      check == Evaluating(CheckPass(m))[b]
  IN /\ \A s \in Sinks : check[s].sink = s
     /\ \A s, t \in Sinks : check[s].value # "error" => capture[t].value = check[s].value
     /\ b \in Updates =>
          \A s, t \in Sinks : check[s].value = "true" => capture[t].sink = m

AllChecking(arguments, m) == \A i \in DOMAIN arguments : Checking(arguments[i], m)

\* The sink is the same all along the check pass.
Steady(arguments, m, sink, result, k) ==
  /\ \A j \in 0 .. k : result[j].sink = sink
  /\ \A j \in 1 .. k : result[j] = Evaluating(CheckPass(m))[arguments[j]][sink]

LEMMA CheckRun ==
  ASSUME NEW m, NEW decisive, NEW arguments \in Seq(Tree), NEW sink, NEW result, NEW k,
         Runs(decisive, arguments, CheckPass(m), sink, result, k),
         AllChecking(arguments, m)
  PROVE  Steady(arguments, m, sink, result, k)
<1>1. k \in Nat /\ k <= Len(arguments) /\ Len(arguments) \in Nat /\ DOMAIN arguments = 1 .. Len(arguments)
  BY DEF Runs
<1>2. Keeps(arguments, CheckPass(m), 0, k)
  BY <1>1 DEF AllChecking, Checking, Keeps
<1>3. 0 \in 0 .. k
  BY <1>1
<1>4. \A j \in 0 .. k : 0 <= j => result[j].sink = result[0].sink
  BY <1>2, <1>3, RunKeeps DEF Kept
<1>5. result[0].sink = sink
  BY DEF Runs, Result
<1>6. \A j \in 0 .. k : result[j].sink = sink
  BY <1>1, <1>4, <1>5
<1>7. \A j \in 1 .. k : result[j] = Evaluating(CheckPass(m))[arguments[j]][sink]
  <2> SUFFICES ASSUME NEW j \in 1 .. k
               PROVE  result[j] = Evaluating(CheckPass(m))[arguments[j]][sink]
    OBVIOUS
  <2>1. j - 1 \in 0 .. k
    BY <1>1
  <2> QED
    BY <1>6, <2>1 DEF Runs
<1> QED
  BY <1>6, <1>7 DEF Steady

\* Without an error the capture pass stops where the check pass does.
LEMMA CheckCaptures ==
  ASSUME NEW m, NEW decisive \in {"true", "false"}, NEW arguments \in Seq(Tree),
         NEW sink \in Sinks, NEW checked, NEW k,
         Runs(decisive, arguments, CheckPass(m), sink, checked, k),
         checked[k].value # "error",
         NEW before \in Sinks, NEW result, NEW l,
         Runs(decisive, arguments, CapturePass, before, result, l),
         AllChecking(arguments, m)
  PROVE  l = k /\ result[l].value = checked[k].value
<1>1. k \in Nat /\ k <= Len(arguments) /\ Len(arguments) \in Nat /\ DOMAIN arguments = 1 .. Len(arguments)
  BY DEF Runs
<1>a. Steady(arguments, m, sink, checked, k)
  BY CheckRun
<1>2. \A j \in 1 .. k : checked[j] = Evaluating(CheckPass(m))[arguments[j]][sink]
  BY <1>a DEF Steady
<1>3. \A j \in 1 .. k : checked[j].value # "error"
  <2> SUFFICES ASSUME NEW j \in 1 .. k PROVE checked[j].value # "error"
    OBVIOUS
  <2>1. CASE j = k
    BY <2>1
  <2>2. CASE j # k
    <3>1. j + 1 \in 1 .. k /\ (j + 1) - 1 = j
      BY <1>1, <2>2
    <3>2. checked[j].value = Opposite(decisive)
      BY <3>1 DEF Runs
    <3> QED
      BY <3>2 DEF Opposite
  <2> QED
    BY <2>1, <2>2
<1>4. \A j \in 1 .. k : \A s \in Sinks : Evaluating(CapturePass)[arguments[j]][s].value = checked[j].value
  <2> SUFFICES ASSUME NEW j \in 1 .. k, NEW s \in Sinks
               PROVE  Evaluating(CapturePass)[arguments[j]][s].value = checked[j].value
    OBVIOUS
  <2>1. Checking(arguments[j], m)
    BY <1>1 DEF AllChecking
  <2> QED
    BY <1>2, <1>3, <2>1 DEF Checking
<1> QED
  BY <1>4, SameRuns

LEMMA CheckingAll ==
  ASSUME NEW m \in Value, NEW b \in Tree, Is("all", b), \A i \in DOMAIN b.all : Checking(b.all[i], m)
  PROVE  Checking(b, m)
<1> DEFINE capture == Evaluating(CapturePass)[b]
           check == Evaluating(CheckPass(m))[b]
           args == b.all
           Checked(s, checked, k) ==
             Runs("false", args, CheckPass(m), s, checked, k) /\ check[s] = checked[k]
           Captured(t, result, k) ==
             Runs("false", args, CapturePass, t, result, k) /\ capture[t] = result[k]
<1>0. args \in Seq(Tree) /\ Len(args) \in Nat /\ DOMAIN args = 1 .. Len(args)
      /\ \A i \in DOMAIN args : args[i] \in Tree
  BY OneBody
<1>a. AllChecking(args, m)
  BY DEF AllChecking
<1>1. \A s \in Sinks : \E checked, k : Checked(s, checked, k)
  BY AllRuns
<1>2. \A t \in Sinks : \E result, k : Captured(t, result, k)
  BY AllRuns
<1>3. ASSUME NEW s \in Sinks
      PROVE  check[s].sink = s
  <2>1. PICK checked, k : Checked(s, checked, k)
    BY <1>1
  <2>2. k \in 0 .. k
    BY <1>0, <2>1 DEF Runs
  <2>3. Runs("false", args, CheckPass(m), s, checked, k) /\ check[s] = checked[k]
    BY <2>1
  <2> HIDE DEF args, Checked, check
  <2>4. Steady(args, m, s, checked, k)
    BY <1>0, <1>a, <2>3, CheckRun
  <2> QED
    BY <2>2, <2>3, <2>4 DEF Steady
<1>4. ASSUME NEW s \in Sinks, NEW t \in Sinks, NEW checked, NEW k, NEW result, NEW l,
             Checked(s, checked, k), Captured(t, result, l), check[s].value # "error"
      PROVE  l = k /\ result[k].value = checked[k].value
  <2> HIDE DEF args, check, capture
  <2>1. Runs("false", args, CheckPass(m), s, checked, k) /\ checked[k].value # "error"
    BY <1>4
  <2>2. Runs("false", args, CapturePass, t, result, l)
    BY <1>4
  <2>4. l = k /\ result[l].value = checked[k].value
    BY <1>0, <1>a, <2>1, <2>2, CheckCaptures
  <2> QED
    BY <2>4
<1>5. ASSUME NEW s \in Sinks, NEW t \in Sinks, check[s].value # "error"
      PROVE  capture[t].value = check[s].value
  <2>1. PICK checked, k : Checked(s, checked, k)
    BY <1>1
  <2>2. PICK result, l : Captured(t, result, l)
    BY <1>2
  <2> HIDE DEF check, capture
  <2>3. l = k /\ result[k].value = checked[k].value
    BY <1>4, <1>5, <2>1, <2>2
  <2> QED
    BY <2>1, <2>2, <2>3
<1>6. ASSUME b \in Updates, NEW s \in Sinks, NEW t \in Sinks, check[s].value = "true"
      PROVE  capture[t].sink = m
  <2>1. PICK checked, k : Checked(s, checked, k)
    BY <1>1
  <2>2. PICK result, l : Captured(t, result, l)
    BY <1>2
  <2>3. l = k /\ result[k].value = checked[k].value
    <3> HIDE DEF check, capture
    <3> QED
      BY <1>4, <1>6, <2>1, <2>2
  <2>4. PICK i \in DOMAIN args : args[i] \in Updates
    BY <1>6, EffectAssumption
  <2>5. \A j \in DOMAIN args : j # i => args[j] \notin Updates
    BY <2>4, EffectAssumption
  <2>6. k = Len(args) /\ \A j \in 0 .. k : checked[j].value = "true"
    <3>1. checked[k].value = Opposite("false") /\ Opposite("false") = "true"
      BY <1>6, <2>1 DEF Opposite
    <3>2. Runs("false", args, CheckPass(m), s, checked, k)
      BY <2>1
    <3> HIDE DEF args, Checked
    <3> QED
      BY <1>0, <3>1, <3>2, RunOfAll
  <2>7. i \in 1 .. k /\ i - 1 \in 0 .. Len(args) /\ i \in 0 .. k /\ i <= k /\ k \in 0 .. k
    BY <1>0, <2>4, <2>6
  <2>8. checked[i] = Evaluating(CheckPass(m))[args[i]][s]
    <3>1. Runs("false", args, CheckPass(m), s, checked, k)
      BY <2>1
    <3> HIDE DEF args, Checked
    <3>2. Steady(args, m, s, checked, k)
      BY <1>0, <3>1, <1>a, CheckRun
    <3> QED
      BY <2>7, <3>2 DEF Steady
  <2>9. Runs("false", args, CapturePass, t, result, k) /\ capture[t] = result[k]
    BY <2>2, <2>3
  <2>10. result[i - 1].sink \in Sinks /\ result[i] = Evaluating(CapturePass)[args[i]][result[i - 1].sink]
    BY <2>7, <2>9 DEF Runs, Results
  <2>11. result[i].sink = m
    <3>1. checked[i].value = "true" /\ Checking(args[i], m)
      BY <2>4, <2>6, <2>7
    <3> HIDE DEF args
    <3> QED
      BY <2>4, <2>8, <2>10, <3>1 DEF Checking
  <2>12. Keeps(args, CapturePass, i, k)
    <3> SUFFICES ASSUME NEW j \in 1 .. k, i < j, NEW u \in Sinks
                 PROVE  Evaluating(CapturePass)[args[j]][u].sink = u
      BY DEF Keeps
    <3>1. j \in DOMAIN args /\ j # i
      BY <1>0, <2>6, <2>7
    <3>2. args[j] \notin Updates /\ Capturing(args[j])
      BY <1>0, <2>5, <3>1, CapturingEvery
    <3> QED
      BY <3>2 DEF Capturing
  <2>13. result[k].sink = result[i].sink
    <3> HIDE DEF args, Checked, Captured
    <3>1. Kept(result, i, k)
      BY <1>0, <2>7, <2>9, <2>12, RunKeeps
    <3> QED
      BY <2>7, <3>1 DEF Kept
  <2> QED
    BY <2>9, <2>11, <2>13
<1> QED
  BY <1>3, <1>5, <1>6 DEF Checking

LEMMA CheckingAny ==
  ASSUME NEW m \in Value, NEW b \in Tree, Is("any", b), \A i \in DOMAIN b.any : Checking(b.any[i], m)
  PROVE  Checking(b, m)
<1> DEFINE capture == Evaluating(CapturePass)[b]
           check == Evaluating(CheckPass(m))[b]
           args == b.any
           Checked(s, checked, k) ==
             Runs("true", args, CheckPass(m), s, checked, k) /\ check[s] = checked[k]
           Captured(t, result, k) ==
             Runs("true", args, CapturePass, t, result, k) /\ capture[t] = result[k]
<1>0. args \in Seq(Tree) /\ Len(args) \in Nat /\ DOMAIN args = 1 .. Len(args)
      /\ \A i \in DOMAIN args : args[i] \in Tree
  BY OneBody
<1>a. AllChecking(args, m)
  BY DEF AllChecking
<1>1. \A s \in Sinks : \E checked, k : Checked(s, checked, k)
  BY AnyRuns
<1>2. \A t \in Sinks : \E result, k : Captured(t, result, k)
  BY AnyRuns
<1>3. ASSUME NEW s \in Sinks
      PROVE  check[s].sink = s
  <2>1. PICK checked, k : Checked(s, checked, k)
    BY <1>1
  <2>2. k \in 0 .. k
    BY <1>0, <2>1 DEF Runs
  <2>3. Runs("true", args, CheckPass(m), s, checked, k) /\ check[s] = checked[k]
    BY <2>1
  <2> HIDE DEF args, Checked, check
  <2>4. Steady(args, m, s, checked, k)
    BY <1>0, <1>a, <2>3, CheckRun
  <2> QED
    BY <2>2, <2>3, <2>4 DEF Steady
<1>4. ASSUME NEW s \in Sinks, NEW t \in Sinks, NEW checked, NEW k, NEW result, NEW l,
             Checked(s, checked, k), Captured(t, result, l), check[s].value # "error"
      PROVE  l = k /\ result[k].value = checked[k].value
  <2> HIDE DEF args, check, capture
  <2>1. Runs("true", args, CheckPass(m), s, checked, k) /\ checked[k].value # "error"
    BY <1>4
  <2>2. Runs("true", args, CapturePass, t, result, l)
    BY <1>4
  <2>4. l = k /\ result[l].value = checked[k].value
    BY <1>0, <1>a, <2>1, <2>2, CheckCaptures
  <2> QED
    BY <2>4
<1>5. ASSUME NEW s \in Sinks, NEW t \in Sinks, check[s].value # "error"
      PROVE  capture[t].value = check[s].value
  <2>1. PICK checked, k : Checked(s, checked, k)
    BY <1>1
  <2>2. PICK result, l : Captured(t, result, l)
    BY <1>2
  <2> HIDE DEF check, capture
  <2>3. l = k /\ result[k].value = checked[k].value
    BY <1>4, <1>5, <2>1, <2>2
  <2> QED
    BY <2>1, <2>2, <2>3
<1>6. ASSUME b \in Updates, NEW s \in Sinks, NEW t \in Sinks, check[s].value = "true"
      PROVE  capture[t].sink = m
  <2>1. PICK checked, k : Checked(s, checked, k)
    BY <1>1
  <2>2. PICK result, l : Captured(t, result, l)
    BY <1>2
  <2>3. l = k /\ result[k].value = checked[k].value
    <3> HIDE DEF check, capture
    <3> QED
      BY <1>4, <1>6, <2>1, <2>2
  <2>4. k # 0 /\ k \in 0 .. Len(args)
    BY <1>6, <2>1 DEF Runs, Result, Opposite
  <2>5. k \in 1 .. k /\ k \in DOMAIN args /\ k - 1 \in 0 .. Len(args)
    BY <1>0, <2>4
  <2>6. args[k] \in Updates
    BY <1>6, <2>5, EffectAssumption
  <2>7. checked[k] = Evaluating(CheckPass(m))[args[k]][s]
    <3>1. Runs("true", args, CheckPass(m), s, checked, k)
      BY <2>1
    <3> HIDE DEF args, Checked
    <3>2. Steady(args, m, s, checked, k)
      BY <1>0, <3>1, <1>a, CheckRun
    <3> QED
      BY <2>5, <3>2 DEF Steady
  <2>8. Runs("true", args, CapturePass, t, result, k) /\ capture[t] = result[k]
    BY <2>2, <2>3
  <2>9. result[k - 1].sink \in Sinks /\ result[k] = Evaluating(CapturePass)[args[k]][result[k - 1].sink]
    BY <2>5, <2>8 DEF Runs, Results
  <2>10. result[k].sink = m
    <3>1. checked[k].value = "true" /\ Checking(args[k], m)
      BY <1>6, <2>1, <2>5
    <3> HIDE DEF args
    <3> QED
      BY <2>6, <2>7, <2>9, <3>1 DEF Checking
  <2> QED
    BY <2>8, <2>10
<1> QED
  BY <1>3, <1>5, <1>6 DEF Checking

LEMMA CheckingEvery ==
  ASSUME NEW m \in Value
  PROVE  \A b \in Tree : Checking(b, m)
<1> DEFINE Good == {b \in Tree : Checking(b, m)}
<1>1. ASSUME NEW b \in Tree, \A c \in Tree : height[c] < height[b] => c \in Good
      PROVE  b \in Good
  <2>1. CASE Is("all", b)
    BY <1>1, <2>1, WithinIsTree, CheckingAll
  <2>2. CASE Is("any", b)
    BY <1>1, <2>2, WithinIsTree, CheckingAny
  <2>3. CASE Is("condition", b)
    <3>1. CASE b.condition = "fails"
      <4>1. \A s \in Sinks : Evaluating(CheckPass(m))[b][s] = Result("error", s)
        BY <2>3, <3>1, EvaluateKinds
      <4>2. \A s \in Sinks : /\ Evaluating(CheckPass(m))[b][s].value = "error"
                            /\ Evaluating(CheckPass(m))[b][s].sink = s
        BY <4>1, ResultIs
      <4> QED
        BY <4>2 DEF Checking
    <3>2. CASE b.condition # "fails"
      <4> DEFINE c == IF b.condition = "true" THEN b.then ELSE b.else
      <4>1. c \in Tree /\ Checking(c, m) /\ (c \in Updates <=> b \in Updates)
        BY <1>1, <2>3, WithinIsTree, EffectAssumption
      <4>2. \A s \in Sinks : /\ Evaluating(CapturePass)[b][s] = Evaluating(CapturePass)[c][s]
                            /\ Evaluating(CheckPass(m))[b][s] = Evaluating(CheckPass(m))[c][s]
        BY <2>3, <3>2, EvaluateKinds
      <4> HIDE DEF c
      <4> QED
        BY <4>1, <4>2 DEF Checking
    <3> QED
      BY <3>1, <3>2
  <2>4. CASE Is("guard", b)
    <3>1. \A s \in Sinks :
            /\ Evaluating(CapturePass)[b][s] = Result(IF b.guard = "fails" THEN "error" ELSE b.guard, s)
            /\ Evaluating(CheckPass(m))[b][s] = Result(IF b.guard = "fails" THEN "error" ELSE b.guard, s)
      BY <2>4, EvaluateKinds
    <3>2. b \notin Updates
      BY <2>4, EffectAssumption
    <3>3. \A s \in Sinks :
            /\ Evaluating(CapturePass)[b][s].value = IF b.guard = "fails" THEN "error" ELSE b.guard
            /\ Evaluating(CheckPass(m))[b][s].value = IF b.guard = "fails" THEN "error" ELSE b.guard
            /\ Evaluating(CheckPass(m))[b][s].sink = s
      BY <3>1, ResultIs
    <3> QED
      BY <3>2, <3>3 DEF Checking
  <2>5. CASE Is("assign", b)
    <3>1. b.assign \in Value
      BY <2>5, OneBody
    <3>2. \A s \in Sinks : Evaluating(CapturePass)[b][s] = Result("true", b.assign)
      BY <2>5, EvaluateKinds DEF Assign, CapturePass
    <3>3. \A s \in Sinks :
            Evaluating(CheckPass(m))[b][s] =
              IF b.assign = m THEN Result("true", s) ELSE Result("error", s)
      <4>1. Equal(b.assign, m) <=> b.assign = m
        BY <3>1, EqualIsSame
      <4>2. \A s \in Sinks : Assign(b.assign, CheckPass(m), s) =
              IF b.assign = m THEN Result("true", s) ELSE Result("error", s)
        BY <4>1 DEF Assign, CheckPass
      <4> QED
        BY <2>5, <4>2, EvaluateKinds
    <3>4. \A s \in Sinks :
            /\ Evaluating(CapturePass)[b][s].value = "true"
            /\ Evaluating(CapturePass)[b][s].sink = b.assign
            /\ Evaluating(CheckPass(m))[b][s].value = IF b.assign = m THEN "true" ELSE "error"
            /\ Evaluating(CheckPass(m))[b][s].sink = s
      BY <3>2, <3>3, ResultIs
    <3> QED
      BY <3>4 DEF Checking
  <2> QED
    BY <2>1, <2>2, <2>3, <2>4, <2>5, OneBody
<1>2. \A b \in Tree : b \in Good
  <2> HIDE DEF Good
  <2> QED
    BY <1>1, HeightIsNatural, NestedInduction
<1> QED
  BY <1>2

\* A body that assigns the state leaves a value, whichever way it goes.
LEMMA UpdatesAssign ==
  \A b \in Tree : b \in Updates => Outcomes(b) \subseteq Value
<1> DEFINE Good == {b \in Tree : b \in Updates => Nothing \notin Outcomes(b)}
<1>1. ASSUME NEW b \in Tree, \A c \in Tree : height[c] < height[b] => c \in Good
      PROVE  b \in Good
  <2> SUFFICES ASSUME b \in Updates, Nothing \in Outcomes(b) PROVE FALSE
    OBVIOUS
  <2>1. CASE Is("all", b)
    <3>1. PICK i \in DOMAIN b.all : b.all[i] \in Updates
      BY <2>1, EffectAssumption
    <3>2. Nothing \notin Outcomes(b.all[i])
      BY <1>1, <2>1, <3>1, WithinIsTree
    <3>3. Outcomes(b.all[i]) # {} /\ Outcomes(b.all[i]) \subseteq {Nothing}
      BY <2>1, <3>1, OutcomesOfAll
    <3> QED
      BY <3>2, <3>3
  <2>2. CASE Is("any", b)
    <3>1. \A i \in DOMAIN b.any : Nothing \notin Outcomes(b.any[i])
      BY <1>1, <2>2, WithinIsTree, EffectAssumption
    <3>2. Outcomes(b) = UNION {Outcomes(b.any[i]) : i \in DOMAIN b.any}
      BY <2>2, OutcomesOfKind
    <3> QED
      BY <3>1, <3>2
  <2>3. CASE Is("condition", b)
    <3>1. Nothing \notin Outcomes(b.then) /\ Nothing \notin Outcomes(b.else)
      BY <1>1, <2>3, WithinIsTree, EffectAssumption
    <3>2. Outcomes(b) \in {Outcomes(b.then), Outcomes(b.else), {}}
      BY <2>3, OutcomesOfKind
    <3> QED
      BY <3>1, <3>2
  <2>4. CASE Is("guard", b)
    BY <2>4, EffectAssumption
  <2>5. CASE Is("assign", b)
    BY <2>5, OneBody, OutcomesOfKind, BodyAssumption
  <2> QED
    BY <2>1, <2>2, <2>3, <2>4, <2>5, OneBody
<1>2. \A b \in Tree : b \in Good
  <2> HIDE DEF Good
  <2> QED
    BY <1>1, HeightIsNatural, NestedInduction
<1>3. \A b \in Tree : Outcomes(b) \in SUBSET Sinks
  BY OutcomesIs
<1> QED
  BY <1>2, <1>3 DEF Sinks

-----------------------------------------------------------------------------
\* What is in a body, some way down, is defined by what is in its parts.
LEMMA ClosureRecursion ==
  ASSUME NEW W \in [Tree -> SUBSET Tree],
         \A b \in Tree : \A c \in W[b] : height[c] < height[b]
  PROVE  \E f : f = [b \in Tree |-> {b} \cup UNION {f[c] : c \in W[b]}]
<1> DEFINE T == SUBSET Tree
           F == [g \in [Tree -> T] |-> [b \in Tree |-> {b} \cup UNION {g[c] : c \in W[b]}]]
<1>1. F \in [[Tree -> T] -> [Tree -> T]]
  <2> SUFFICES ASSUME NEW g \in [Tree -> T], NEW b \in Tree
               PROVE  {b} \cup UNION {g[c] : c \in W[b]} \in T
    OBVIOUS
  <2>1. \A c \in W[b] : g[c] \subseteq Tree
    OBVIOUS
  <2>2. UNION {g[c] : c \in W[b]} \subseteq Tree
    BY <2>1
  <2> QED
    BY <2>2
<1>2. ASSUME NEW g \in [Tree -> T], NEW h \in [Tree -> T], NEW b \in Tree,
             \A c \in Tree : height[c] < height[b] => g[c] = h[c]
      PROVE  F[g][b] = F[h][b]
  <2>1. \A c \in W[b] : g[c] = h[c]
    BY <1>2
  <2>2. {g[c] : c \in W[b]} = {h[c] : c \in W[b]}
    BY <2>1
  <2>3. F[g][b] = {b} \cup UNION {g[c] : c \in W[b]} /\ F[h][b] = {b} \cup UNION {h[c] : c \in W[b]}
    OBVIOUS
  <2> HIDE DEF F
  <2> QED
    BY <2>2, <2>3
<1>3. Nested(F, Tree, T, height)
  <2> HIDE DEF F, T
  <2> QED
    BY <1>1, <1>2 DEF Nested
<1>4. T # {}
  OBVIOUS
<1>5. \E g \in [Tree -> T] : F[g] = g
  <2> HIDE DEF F, T
  <2> QED
    BY <1>3, <1>4, HeightIsNatural, NestedRecursion
<1>6. PICK g \in [Tree -> T] : F[g] = g
  BY <1>5
<1>7. F[g] = [b \in Tree |-> {b} \cup UNION {g[c] : c \in W[b]}]
  BY <1>6
<1> HIDE DEF F
<1>8. g = [b \in Tree |-> {b} \cup UNION {g[c] : c \in W[b]}]
  BY <1>6, <1>7
<1> QED
  BY <1>8, Zenon

LEMMA PartsAre ==
  ASSUME NEW b \in Tree
  PROVE  PartsIn(Tree)[b] = {b} \cup UNION {PartsIn(Tree)[c] : c \in Within(b)}
<1> DEFINE W == [c \in Tree |-> Within(c)]
<1>1. W \in [Tree -> SUBSET Tree] /\ \A c \in Tree : \A d \in W[c] : height[d] < height[c]
  BY WithinIsTree
<1>2. \E f : f = [c \in Tree |-> {c} \cup UNION {f[d] : d \in W[c]}]
  <2> HIDE DEF W
  <2> QED
    BY <1>1, ClosureRecursion
<1>3. \E f : f = [c \in Tree |-> {c} \cup UNION {f[d] : d \in Within(c)}]
  BY <1>2
<1>4. PartsIn(Tree) = [c \in Tree |-> {c} \cup UNION {PartsIn(Tree)[d] : d \in Within(c)}]
  BY <1>3 DEF PartsIn
<1> QED
  BY <1>4

\* Only what is inside a body is needed.
LEMMA NeededIsWithin ==
  ASSUME NEW b \in Tree
  PROVE  Needed(b) \subseteq Within(b)
<1>1. CASE Is("all", b)
  <2>1. Needed(b) = {b.all[i] : i \in {k \in DOMAIN b.all :
                              \A j \in 1 .. k - 1 : b.all[j] # [guard |-> "false"]}}
    BY <1>1, OtherBodies DEF Needed
  <2>2. Needed(b) \subseteq Range(b.all)
    BY <2>1 DEF Range
  <2> QED
    BY <1>1, <2>2, WithinIsTree
<1>2. CASE Is("condition", b)
  BY <1>2, WithinIsTree, OtherBodies DEF Needed
<1>3. CASE ~Is("all", b) /\ ~Is("condition", b)
  BY <1>3 DEF Needed
<1> QED
  BY <1>1, <1>2, <1>3

LEMMA NeedsAre ==
  ASSUME NEW b \in Tree
  PROVE  NeedsIn(Tree)[b] = {b} \cup UNION {NeedsIn(Tree)[c] : c \in Needed(b)}
<1> DEFINE W == [c \in Tree |-> Needed(c)]
<1>1. W \in [Tree -> SUBSET Tree] /\ \A c \in Tree : \A d \in W[c] : height[d] < height[c]
  BY WithinIsTree, NeededIsWithin
<1>2. \E f : f = [c \in Tree |-> {c} \cup UNION {f[d] : d \in W[c]}]
  <2> HIDE DEF W
  <2> QED
    BY <1>1, ClosureRecursion
<1>3. \E f : f = [c \in Tree |-> {c} \cup UNION {f[d] : d \in Needed(c)}]
  BY <1>2
<1>4. NeedsIn(Tree) = [c \in Tree |-> {c} \cup UNION {NeedsIn(Tree)[d] : d \in Needed(c)}]
  BY <1>3 DEF NeedsIn
<1> QED
  BY <1>4

\* A body with the guards first and protected has them so in what it needs.
LEMMA GuardedWithin ==
  ASSUME NEW b \in Tree, GuardsFirst(b), Protected(b)
  PROVE  /\ \A c \in Needed(b) : c \in Tree /\ GuardsFirst(c) /\ Protected(c) /\ height[c] < height[b]
         /\ Is("guard", b) => b.guard # "fails"
         /\ Is("condition", b) => b.condition # "fails"
         /\ Is("all", b) => \A i \in DOMAIN b.all : i < Len(b.all) => Is("guard", b.all[i])
<1>1. b \in PartsIn(Tree)[b] /\ b \in NeedsIn(Tree)[b]
  BY PartsAre, NeedsAre
<1>2. \A c \in Needed(b) :
        PartsIn(Tree)[c] \subseteq PartsIn(Tree)[b] /\ NeedsIn(Tree)[c] \subseteq NeedsIn(Tree)[b]
  <2> SUFFICES ASSUME NEW c \in Needed(b)
               PROVE  PartsIn(Tree)[c] \subseteq PartsIn(Tree)[b] /\ NeedsIn(Tree)[c] \subseteq NeedsIn(Tree)[b]
    OBVIOUS
  <2>1. c \in Within(b)
    BY NeededIsWithin
  <2>2. PartsIn(Tree)[b] = {b} \cup UNION {PartsIn(Tree)[d] : d \in Within(b)}
    BY PartsAre
  <2>3. NeedsIn(Tree)[b] = {b} \cup UNION {NeedsIn(Tree)[d] : d \in Needed(b)}
    BY NeedsAre
  <2> QED
    BY <2>1, <2>2, <2>3
<1>3. \A c \in Needed(b) : GuardsFirst(c) /\ Protected(c)
  BY <1>2 DEF GuardsFirst, Protected
<1>4. \A c \in Needed(b) : c \in Tree /\ height[c] < height[b]
  BY NeededIsWithin, WithinIsTree
<1>5. (Is("guard", b) => b.guard # "fails") /\ (Is("condition", b) => b.condition # "fails")
  BY <1>1 DEF Protected
<1>6. Is("all", b) => \A i \in DOMAIN b.all : i < Len(b.all) => Is("guard", b.all[i])
  BY <1>1 DEF GuardsFirst
<1> QED
  BY <1>3, <1>4, <1>5, <1>6

-----------------------------------------------------------------------------
\* The first alternative that is possible.
LEMMA FirstPossibleIs ==
  ASSUME NEW alternatives \in Seq(Tree), Possible(alternatives) # {}
  PROVE  /\ FirstPossible(alternatives) \in Possible(alternatives)
         /\ \A j \in Possible(alternatives) : FirstPossible(alternatives) <= j
<1>1. Possible(alternatives) \in SUBSET Nat
  BY DEF Possible
<1>2. PICK k \in Possible(alternatives) : \A j \in Possible(alternatives) : ~(j < k)
  BY <1>1, LeastNatural
<1>3. \A j \in Possible(alternatives) : k <= j
  BY <1>1, <1>2
<1> QED
  BY <1>2, <1>3 DEF FirstPossible

LEMMA FirstTyped ==
  ASSUME NEW g, NEW b \in Tree,
         \A c \in Tree : height[c] < height[b] => g[c] \in Sinks
  PROVE  FirstOf(g, b) \in Sinks
<1>1. CASE Is("all", b)
  <2>1. CASE b.all # <<>>
    <3>1. FirstOf(g, b) = g[b.all[Len(b.all)]]
      BY <1>1, <2>1, OtherBodies DEF FirstOf
    <3>2. Len(b.all) \in DOMAIN b.all
      BY <1>1, <2>1, OneBody
    <3> QED
      BY <1>1, <3>1, <3>2, WithinIsTree
  <2>2. CASE b.all = <<>>
    BY <1>1, <2>2, OtherBodies, NothingIsSink DEF FirstOf
  <2> QED
    BY <2>1, <2>2
<1>2. CASE Is("any", b)
  <2>1. CASE Possible(b.any) # {}
    <3>1. FirstOf(g, b) = g[b.any[FirstPossible(b.any)]]
      BY <1>2, <2>1, OtherBodies DEF FirstOf
    <3>2. FirstPossible(b.any) \in DOMAIN b.any
      BY <1>2, <2>1, OneBody, FirstPossibleIs DEF Possible
    <3> QED
      BY <1>2, <3>1, <3>2, WithinIsTree
  <2>2. CASE Possible(b.any) = {}
    BY <1>2, <2>2, OtherBodies, NothingIsSink DEF FirstOf
  <2> QED
    BY <2>1, <2>2
<1>3. CASE Is("condition", b)
  <2>1. FirstOf(g, b) = g[IF b.condition = "true" THEN b.then ELSE b.else]
    BY <1>3, OtherBodies DEF FirstOf
  <2> QED
    BY <1>3, <2>1, WithinIsTree
<1>4. CASE Is("guard", b)
  BY <1>4, OtherBodies, NothingIsSink DEF FirstOf
<1>5. CASE Is("assign", b)
  BY <1>5, OneBody, OtherBodies DEF FirstOf, Sinks
<1> QED
  BY <1>1, <1>2, <1>3, <1>4, <1>5, OneBody

LEMMA FirstAgree ==
  ASSUME NEW g, NEW h, NEW b \in Tree,
         \A c \in Tree : height[c] < height[b] => g[c] = h[c]
  PROVE  FirstOf(g, b) = FirstOf(h, b)
<1>1. CASE Is("all", b)
  <2>1. CASE b.all # <<>>
    <3>1. FirstOf(g, b) = g[b.all[Len(b.all)]] /\ FirstOf(h, b) = h[b.all[Len(b.all)]]
      BY <1>1, <2>1, OtherBodies DEF FirstOf
    <3>2. Len(b.all) \in DOMAIN b.all
      BY <1>1, <2>1, OneBody
    <3> QED
      BY <1>1, <3>1, <3>2, WithinIsTree
  <2>2. CASE b.all = <<>>
    BY <1>1, <2>2, OtherBodies DEF FirstOf
  <2> QED
    BY <2>1, <2>2
<1>2. CASE Is("any", b)
  <2>1. CASE Possible(b.any) # {}
    <3>1. FirstOf(g, b) = g[b.any[FirstPossible(b.any)]] /\ FirstOf(h, b) = h[b.any[FirstPossible(b.any)]]
      BY <1>2, <2>1, OtherBodies DEF FirstOf
    <3>2. FirstPossible(b.any) \in DOMAIN b.any
      BY <1>2, <2>1, OneBody, FirstPossibleIs DEF Possible
    <3> QED
      BY <1>2, <3>1, <3>2, WithinIsTree
  <2>2. CASE Possible(b.any) = {}
    BY <1>2, <2>2, OtherBodies DEF FirstOf
  <2> QED
    BY <2>1, <2>2
<1>3. CASE Is("condition", b)
  <2>1. /\ FirstOf(g, b) = g[IF b.condition = "true" THEN b.then ELSE b.else]
        /\ FirstOf(h, b) = h[IF b.condition = "true" THEN b.then ELSE b.else]
    BY <1>3, OtherBodies DEF FirstOf
  <2> QED
    BY <1>3, <2>1, WithinIsTree
<1>4. CASE Is("guard", b)
  BY <1>4, OtherBodies DEF FirstOf
<1>5. CASE Is("assign", b)
  BY <1>5, OtherBodies DEF FirstOf
<1> QED
  BY <1>1, <1>2, <1>3, <1>4, <1>5, OneBody

LEMMA FirstRecursion ==
  FirstIn(Tree) = [b \in Tree |-> FirstOf(FirstIn(Tree), b)]
<1> DEFINE F == [g \in [Tree -> Sinks] |-> [b \in Tree |-> FirstOf(g, b)]]
<1>1. F \in [[Tree -> Sinks] -> [Tree -> Sinks]]
  <2> SUFFICES ASSUME NEW g \in [Tree -> Sinks], NEW b \in Tree
               PROVE  FirstOf(g, b) \in Sinks
    OBVIOUS
  <2> QED
    BY FirstTyped
<1>2. ASSUME NEW g \in [Tree -> Sinks], NEW h \in [Tree -> Sinks], NEW b \in Tree,
             \A c \in Tree : height[c] < height[b] => g[c] = h[c]
      PROVE  F[g][b] = F[h][b]
  BY <1>2, FirstAgree
<1>3. Nested(F, Tree, Sinks, height)
  <2> HIDE DEF F
  <2> QED
    BY <1>1, <1>2 DEF Nested
<1>4. Sinks # {}
  BY NothingIsSink
<1>5. \E g \in [Tree -> Sinks] : F[g] = g
  <2> HIDE DEF F
  <2> QED
    BY <1>3, <1>4, HeightIsNatural, NestedRecursion
<1>6. \E f : f = [b \in Tree |-> FirstOf(f, b)]
  <2>1. PICK g \in [Tree -> Sinks] : F[g] = g
    BY <1>5
  <2>2. F[g] = [b \in Tree |-> FirstOf(g, b)]
    BY <2>1
  <2> HIDE DEF F
  <2> QED
    BY <2>1, <2>2
<1> QED
  BY <1>6 DEF FirstIn

LEMMA FirstOutcomeOfKind ==
  ASSUME NEW b \in Tree
  PROVE  /\ Is("assign", b) => FirstOutcome(b) = b.assign
         /\ Is("all", b) /\ b.all # <<>> => FirstOutcome(b) = FirstOutcome(b.all[Len(b.all)])
         /\ Is("any", b) /\ Possible(b.any) # {} =>
              FirstOutcome(b) = FirstOutcome(b.any[FirstPossible(b.any)])
         /\ Is("condition", b) =>
              FirstOutcome(b) = FirstOutcome(IF b.condition = "true" THEN b.then ELSE b.else)
<1>1. FirstOutcome(b) = FirstOf(FirstIn(Tree), b)
  BY FirstRecursion DEF FirstOutcome
<1>2. CASE Is("assign", b)
  <2>1. FirstOf(FirstIn(Tree), b) = b.assign
    BY <1>2, OtherBodies DEF FirstOf
  <2> QED
    BY <1>1, <1>2, <2>1, OtherBodies
<1>3. Is("all", b) /\ b.all # <<>> => FirstOutcome(b) = FirstOutcome(b.all[Len(b.all)])
  BY <1>1, OtherBodies DEF FirstOf, FirstOutcome
<1>4. Is("any", b) /\ Possible(b.any) # {} =>
        FirstOutcome(b) = FirstOutcome(b.any[FirstPossible(b.any)])
  BY <1>1, OtherBodies DEF FirstOf, FirstOutcome
<1>5. Is("condition", b) =>
        FirstOutcome(b) = FirstOutcome(IF b.condition = "true" THEN b.then ELSE b.else)
  BY <1>1, OtherBodies DEF FirstOf, FirstOutcome
<1> QED
  BY <1>2, <1>3, <1>4, <1>5, OneBody, OtherBodies

-----------------------------------------------------------------------------
\* Where evaluation of a guarded body settles, in either pass: it is false where
\* the body has no outcome, and otherwise takes the first. The check pass is an
\* error when that is not the state after.
Takes(pass, value) == pass.capture \/ value = pass.after

Settles(pass, b) ==
  \A s \in Sinks :
    /\ Outcomes(b) = {} => Evaluating(pass)[b][s].value = "false"
    /\ Outcomes(b) # {} =>
         Evaluating(pass)[b][s].value =
           IF b \in Updates => Takes(pass, FirstOutcome(b)) THEN "true" ELSE "error"
    /\ Outcomes(b) # {} /\ b \in Updates /\ pass.capture =>
         Evaluating(pass)[b][s].sink = FirstOutcome(b)

\* A body that comes down to one of its parts settles where that does.
LEMMA SettlesAs ==
  ASSUME NEW pass, NEW b, NEW c, NEW s \in Sinks, NEW t \in Sinks, Settles(pass, c),
         Evaluating(pass)[b][s] = Evaluating(pass)[c][t],
         Outcomes(b) = {} <=> Outcomes(c) = {},
         Outcomes(b) # {} /\ b \in Updates => FirstOutcome(b) = FirstOutcome(c),
         b \in Updates <=> c \in Updates
  PROVE  /\ Outcomes(b) = {} => Evaluating(pass)[b][s].value = "false"
         /\ Outcomes(b) # {} =>
              Evaluating(pass)[b][s].value =
                IF b \in Updates => Takes(pass, FirstOutcome(b)) THEN "true" ELSE "error"
         /\ Outcomes(b) # {} /\ b \in Updates /\ pass.capture =>
              Evaluating(pass)[b][s].sink = FirstOutcome(b)
BY DEF Settles

LEMMA SettlesGuard ==
  ASSUME NEW pass, NEW b \in Tree, Is("guard", b), b.guard # "fails"
  PROVE  Settles(pass, b)
<1>1. b \notin Updates /\ b.guard \in {"true", "false"}
  BY OneBody, EffectAssumption DEF Guard
<1>2. \A s \in Sinks : Evaluating(pass)[b][s].value = b.guard
  BY EvaluateKinds, ResultIs
<1>3. Outcomes(b) = IF b.guard = "true" THEN {Nothing} ELSE {}
  BY OutcomesOfKind
<1> QED
  BY <1>1, <1>2, <1>3 DEF Settles

LEMMA SettlesAssign ==
  ASSUME NEW pass, pass.capture \in BOOLEAN, ~pass.capture => pass.after \in Value,
         NEW b \in Tree, Is("assign", b)
  PROVE  Settles(pass, b)
<1>1. b \in Updates /\ b.assign \in Value /\ Outcomes(b) = {b.assign} /\ FirstOutcome(b) = b.assign
  BY OneBody, EffectAssumption, OutcomesOfKind, FirstOutcomeOfKind
<1>2. \A s \in Sinks : Evaluating(pass)[b][s] = Assign(b.assign, pass, s)
  BY EvaluateKinds
<1>3. CASE pass.capture
  <2>1. \A s \in Sinks : Assign(b.assign, pass, s) = Result("true", b.assign)
    BY <1>3 DEF Assign
  <2>2. \A s \in Sinks : Evaluating(pass)[b][s].value = "true" /\ Evaluating(pass)[b][s].sink = b.assign
    BY <1>2, <2>1, ResultIs
  <2> QED
    BY <1>1, <1>3, <2>2 DEF Settles, Takes
<1>4. CASE ~pass.capture
  <2>1. Equal(b.assign, pass.after) <=> b.assign = pass.after
    BY <1>1, <1>4, EqualIsSame
  <2>2. \A s \in Sinks : Assign(b.assign, pass, s).value =
          IF b.assign = pass.after THEN "true" ELSE "error"
    BY <1>4, <2>1, ResultIs DEF Assign
  <2>3. \A s \in Sinks : Evaluating(pass)[b][s].value =
          IF b.assign = pass.after THEN "true" ELSE "error"
    BY <1>2, <2>2
  <2> QED
    BY <1>1, <1>4, <2>3 DEF Settles, Takes
<1> QED
  BY <1>3, <1>4

LEMMA SettlesCondition ==
  ASSUME NEW pass, NEW b \in Tree, Is("condition", b), b.condition # "fails",
         \A c \in Needed(b) : Settles(pass, c)
  PROVE  Settles(pass, b)
<1> DEFINE c == IF b.condition = "true" THEN b.then ELSE b.else
<1>1. Needed(b) = {c}
  BY OtherBodies DEF Needed
<1>2. Outcomes(b) = Outcomes(c)
  <2>1. b.condition \in {"true", "false"}
    BY OneBody DEF Guard
  <2> QED
    BY <2>1, OutcomesOfKind
<1>3. FirstOutcome(b) = FirstOutcome(c)
  BY FirstOutcomeOfKind
<1>4. b \in Updates <=> c \in Updates
  BY EffectAssumption
<1>5. \A s \in Sinks : Evaluating(pass)[b][s] = Evaluating(pass)[c][s]
  BY EvaluateKinds
<1> HIDE DEF c
<1> QED
  BY <1>1, <1>2, <1>3, <1>4, <1>5 DEF Settles

LEMMA SettlesAny ==
  ASSUME NEW pass, NEW b \in Tree, Is("any", b),
         \A c \in Needed(b) : Settles(pass, c)
  PROVE  Settles(pass, b)
<1> DEFINE args == b.any
<1>1. args \in Seq(Tree) /\ Len(args) \in Nat /\ DOMAIN args = 1 .. Len(args)
  BY OneBody
<1>2. \A i \in DOMAIN args : Settles(pass, args[i])
  <2>1. Needed(b) = Range(args)
    BY OtherBodies, WithinIsTree DEF Needed
  <2> QED
    BY <2>1 DEF Range
<1>3. Outcomes(b) = UNION {Outcomes(args[i]) : i \in DOMAIN args}
  BY OutcomesOfKind
<1>4. Possible(args) # {} => FirstOutcome(b) = FirstOutcome(args[FirstPossible(args)])
  BY FirstOutcomeOfKind
<1>5. \A i \in DOMAIN args : args[i] \in Updates <=> b \in Updates
  BY EffectAssumption
<1>6. \A s \in Sinks : \E result, k : /\ Runs("true", args, pass, s, result, k)
                                      /\ Evaluating(pass)[b][s] = result[k]
  BY AnyRuns
<1> HIDE DEF args
<1> SUFFICES ASSUME NEW s \in Sinks
             PROVE  /\ Outcomes(b) = {} => Evaluating(pass)[b][s].value = "false"
                    /\ Outcomes(b) # {} =>
                         Evaluating(pass)[b][s].value =
                           IF b \in Updates => Takes(pass, FirstOutcome(b)) THEN "true" ELSE "error"
                    /\ Outcomes(b) # {} /\ b \in Updates /\ pass.capture =>
                         Evaluating(pass)[b][s].sink = FirstOutcome(b)
  BY DEF Settles
<1>7. PICK result, k : /\ Runs("true", args, pass, s, result, k)
                       /\ Evaluating(pass)[b][s] = result[k]
  BY <1>6
<1>8. /\ k \in 0 .. Len(args)
      /\ \A j \in 1 .. k : /\ result[j - 1].value = "false" /\ result[j - 1].sink \in Sinks
                           /\ result[j] = Evaluating(pass)[args[j]][result[j - 1].sink]
      /\ k = Len(args) \/ result[k].value # "false"
      /\ result[0].value = "false"
  <2>1. Opposite("true") = "false"
    BY DEF Opposite
  <2>2. \A j \in 1 .. k : j - 1 \in 0 .. Len(args)
    BY <1>1, <1>7 DEF Runs
  <2>3. \A j \in 1 .. k : result[j - 1].sink \in Sinks
    BY <1>7, <2>2 DEF Runs, Results
  <2>4. result[0].value = "false"
    BY <1>7, <2>1 DEF Runs, Result
  <2> QED
    BY <1>7, <2>1, <2>3, <2>4 DEF Runs
<1>a. Len(args) \in Nat /\ k \in Nat /\ k <= Len(args)
  <2>1. Len(args) \in Nat /\ k \in 0 .. Len(args)
    BY <1>1, <1>8
  <2> QED
    BY <2>1
<1>9. \A j \in 1 .. k : j \in DOMAIN args
  <2>1. DOMAIN args = 1 .. Len(args)
    BY <1>1
  <2> QED
    BY <1>a, <2>1
\* What has been passed over is not possible.
<1>10. ASSUME NEW j \in 1 .. k, result[j].value = "false"
       PROVE  Outcomes(args[j]) = {}
  BY <1>2, <1>8, <1>9, <1>10 DEF Settles
<1>11. ASSUME NEW j \in 1 .. k, j # k
       PROVE  Outcomes(args[j]) = {}
  <2>1. j + 1 \in 1 .. k /\ (j + 1) - 1 = j
    BY <1>a, <1>11
  <2>2. result[j].value = "false"
    BY <1>8, <2>1
  <2> QED
    BY <1>10, <2>2
<1>12. CASE result[k].value = "false"
  <2>1. k = Len(args)
    BY <1>8, <1>12
  <2>2. \A j \in DOMAIN args : Outcomes(args[j]) = {}
    BY <1>1, <1>10, <1>11, <1>12, <2>1
  <2>3. Outcomes(b) = {}
    BY <1>3, <2>2
  <2> QED
    BY <1>7, <1>12, <2>3
<1>13. CASE result[k].value # "false"
  <2>1. k \in 1 .. k /\ k \in DOMAIN args
    BY <1>1, <1>8, <1>9, <1>13
  <2>2. result[k] = Evaluating(pass)[args[k]][result[k - 1].sink] /\ result[k - 1].sink \in Sinks
    BY <1>8, <2>1
  <2>3. Outcomes(args[k]) # {}
    BY <1>2, <1>13, <2>1, <2>2 DEF Settles
  <2>4. k \in Possible(args)
    BY <2>1, <2>3 DEF Possible
  <2>5. \A j \in Possible(args) : k <= j
    <3> SUFFICES ASSUME NEW j \in Possible(args), ~(k <= j) PROVE FALSE
      OBVIOUS
    <3>1. j \in DOMAIN args /\ Outcomes(args[j]) # {}
      BY DEF Possible
    <3>a. j \in Nat /\ 1 <= j
      BY <1>1, <3>1
    <3>2. j \in 1 .. k /\ j # k
      BY <1>a, <3>a
    <3> QED
      BY <1>11, <3>1, <3>2
  <2>6. FirstPossible(args) = k
    <3>1. FirstPossible(args) \in Possible(args) /\ FirstPossible(args) <= k
      BY <1>1, <2>4, FirstPossibleIs
    <3>2. FirstPossible(args) \in Nat /\ k <= FirstPossible(args)
      BY <1>1, <2>5, <3>1 DEF Possible
    <3> QED
      BY <1>a, <3>1, <3>2
  <2>7. FirstOutcome(b) = FirstOutcome(args[k])
    BY <1>4, <2>4, <2>6
  <2>8. Outcomes(b) # {} /\ (args[k] \in Updates <=> b \in Updates)
    BY <1>3, <1>5, <2>1, <2>3
  <2>9. Settles(pass, args[k]) /\ Evaluating(pass)[b][s] = Evaluating(pass)[args[k]][result[k - 1].sink]
    BY <1>2, <1>7, <2>1, <2>2
  <2> QED
    BY <2>2, <2>3, <2>7, <2>8, <2>9 DEF Settles
<1> QED
  BY <1>12, <1>13

LEMMA SettlesAll ==
  ASSUME NEW pass, NEW b \in Tree, Is("all", b),
         \A i \in DOMAIN b.all : i < Len(b.all) => Is("guard", b.all[i]),
         \A c \in Needed(b) : Settles(pass, c)
  PROVE  Settles(pass, b)
<1> DEFINE args == b.all
           n == Len(args)
<1>1. args \in Seq(Tree) /\ n \in Nat /\ DOMAIN args = 1 .. n /\ \A i \in DOMAIN args : args[i] \in Tree
  BY OneBody
<1>2. ASSUME NEW i \in DOMAIN args, \A j \in 1 .. i - 1 : args[j] # [guard |-> "false"]
      PROVE  Settles(pass, args[i])
  <2>1. Needed(b) = {b.all[l] : l \in {k \in DOMAIN b.all :
                              \A j \in 1 .. k - 1 : b.all[j] # [guard |-> "false"]}}
    BY OtherBodies DEF Needed
  <2> QED
    BY <1>2, <2>1
<1>3. \A i \in DOMAIN args : i < n => Is("guard", args[i]) /\ args[i] \notin Updates
  BY <1>1, EffectAssumption
<1>4. /\ Outcomes(b) # {} <=> \A i \in DOMAIN args : Outcomes(args[i]) # {}
      /\ b \in Updates <=> \E i \in DOMAIN args : args[i] \in Updates
  BY OutcomesOfAll, EffectAssumption
<1>5. args # <<>> => FirstOutcome(b) = FirstOutcome(args[n])
  BY FirstOutcomeOfKind
<1>6. \A s \in Sinks : \E result, k : /\ Runs("false", args, pass, s, result, k)
                                      /\ Evaluating(pass)[b][s] = result[k]
  BY AllRuns
<1> HIDE DEF args
<1> SUFFICES ASSUME NEW s \in Sinks
             PROVE  /\ Outcomes(b) = {} => Evaluating(pass)[b][s].value = "false"
                    /\ Outcomes(b) # {} =>
                         Evaluating(pass)[b][s].value =
                           IF b \in Updates => Takes(pass, FirstOutcome(b)) THEN "true" ELSE "error"
                    /\ Outcomes(b) # {} /\ b \in Updates /\ pass.capture =>
                         Evaluating(pass)[b][s].sink = FirstOutcome(b)
  BY DEF Settles
<1>7. PICK result, k : /\ Runs("false", args, pass, s, result, k)
                       /\ Evaluating(pass)[b][s] = result[k]
  BY <1>6
<1>8. /\ k \in 0 .. n
      /\ \A j \in 1 .. k : /\ result[j - 1].value = "true" /\ result[j - 1].sink \in Sinks
                           /\ result[j] = Evaluating(pass)[args[j]][result[j - 1].sink]
      /\ k = n \/ result[k].value # "true"
      /\ result[0].value = "true"
  <2>1. Opposite("false") = "true"
    BY DEF Opposite
  <2>2. \A j \in 1 .. k : j - 1 \in 0 .. n
    <3>1. n \in Nat /\ k \in 0 .. n
      BY <1>1, <1>7 DEF Runs
    <3> HIDE DEF n
    <3> QED
      BY <3>1
  <2>3. \A j \in 1 .. k : result[j - 1].sink \in Sinks
    BY <1>7, <2>2 DEF Runs, Results
  <2>4. result[0].value = "true"
    BY <1>7, <2>1 DEF Runs, Result
  <2> QED
    BY <1>7, <2>1, <2>3, <2>4 DEF Runs
<1>a. n \in Nat /\ k \in Nat /\ k <= n
  <2>1. n \in Nat /\ k \in 0 .. n
    BY <1>1, <1>8
  <2> HIDE DEF n
  <2> QED
    BY <2>1
<1>9. \A j \in 1 .. k : j \in DOMAIN args
  <2>1. DOMAIN args = 1 .. n
    BY <1>1
  <2> HIDE DEF n
  <2> QED
    BY <1>a, <2>1
\* The guards before the k-th are true, so the k-th is needed.
<1>10. ASSUME NEW j \in 1 .. k, j # k
       PROVE  args[j] # [guard |-> "false"] /\ Outcomes(args[j]) # {}
  <2>1. j + 1 \in 1 .. k /\ (j + 1) - 1 = j /\ j < n
    <3> HIDE DEF n
    <3> QED
      BY <1>a, <1>10
  <2>2. result[j].value = "true"
    BY <1>8, <2>1
  <2>3. args[j] \in Tree /\ Is("guard", args[j])
    BY <1>1, <1>3, <1>9, <2>1
  <2>4. result[j] = Evaluating(pass)[args[j]][result[j - 1].sink] /\ result[j - 1].sink \in Sinks
    BY <1>8
  <2>5. result[j].value = IF args[j].guard = "fails" THEN "error" ELSE args[j].guard
    BY <2>3, <2>4, EvaluateKinds, ResultIs
  <2>6. args[j].guard = "true"
    BY <2>2, <2>5
  <2>7. Outcomes(args[j]) = {Nothing}
    BY <2>3, <2>6, OutcomesOfKind
  <2>8. args[j] # [guard |-> "false"]
    BY <2>6
  <2> QED
    BY <2>7, <2>8
<1>11. ASSUME k # 0
       PROVE  /\ k \in 1 .. k /\ k \in DOMAIN args /\ Settles(pass, args[k])
              /\ result[k] = Evaluating(pass)[args[k]][result[k - 1].sink]
              /\ result[k - 1].sink \in Sinks
  <2>1. k \in 1 .. k /\ k \in DOMAIN args
    BY <1>1, <1>8, <1>9, <1>11
  <2>2. \A j \in 1 .. k - 1 : j \in 1 .. k /\ j # k
    BY <1>a
  <2>3. Settles(pass, args[k])
    BY <1>2, <1>10, <2>1, <2>2
  <2> QED
    BY <1>8, <2>1, <2>3
<1>12. CASE k = 0
  <2>1. n = 0 /\ result[k].value = "true"
    BY <1>8, <1>12
  <2>2. DOMAIN args = {}
    BY <1>1, <2>1
  <2>3. Outcomes(b) # {} /\ b \notin Updates
    BY <1>4, <2>2
  <2> QED
    BY <1>7, <2>1, <2>3
<1>13. CASE k # 0 /\ k # n
  <2>1. k < n
    <3> HIDE DEF n
    <3> QED
      BY <1>a, <1>13
  <2>2. Is("guard", args[k]) /\ args[k] \notin Updates
    BY <1>3, <1>11, <1>13, <2>1
  <2>3. result[k].value # "true"
    BY <1>8, <1>13
  <2>4. Outcomes(args[k]) = {} /\ result[k].value = "false"
    BY <1>11, <1>13, <2>2, <2>3 DEF Settles
  <2>5. Outcomes(b) = {}
    BY <1>4, <1>11, <1>13, <2>4
  <2> QED
    BY <1>7, <2>4, <2>5
<1>14. CASE k # 0 /\ k = n
  <2>1. \A j \in DOMAIN args : j # n => Outcomes(args[j]) # {} /\ args[j] \notin Updates
    <3> SUFFICES ASSUME NEW j \in DOMAIN args, j # n
                 PROVE  Outcomes(args[j]) # {} /\ args[j] \notin Updates
      OBVIOUS
    <3>1. j \in 1 .. k /\ j # k /\ j < n
      BY <1>1, <1>14
    <3> QED
      BY <1>3, <1>10, <3>1
  <2>2. n \in DOMAIN args /\ args # <<>>
    BY <1>1, <1>11, <1>14
  <2>3. Outcomes(b) = {} <=> Outcomes(args[n]) = {}
    BY <1>4, <2>1, <2>2
  <2>4. b \in Updates <=> args[n] \in Updates
    BY <1>4, <2>1, <2>2
  <2>5. FirstOutcome(b) = FirstOutcome(args[n])
    BY <1>5, <2>2
  <2>6. /\ Settles(pass, args[n]) /\ result[k - 1].sink \in Sinks
        /\ Evaluating(pass)[b][s] = Evaluating(pass)[args[n]][result[k - 1].sink]
    BY <1>7, <1>11, <1>14
  <2> HIDE DEF n
  <2> QED
    BY <2>3, <2>4, <2>5, <2>6 DEF Settles
<1> QED
  BY <1>12, <1>13, <1>14

\* With guards first and none that fails needed, evaluation settles on the
\* first alternative that is possible.
LEMMA SettlesEvery ==
  ASSUME NEW pass, pass.capture \in BOOLEAN, ~pass.capture => pass.after \in Value
  PROVE  \A b \in Tree : GuardsFirst(b) /\ Protected(b) => Settles(pass, b)
<1> DEFINE Good == {b \in Tree : GuardsFirst(b) /\ Protected(b) => Settles(pass, b)}
<1>1. ASSUME NEW b \in Tree, \A c \in Tree : height[c] < height[b] => c \in Good
      PROVE  b \in Good
  <2> SUFFICES ASSUME GuardsFirst(b), Protected(b) PROVE Settles(pass, b)
    OBVIOUS
  <2>1. \A c \in Needed(b) : Settles(pass, c)
    BY <1>1, GuardedWithin
  <2>2. CASE Is("all", b)
    <3>1. \A i \in DOMAIN b.all : i < Len(b.all) => Is("guard", b.all[i])
      BY <2>2, GuardedWithin
    <3> QED
      BY <2>1, <2>2, <3>1, SettlesAll
  <2>3. CASE Is("any", b)
    BY <2>1, <2>3, SettlesAny
  <2>4. CASE Is("condition", b)
    <3>1. b.condition # "fails"
      BY <2>4, GuardedWithin
    <3> QED
      BY <2>1, <2>4, <3>1, SettlesCondition
  <2>5. CASE Is("guard", b)
    <3>1. b.guard # "fails"
      BY <2>5, GuardedWithin
    <3> QED
      BY <2>5, <3>1, SettlesGuard
  <2>6. CASE Is("assign", b)
    BY <2>6, SettlesAssign
  <2> QED
    BY <2>2, <2>3, <2>4, <2>5, <2>6, OneBody
<1>2. \A b \in Tree : b \in Good
  <2> HIDE DEF Good
  <2> QED
    BY <1>1, HeightIsNatural, NestedInduction
<1> QED
  BY <1>2

-----------------------------------------------------------------------------
\* What the two passes find in the body.
Found == Evaluate(body, CapturePass, Nothing)
Assigned == Found.value = "true" /\ Found.sink # Nothing
Judged == Evaluate(body, CheckPass(merged), Nothing).value = "true" /\ Equal(reached, merged)

\* The inductive invariant: body, reached and observed stay what they were, and
\* the verdict is that of the passes made so far.
PassesAgree ==
  /\ body \in Bodies
  /\ reached \in Outcomes(body)
  /\ observed \in Reports(body)
  /\ \/ verdict = "open" /\ captured = Nothing /\ merged = Nothing
     \/ verdict = "rejected" /\ captured = Nothing /\ merged = Nothing /\ ~Assigned
     \/ /\ Assigned
        /\ captured = Found.sink
        /\ merged = Merge(captured, observed)
        /\ \/ verdict = "captured"
           \/ verdict = "accepted" /\ Judged
           \/ verdict = "rejected" /\ ~Judged

\* For any actions and values, every step of the reducer leaves the verdict that of
\* the passes made so far (evaluate_projected_action_step).
THEOREM VerdictIsOfThePasses == AlternativesSpec => []PassesAgree
<1>1. AlternativesInit => PassesAgree
  BY DEF AlternativesInit, PassesAgree
<1>2. PassesAgree /\ [AlternativesNext]_alternativesVars => PassesAgree'
  <2> SUFFICES ASSUME PassesAgree, [AlternativesNext]_alternativesVars PROVE PassesAgree'
    OBVIOUS
  <2>1. CASE Capture
    <3>1. /\ verdict = "open" /\ captured = Nothing /\ merged = Nothing
          /\ body' = body /\ reached' = reached /\ observed' = observed
          /\ body \in Bodies /\ reached \in Outcomes(body) /\ observed \in Reports(body)
      BY <2>1 DEF Capture, PassesAgree
    <3>2. Found' = Found /\ (Assigned' <=> Assigned)
      BY <3>1 DEF Found, Assigned
    <3>3. CASE Assigned
      <4>1. captured' = Found.sink /\ merged' = Merge(Found.sink, observed) /\ verdict' = "captured"
        BY <2>1, <3>3 DEF Capture, Found, Assigned
      <4> QED
        BY <3>1, <3>2, <3>3, <4>1 DEF PassesAgree
    <3>4. CASE ~Assigned
      <4>1. captured' = captured /\ merged' = merged /\ verdict' = "rejected"
        BY <2>1, <3>4 DEF Capture, Found, Assigned
      <4> QED
        BY <3>1, <3>2, <3>4, <4>1 DEF PassesAgree
    <3> QED
      BY <3>3, <3>4
  <2>2. CASE Check
    <3>1. /\ Assigned /\ captured = Found.sink /\ merged = Merge(captured, observed)
          /\ body' = body /\ reached' = reached /\ observed' = observed
          /\ captured' = captured /\ merged' = merged
          /\ body \in Bodies /\ reached \in Outcomes(body) /\ observed \in Reports(body)
      BY <2>2 DEF Check, PassesAgree
    <3>2. Found' = Found /\ (Assigned' <=> Assigned) /\ (Judged' <=> Judged)
      BY <3>1 DEF Found, Assigned, Judged
    <3>3. verdict' = IF Judged THEN "accepted" ELSE "rejected"
      BY <2>2 DEF Check, Judged
    <3> QED
      BY <3>1, <3>2, <3>3 DEF PassesAgree
  <2>3. CASE UNCHANGED alternativesVars
    BY <2>3 DEF alternativesVars, PassesAgree, Found, Assigned, Judged
  <2> QED
    BY <2>1, <2>2, <2>3 DEF AlternativesNext
<1> QED
  BY <1>1, <1>2, PTL DEF AlternativesSpec

\* Once something is captured it is an outcome of the body, and like the
\* observation and the merged state a value.
LEMMA CapturedIsOutcome ==
  ASSUME PassesAgree, captured # Nothing \/ merged # Nothing \/ verdict \in {"captured", "accepted"}
  PROVE  /\ Assigned /\ captured = Found.sink /\ merged = Merge(captured, observed)
         /\ captured \in Outcomes(body)
         /\ captured \in Value /\ observed \in Value /\ merged \in Value /\ reached \in Value
         /\ verdict \in {"captured", "accepted", "rejected"}
         /\ verdict = "accepted" => Judged
         /\ verdict = "rejected" => ~Judged
<1>1. /\ Assigned /\ captured = Found.sink /\ merged = Merge(captured, observed)
      /\ verdict \in {"captured", "accepted", "rejected"}
      /\ verdict = "accepted" => Judged
      /\ verdict = "rejected" => ~Judged
  BY DEF PassesAgree
<1>2. body \in Tree /\ body \in Updates /\ reached \in Outcomes(body) /\ observed \in Value
  BY BodyAssumption, EffectAssumption DEF PassesAgree
<1>3. Capturing(body)
  BY <1>2, CapturingEvery
<1>4. Found = Evaluating(CapturePass)[body][Nothing]
  BY DEF Found, Evaluate
<1>5. captured \in Outcomes(body)
  BY <1>1, <1>2, <1>3, <1>4, NothingIsSink DEF Capturing, Assigned
<1>6. Outcomes(body) \subseteq Value
  BY <1>2, UpdatesAssign
<1>7. merged \in Value
  BY <1>1, <1>2, <1>5, <1>6, MergedIsValue
<1> QED
  BY <1>1, <1>2, <1>5, <1>6, <1>7

\* For any actions and values, in every behaviour: what the capture pass found is
\* a state Quint may reach, and a projection is only accepted at the state it did
\* reach (evaluate_projected_action_step).
THEOREM CapturedIsAlwaysPossible == AlternativesSpec => []CapturedIsPossible
<1>1. PassesAgree => CapturedIsPossible
  <2> SUFFICES ASSUME PassesAgree PROVE CapturedIsPossible
    OBVIOUS
  <2>1. verdict = "captured" => captured \in Outcomes(body)
    BY CapturedIsOutcome
  <2>2. ASSUME verdict = "accepted" PROVE merged = captured /\ captured = reached
    <3>1. /\ Judged /\ captured = Found.sink /\ merged \in Value /\ reached \in Value
      BY <2>2, CapturedIsOutcome
    <3>2. body \in Tree /\ body \in Updates
      BY BodyAssumption, EffectAssumption DEF PassesAgree
    <3>3. Checking(body, merged)
      BY <3>1, <3>2, CheckingEvery
    <3>4. Evaluating(CheckPass(merged))[body][Nothing].value = "true"
          /\ Found = Evaluating(CapturePass)[body][Nothing]
      BY <3>1 DEF Judged, Found, Evaluate
    <3>5. Found.sink = merged
      BY <3>2, <3>3, <3>4, NothingIsSink DEF Checking
    <3>6. reached = merged
      BY <3>1, EqualIsSame DEF Judged
    <3> QED
      BY <3>1, <3>5, <3>6
  <2> QED
    BY <2>1, <2>2 DEF CapturedIsPossible
<1> QED
  BY <1>1, VerdictIsOfThePasses, PTL

\* For any observation: what is compared with the state Quint reached says all
\* that was observed, and is the observation where that is whole (merge_observed).
THEOREM MergedAlwaysSaysObserved == AlternativesSpec => []MergedSaysObserved
<1>1. PassesAgree => MergedSaysObserved
  <2> SUFFICES ASSUME PassesAgree, merged # Nothing
               PROVE  Says(observed, merged) /\ (Whole(observed, captured) => merged = observed)
    BY DEF MergedSaysObserved
  <2>1. merged = Merge(captured, observed) /\ captured \in Value /\ observed \in Value
    BY CapturedIsOutcome
  <2> QED
    BY <2>1, MergedSays, WholeReplaces
<1> QED
  BY <1>1, VerdictIsOfThePasses, PTL

\* With guards first and none that fails needed, the capture pass finds the first
\* alternative that is possible.
LEMMA FoundIsFirst ==
  ASSUME PassesAgree, GuardsFirst(body), Protected(body)
  PROVE  Assigned /\ Found.sink = FirstOutcome(body)
<1>1. body \in Tree /\ body \in Updates /\ Outcomes(body) # {}
  BY BodyAssumption, EffectAssumption DEF PassesAgree
<1>2. Settles(CapturePass, body)
  <2>1. CapturePass.capture = TRUE
    BY DEF CapturePass
  <2>2. CapturePass.capture \in BOOLEAN /\ (~CapturePass.capture => CapturePass.after \in Value)
    BY <2>1
  <2>3. \A b \in Tree : GuardsFirst(b) /\ Protected(b) => Settles(CapturePass, b)
    BY <2>2, SettlesEvery
  <2> QED
    BY <1>1, <2>3
<1>3. Found = Evaluating(CapturePass)[body][Nothing]
  BY DEF Found, Evaluate
<1>4. CapturePass.capture
  BY DEF CapturePass
<1>5. Found.value = "true" /\ Found.sink = FirstOutcome(body)
  BY <1>1, <1>2, <1>3, <1>4, NothingIsSink DEF Settles, Takes
<1>6. Found.sink # Nothing
  BY <1>1, <1>3, <1>5, CapturingEvery, NothingIsSink DEF Capturing
<1> QED
  BY <1>5, <1>6 DEF Assigned

\* In every behaviour and for any such action the reducer settles on the first
\* alternative that is possible (evaluate_short_circuit).
THEOREM AlwaysTakesFirstAlternative == AlternativesSpec => []TakesFirstAlternative
<1>1. PassesAgree => TakesFirstAlternative
  <2> SUFFICES ASSUME PassesAgree, GuardsFirst(body), Protected(body),
                      verdict = "captured" \/ verdict = "rejected"
               PROVE  captured = FirstOutcome(body)
    BY DEF TakesFirstAlternative
  <2>1. Assigned /\ Found.sink = FirstOutcome(body)
    BY FoundIsFirst
  <2>2. captured = Found.sink
    BY <2>1 DEF PassesAgree
  <2> QED
    BY <2>1, <2>2
<1> QED
  BY <1>1, VerdictIsOfThePasses, PTL

\* In every behaviour, for any such action and any observation: the projection is
\* accepted exactly when Quint took that alternative and the observation says
\* nothing else (the merge, both passes and the `next` obligation together).
THEOREM AlwaysAcceptsWhatIsSaid == AlternativesSpec => []AcceptsWhatIsSaid
<1>1. PassesAgree => AcceptsWhatIsSaid
  <2> SUFFICES ASSUME PassesAgree, GuardsFirst(body), Protected(body),
                      verdict \in {"accepted", "rejected"}
               PROVE  verdict = "accepted" <=>
                        reached = FirstOutcome(body) /\ Says(observed, reached)
    BY DEF AcceptsWhatIsSaid
  <2>1. Assigned /\ Found.sink = FirstOutcome(body)
    BY FoundIsFirst
  <2>2. captured = Found.sink /\ captured # Nothing
    BY <2>1 DEF PassesAgree, Assigned
  <2>3. /\ merged = Merge(captured, observed)
        /\ captured \in Value /\ observed \in Value /\ merged \in Value /\ reached \in Value
        /\ verdict = "accepted" <=> Judged
    BY <2>2, CapturedIsOutcome
  <2>4. Evaluate(body, CheckPass(merged), Nothing).value = "true" <=> captured = merged
    <3>1. body \in Tree /\ body \in Updates /\ Outcomes(body) # {}
      BY BodyAssumption, EffectAssumption DEF PassesAgree
    <3>2. /\ CheckPass(merged).capture \in BOOLEAN /\ ~CheckPass(merged).capture
          /\ CheckPass(merged).after = merged
      BY DEF CheckPass
    <3>3. Settles(CheckPass(merged), body)
      BY <2>3, <3>1, <3>2, SettlesEvery
    <3>4. Evaluating(CheckPass(merged))[body][Nothing].value =
            IF Takes(CheckPass(merged), FirstOutcome(body)) THEN "true" ELSE "error"
      BY <3>1, <3>3, NothingIsSink DEF Settles
    <3> QED
      BY <2>1, <2>2, <3>2, <3>4 DEF Takes, Evaluate
  <2>5. Equal(reached, merged) <=> reached = merged
    BY <2>3, EqualIsSame
  <2>6. merged = captured <=> Says(observed, captured)
    BY <2>3, UnchangedIsSaid
  <2> QED
    BY <2>1, <2>2, <2>3, <2>4, <2>5, <2>6 DEF Judged
<1> QED
  BY <1>1, VerdictIsOfThePasses, PTL
=============================================================================
