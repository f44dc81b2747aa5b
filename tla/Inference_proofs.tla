--------------------------- MODULE Inference_proofs ---------------------------
(***************************************************************************)
(* What the compiler's inference guarantees the scheduler and the driver,  *)
(* for every annotated model.                                              *)
(***************************************************************************)
EXTENDS Inference, Schedule_proofs, FiniteSetTheorems

\* Inductions below are by a least counterexample.
LEMMA LeastNatural ==
  ASSUME NEW S \in SUBSET Nat, S # {}
  PROVE  \E k \in S : \A j \in S : ~(j < k)
<1>1. PICK k \in S : \A j \in S : ~(<<j, k>> \in OpToRel(<, Nat))
  BY NatLessThanWellFounded, WFMin
<1> QED
  BY <1>1 DEF OpToRel

\* The prefixes of a sequence without what is not wanted, up to the m-th.
Kept(f, m, s, S, wanted) ==
  /\ f \in [0 .. m -> Seq(S)]
  /\ f[0] = <<>>
  /\ \A n \in 1 .. m :
       f[n] = IF s[n] \in wanted THEN Append(f[n - 1], s[n]) ELSE f[n - 1]

LEMMA KeptExists ==
  ASSUME NEW S, NEW s \in Seq(S), NEW wanted
  PROVE  \E f : Kept(f, Len(s), s, S, wanted)
<1> DEFINE Bad == {m \in Nat : m <= Len(s) /\ ~\E f : Kept(f, m, s, S, wanted)}
<1>0. Len(s) \in Nat
  OBVIOUS
<1> SUFFICES ASSUME Bad # {} PROVE FALSE
  BY <1>0
<1>1. PICK m \in Bad : \A j \in Bad : ~(j < m)
  BY LeastNatural
<1>2. m # 0
  <2> DEFINE f == [n \in 0 .. 0 |-> <<>>]
  <2>1. f \in [0 .. 0 -> Seq(S)] /\ f[0] = <<>>
    OBVIOUS
  <2>2. Kept(f, 0, s, S, wanted)
    BY <2>1 DEF Kept
  <2> QED
    BY <1>1, <2>2
<1>3. m \in 1 .. Len(s) /\ m - 1 \in Nat /\ m - 1 <= Len(s) /\ m - 1 < m
  BY <1>1, <1>2
<1>4. PICK f : Kept(f, m - 1, s, S, wanted)
  BY <1>1, <1>3
<1> DEFINE last == IF s[m] \in wanted THEN Append(f[m - 1], s[m]) ELSE f[m - 1]
           g == [n \in 0 .. m |-> IF n = m THEN last ELSE f[n]]
<1>5. f[m - 1] \in Seq(S) /\ s[m] \in S
  BY <1>3, <1>4 DEF Kept
<1>6. last \in Seq(S)
  BY <1>5
<1>7. \A n \in 0 .. m : n # m => n \in 0 .. m - 1 /\ f[n] \in Seq(S)
  BY <1>3, <1>4 DEF Kept
<1>8. g \in [0 .. m -> Seq(S)]
  BY <1>6, <1>7
<1>9. \A n \in 0 .. m - 1 : g[n] = f[n]
  BY <1>3
<1>10. g[m] = last /\ m - 1 \in 0 .. m - 1
  BY <1>3
<1>11. g[0] = <<>>
  BY <1>3, <1>4, <1>9 DEF Kept
<1> HIDE DEF g
<1>12. ASSUME NEW n \in 1 .. m
       PROVE  g[n] = IF s[n] \in wanted THEN Append(g[n - 1], s[n]) ELSE g[n - 1]
  <2>1. CASE n = m
    BY <2>1, <1>9, <1>10
  <2>2. CASE n \in 1 .. m - 1
    <3>1. n \in 0 .. m - 1 /\ n - 1 \in 0 .. m - 1
      BY <2>2
    <3>2. f[n] = IF s[n] \in wanted THEN Append(f[n - 1], s[n]) ELSE f[n - 1]
      BY <1>4, <2>2 DEF Kept
    <3> QED
      BY <3>1, <3>2, <1>9
  <2> QED
    BY <2>1, <2>2, <1>3
<1>13. Kept(g, m, s, S, wanted)
  BY <1>8, <1>11, <1>12 DEF Kept
<1> QED
  BY <1>1, <1>13

LEMMA ThoseAreKept ==
  ASSUME NEW S, NEW s \in Seq(S), NEW wanted, NEW f, Kept(f, Len(s), s, S, wanted)
  PROVE  Those(s, wanted) = f[Len(s)]
<1> DEFINE Rec(h) ==
      h = [n \in 0 .. Len(s) |->
             IF n = 0 THEN <<>>
             ELSE IF s[n] \in wanted THEN Append(h[n - 1], s[n]) ELSE h[n - 1]]
<1>1. Len(s) \in Nat
  OBVIOUS
<1>2. /\ DOMAIN f = 0 .. Len(s) /\ f = [n \in 0 .. Len(s) |-> f[n]]
      /\ f[0] = <<>>
      /\ \A n \in 0 .. Len(s) : n # 0 =>
           f[n] = IF s[n] \in wanted THEN Append(f[n - 1], s[n]) ELSE f[n - 1]
  <2>1. f \in [0 .. Len(s) -> Seq(S)] /\ f[0] = <<>>
    BY DEF Kept
  <2>2. ASSUME NEW n \in 0 .. Len(s), n # 0
        PROVE  f[n] = IF s[n] \in wanted THEN Append(f[n - 1], s[n]) ELSE f[n - 1]
    <3>1. n \in 1 .. Len(s)
      BY <1>1, <2>2
    <3> QED
      BY <3>1 DEF Kept
  <2> QED
    BY <2>1, <2>2
<1>3. Rec(f)
  BY <1>2
<1>4. ASSUME NEW h, Rec(h)
      PROVE  h = f
  <2>1. DOMAIN h = 0 .. Len(s) /\ h = [n \in 0 .. Len(s) |-> h[n]]
    BY <1>4
  <2>2. \A n \in 0 .. Len(s) :
          h[n] = IF n = 0 THEN <<>>
                 ELSE IF s[n] \in wanted THEN Append(h[n - 1], s[n]) ELSE h[n - 1]
    BY <1>4
  <2> HIDE DEF Rec
  <2> DEFINE Bad == {n \in 0 .. Len(s) : h[n] # f[n]}
  <2>3. Bad = {}
    <3> SUFFICES ASSUME Bad # {} PROVE FALSE
      OBVIOUS
    <3>1. Bad \in SUBSET Nat
      OBVIOUS
    <3>2. PICK n \in Bad : \A j \in Bad : ~(j < n)
      BY <3>1, LeastNatural
    <3>3. n # 0
      BY <1>1, <1>2, <2>2
    <3>4. n - 1 \in 0 .. Len(s) /\ n - 1 < n
      BY <3>3, <1>1
    <3>5. h[n - 1] = f[n - 1]
      BY <3>2, <3>4
    <3> QED
      BY <1>2, <2>2, <3>3, <3>5
  <2>4. \A n \in 0 .. Len(s) : h[n] = f[n]
    BY <2>3
  <2> QED
    BY <1>2, <2>1, <2>4
<1> QED
  BY <1>3, <1>4 DEF Those

\* The elements picked are a sequence of exactly those that are wanted.
LEMMA ThoseOf ==
  ASSUME NEW S, NEW s \in Seq(S), NEW wanted
  PROVE  Those(s, wanted) \in Seq(S) /\ Range(Those(s, wanted)) = Range(s) \cap wanted
<1>1. PICK f : Kept(f, Len(s), s, S, wanted)
  BY KeptExists
<1>2. Those(s, wanted) = f[Len(s)]
  BY <1>1, ThoseAreKept
<1>3. Len(s) \in Nat /\ f[0] = <<>> /\ \A n \in 0 .. Len(s) : f[n] \in Seq(S)
  <2>1. f \in [0 .. Len(s) -> Seq(S)] /\ f[0] = <<>>
    BY <1>1 DEF Kept
  <2> QED
    BY <2>1
<1> DEFINE Part(n) == {s[i] : i \in 1 .. n} \cap wanted
           Bad == {n \in 0 .. Len(s) : Range(f[n]) # Part(n)}
<1>4. Bad = {}
  <2> SUFFICES ASSUME Bad # {} PROVE FALSE
    OBVIOUS
  <2>1. Bad \in SUBSET Nat
    OBVIOUS
  <2>2. PICK n \in Bad : \A j \in Bad : ~(j < n)
    BY <2>1, LeastNatural
  <2>3. n # 0
    <3>1. Range(f[0]) = {}
      BY <1>3 DEF Range
    <3>2. Part(0) = {}
      OBVIOUS
    <3> QED
      BY <3>1, <3>2
  <2>4. n \in 1 .. Len(s) /\ n - 1 \in 0 .. Len(s) /\ n - 1 < n /\ n \in Nat
    BY <2>3, <1>3
  <2>5. Range(f[n - 1]) = Part(n - 1)
    BY <2>2, <2>4
  <2>6. {s[i] : i \in 1 .. n} = {s[i] : i \in 1 .. n - 1} \cup {s[n]}
    <3>1. 1 .. n = (1 .. n - 1) \cup {n}
      BY <2>4
    <3> QED
      BY <3>1
  <2>7. Part(n) = IF s[n] \in wanted THEN Part(n - 1) \cup {s[n]} ELSE Part(n - 1)
    BY <2>6
  <2>8. f[n] = IF s[n] \in wanted THEN Append(f[n - 1], s[n]) ELSE f[n - 1]
    BY <1>1, <2>4 DEF Kept
  <2>9. Range(Append(f[n - 1], s[n])) = Range(f[n - 1]) \cup {s[n]}
    <3>1. f[n - 1] \in Seq(S) /\ s[n] \in S
      BY <1>3, <2>4
    <3> DEFINE u == f[n - 1]
               v == Append(u, s[n])
    <3>2. DOMAIN v = 1 .. Len(u) + 1 /\ DOMAIN u = 1 .. Len(u) /\ Len(u) \in Nat
      BY <3>1
    <3>3. v[Len(u) + 1] = s[n] /\ \A i \in 1 .. Len(u) : v[i] = u[i]
      BY <3>1
    <3> HIDE DEF u, v
    <3>4. 1 .. Len(u) + 1 = (1 .. Len(u)) \cup {Len(u) + 1}
      BY <3>2
    <3>5. Range(v) = Range(u) \cup {s[n]}
      BY <3>2, <3>3, <3>4 DEF Range
    <3> QED
      BY <3>5 DEF u, v
  <2> QED
    BY <2>5, <2>7, <2>8, <2>9
<1>5. Range(f[Len(s)]) = Part(Len(s))
  BY <1>3, <1>4
<1>6. Part(Len(s)) = Range(s) \cap wanted
  BY DEF Range
<1> QED
  BY <1>2, <1>3, <1>5, <1>6

-----------------------------------------------------------------------------
\* SetToSeq lists every element of a finite set once.
LEMMA ListOf ==
  ASSUME NEW S, IsFiniteSet(S)
  PROVE  /\ SetToSeq(S) \in Seq(S)
         /\ IsInjective(SetToSeq(S))
         /\ Range(SetToSeq(S)) = S
<1> DEFINE n == Cardinality(S)
           list == SetToSeq(S)
<1>1. n \in Nat /\ ExistsBijection(1 .. n, S)
  BY FS_CardinalityType
<1>2. \E f \in [1 .. n -> S] : IsInjective(f)
  BY <1>1 DEF ExistsBijection, Bijection, Injection
<1>3. list \in [1 .. n -> S] /\ IsInjective(list)
  BY <1>2 DEF SetToSeq
<1>4. IsFiniteSet(1 .. n) /\ Cardinality(1 .. n) = n
  BY <1>1, FS_Interval
<1>5. list \in Surjection(1 .. n, S)
  BY <1>3, <1>4, FS_Injection DEF Injection
<1>6. Range(list) = S
  BY <1>3, <1>5 DEF Surjection, Range
<1> QED
  BY <1>1, <1>3, <1>6

\* What is not claimed by a directive, as the table lists it.
Unclaimed(model) == SetToSeq(Actions(model) \ Claimed(model))

LEMMA ModelTyped ==
  ASSUME NEW model \in Projects
  PROVE  /\ model.runs \in Seq(ProjectRun) /\ model.directives \in Seq(Directive)
         /\ model.defined \in SUBSET Names /\ IsFiniteSet(model.defined)
         /\ model.targets # {}
<1>1. model \in Project /\ IsFiniteSet(model.defined)
  BY ProjectsAssumption
<1>2. model.targets \in (SUBSET Adapters) \ {{}}
  BY <1>1 DEF Project
<1>3. /\ model.runs \in Seq(ProjectRun) /\ model.directives \in Seq(Directive)
      /\ model.defined \in SUBSET Names
  BY <1>1 DEF Project
<1> QED
  BY <1>1, <1>2, <1>3

LEMMA UnclaimedOnce ==
  ASSUME NEW model \in Projects, Accepted(model)
  PROVE  /\ Actions(model) \subseteq Names
         /\ Unclaimed(model) \in Seq(Actions(model) \ Claimed(model))
         /\ IsInjective(Unclaimed(model))
         /\ Range(Unclaimed(model)) = Actions(model) \ Claimed(model)
<1>1. Actions(model) \subseteq model.defined
  BY DEF Accepted
<1>2. model.defined \subseteq Names /\ IsFiniteSet(model.defined)
  BY ModelTyped
<1>3. IsFiniteSet(Actions(model) \ Claimed(model))
  BY <1>1, <1>2, FS_Subset
<1> QED
  BY <1>1, <1>2, <1>3, ListOf DEF Unclaimed

\* The rows of the table: the directives, then what none of them claims.
LEMMA Rows ==
  ASSUME NEW model \in Projects, Accepted(model)
  PROVE  LET table == OwnershipTable(model)
             n == Len(model.directives)
             m == Len(Unclaimed(model))
         IN /\ n \in Nat /\ m \in Nat
            /\ DOMAIN table = 1 .. n + m
            /\ \A i \in 1 .. n :
                 table[i] = Record(model.directives[i].name, model.directives[i].actions)
            /\ \A j \in 1 .. m :
                 table[n + j] = Record(Unclaimed(model)[j], <<Unclaimed(model)[j]>>)
            /\ table \in Seq(OwnershipRecord)
<1> DEFINE n == Len(model.directives)
           rest == Unclaimed(model)
           m == Len(rest)
           commands == [i \in DOMAIN model.directives |->
                          Record(model.directives[i].name, model.directives[i].actions)]
           single == [i \in DOMAIN rest |-> Record(rest[i], <<rest[i]>>)]
<1>1. model.directives \in Seq(Directive) /\ n \in Nat /\ DOMAIN model.directives = 1 .. n
  BY ModelTyped
<1>2. rest \in Seq(Actions(model) \ Claimed(model)) /\ m \in Nat /\ DOMAIN rest = 1 .. m
  BY UnclaimedOnce
<1>3. \A i \in 1 .. n : model.directives[i].name \in Primitives
                        /\ model.directives[i].actions \in Seq(Names)
  <2>1. \A i \in 1 .. n : model.directives[i] \in Directive
    BY <1>1
  <2> QED
    BY <2>1 DEF Directive
<1>4. \A i \in 1 .. m : rest[i] \in Names
  BY <1>2, UnclaimedOnce
<1>5. ASSUME NEW p \in Primitives, NEW s \in Seq(Names)
      PROVE  Record(p, s) \in OwnershipRecord
  BY DEF Record, OwnershipRecord
<1>6. commands \in Seq(OwnershipRecord) /\ Len(commands) = n
  BY <1>1, <1>3, <1>5
<1>7. \A i \in 1 .. m : rest[i] \in Primitives /\ <<rest[i]>> \in Seq(Names)
  BY <1>4, NamesAssumption
<1>8. single \in Seq(OwnershipRecord) /\ Len(single) = m
  <2>1. \A i \in 1 .. m : Record(rest[i], <<rest[i]>>) \in OwnershipRecord
    BY <1>5, <1>7
  <2> QED
    BY <1>2, <2>1
<1>9. OwnershipTable(model) = commands \o single
  BY Zenon DEF OwnershipTable, Unclaimed
<1>10. \A i \in 1 .. n :
         commands[i] = Record(model.directives[i].name, model.directives[i].actions)
  BY <1>1
<1>11. \A j \in 1 .. m : single[j] = Record(rest[j], <<rest[j]>>)
  BY <1>2
<1> HIDE DEF commands, single, n, m
<1>12. commands \o single \in Seq(OwnershipRecord) /\ Len(commands \o single) = n + m
  BY <1>6, <1>8
<1>13. \A i \in 1 .. n : (commands \o single)[i] = commands[i]
  BY <1>1, <1>2, <1>6, <1>8
<1>14. ASSUME NEW j \in 1 .. m
       PROVE  (commands \o single)[n + j] = single[j]
  <2>1. n + j \in 1 .. n + m /\ ~(n + j <= n) /\ (n + j) - n = j
    BY <1>1, <1>2
  <2> QED
    BY <1>6, <1>8, <1>12, <2>1
<1> QED
  BY <1>1, <1>2, <1>9, <1>10, <1>11, <1>12, <1>13, <1>14 DEF n, m

\* Every row is a directive's or an unclaimed action's.
LEMMA RowKinds ==
  ASSUME NEW model \in Projects, Accepted(model), NEW i \in DOMAIN OwnershipTable(model)
  PROVE  LET row == OwnershipTable(model)[i] IN
         \/ /\ i \in DOMAIN model.directives
            /\ row = Record(model.directives[i].name, model.directives[i].actions)
         \/ \E j \in DOMAIN Unclaimed(model) :
              /\ i = Len(model.directives) + j
              /\ row = Record(Unclaimed(model)[j], <<Unclaimed(model)[j]>>)
<1> DEFINE n == Len(model.directives)
           m == Len(Unclaimed(model))
<1>1. n \in Nat /\ m \in Nat /\ i \in 1 .. n + m
  BY Rows
<1>2. DOMAIN model.directives = 1 .. n /\ DOMAIN Unclaimed(model) = 1 .. m
  BY ModelTyped, UnclaimedOnce
<1>3. CASE i \in 1 .. n
  BY <1>2, <1>3, Rows
<1>4. CASE ~(i \in 1 .. n)
  <2>1. i - n \in 1 .. m /\ i = n + (i - n)
    BY <1>1, <1>4
  <2> QED
    BY <1>2, <2>1, Rows
<1> QED
  BY <1>3, <1>4

LEMMA RecordFields ==
  ASSUME NEW p, NEW s
  PROVE  /\ Record(p, s).primitive = p /\ Record(p, s).refines = s
         /\ Record(p, s).aliases = {} /\ Record(p, s).actions = {}
  BY DEF Record

\* A directive's row, and the row of an action that has none.
LEMMA RowFields ==
  ASSUME NEW model \in Projects, Accepted(model), NEW i \in DOMAIN OwnershipTable(model)
  PROVE  LET row == OwnershipTable(model)[i] IN
         /\ row.primitive \in Primitives \ {Blank}
         /\ row.refines \in Seq(Names) /\ row.refines # <<>> /\ IsInjective(row.refines)
         /\ row.aliases = {} /\ row.actions = {}
         /\ Range(row.refines) \subseteq Actions(model)
         /\ \/ /\ i \in DOMAIN model.directives
               /\ row.primitive = model.directives[i].name
               /\ row.refines = model.directives[i].actions
               /\ Range(row.refines) \subseteq Claimed(model)
            \/ \E j \in DOMAIN Unclaimed(model) :
                 /\ i = Len(model.directives) + j
                 /\ row.primitive = Unclaimed(model)[j]
                 /\ row.refines = <<Unclaimed(model)[j]>>
                 /\ Unclaimed(model)[j] \in Actions(model) \ Claimed(model)
<1> DEFINE row == OwnershipTable(model)[i]
<1>1. CASE i \in DOMAIN model.directives
           /\ row = Record(model.directives[i].name, model.directives[i].actions)
  <2> DEFINE d == model.directives[i]
  <2>1. d \in Directive /\ d \in Range(model.directives)
    BY <1>1, ModelTyped DEF Range
  <2>2. d.name \in Primitives \ {Blank} /\ d.actions \in Seq(Names)
    BY <2>1 DEF Directive
  <2>3. /\ d.actions # <<>> /\ IsInjective(d.actions)
        /\ Range(d.actions) \subseteq Actions(model)
    BY <2>1 DEF Accepted, DirectivesClaimOnce
  <2>4. Range(d.actions) \subseteq Claimed(model)
    BY <2>1 DEF Claimed
  <2> QED
    BY <1>1, <2>2, <2>3, <2>4, RecordFields
<1>2. ASSUME NEW j \in DOMAIN Unclaimed(model), i = Len(model.directives) + j,
             row = Record(Unclaimed(model)[j], <<Unclaimed(model)[j]>>)
      PROVE  /\ row.primitive = Unclaimed(model)[j] /\ row.primitive \in Primitives \ {Blank}
             /\ row.refines = <<Unclaimed(model)[j]>>
             /\ row.refines \in Seq(Names) /\ row.refines # <<>> /\ IsInjective(row.refines)
             /\ row.aliases = {} /\ row.actions = {}
             /\ Range(row.refines) \subseteq Actions(model)
             /\ Unclaimed(model)[j] \in Actions(model) \ Claimed(model)
  <2> DEFINE a == Unclaimed(model)[j]
  <2>1. a \in Actions(model) \ Claimed(model) /\ a \in Names
    <3>1. /\ Unclaimed(model) \in Seq(Actions(model) \ Claimed(model))
          /\ Actions(model) \subseteq Names
      BY UnclaimedOnce
    <3> QED
      BY <3>1
  <2>2. a \in Primitives \ {Blank}
    BY <2>1, NamesAssumption
  <2>3. <<a>> \in Seq(Names) /\ <<a>> # <<>>
    BY <2>1
  <2>4. DOMAIN <<a>> = {1} /\ <<a>>[1] = a
    OBVIOUS
  <2>5. IsInjective(<<a>>) /\ Range(<<a>>) = {a}
    BY <2>4 DEF IsInjective, Range
  <2> HIDE DEF a
  <2>6. row.primitive = a /\ row.refines = <<a>> /\ row.aliases = {} /\ row.actions = {}
    BY <1>2, RecordFields DEF a
  <2> QED
    BY <2>1, <2>2, <2>3, <2>5, <2>6 DEF a
<1>3. CASE \E j \in DOMAIN Unclaimed(model) :
             /\ i = Len(model.directives) + j
             /\ row = Record(Unclaimed(model)[j], <<Unclaimed(model)[j]>>)
  <2>1. PICK j \in DOMAIN Unclaimed(model) :
             /\ i = Len(model.directives) + j
             /\ row = Record(Unclaimed(model)[j], <<Unclaimed(model)[j]>>)
    BY <1>3
  <2>2. /\ row.primitive = Unclaimed(model)[j] /\ row.primitive \in Primitives \ {Blank}
        /\ row.refines = <<Unclaimed(model)[j]>>
        /\ row.refines \in Seq(Names) /\ row.refines # <<>> /\ IsInjective(row.refines)
        /\ row.aliases = {} /\ row.actions = {}
        /\ Range(row.refines) \subseteq Actions(model)
        /\ Unclaimed(model)[j] \in Actions(model) \ Claimed(model)
    BY <1>2, <2>1
  <2> HIDE DEF row
  <2>3. \E k \in DOMAIN Unclaimed(model) :
          /\ i = Len(model.directives) + k
          /\ row.primitive = Unclaimed(model)[k]
          /\ row.refines = <<Unclaimed(model)[k]>>
          /\ Unclaimed(model)[k] \in Actions(model) \ Claimed(model)
    BY <2>1, <2>2, Zenon
  <2> QED
    BY <2>2, <2>3, Zenon DEF row
<1> QED
  BY <1>1, <1>3, RowKinds, Zenon

\* No two rows have a method name or an action in common.
LEMMA RowsApart ==
  ASSUME NEW model \in Projects, Accepted(model),
         NEW i \in DOMAIN OwnershipTable(model), NEW j \in DOMAIN OwnershipTable(model), i # j
  PROVE  /\ OwnershipTable(model)[i].primitive # OwnershipTable(model)[j].primitive
         /\ Range(OwnershipTable(model)[i].refines) \cap Range(OwnershipTable(model)[j].refines) = {}
<1> DEFINE table == OwnershipTable(model)
<1>1. table[i].primitive # table[j].primitive
  <2>1. PICK t \in model.targets : TRUE
    BY ModelTyped
  <2>2. IsInjective([k \in DOMAIN table |-> Identifier[t][table[k].primitive]])
    BY DEF Accepted, MethodsDistinct
  <2> HIDE DEF table
  <2>3. Identifier[t][table[i].primitive] # Identifier[t][table[j].primitive]
    BY <2>2 DEF IsInjective, table
  <2> QED
    BY <2>3
<1>2. \A k \in DOMAIN Unclaimed(model) : Range(<<Unclaimed(model)[k]>>) = {Unclaimed(model)[k]}
  <2> SUFFICES ASSUME NEW a PROVE Range(<<a>>) = {a}
    OBVIOUS
  <2>1. DOMAIN <<a>> = {1} /\ <<a>>[1] = a
    OBVIOUS
  <2> QED
    BY <2>1 DEF Range
<1>3. CASE i \in DOMAIN model.directives /\ j \in DOMAIN model.directives
           /\ table[i].refines = model.directives[i].actions
           /\ table[j].refines = model.directives[j].actions
  BY <1>1, <1>3 DEF Accepted, DirectivesClaimOnce
<1>4. ASSUME NEW a \in DOMAIN table, NEW b \in DOMAIN table,
             Range(table[a].refines) \subseteq Claimed(model),
             NEW k \in DOMAIN Unclaimed(model),
             table[b].refines = <<Unclaimed(model)[k]>>,
             Unclaimed(model)[k] \in Actions(model) \ Claimed(model)
      PROVE  Range(table[a].refines) \cap Range(table[b].refines) = {}
  BY <1>2, <1>4
<1>5. ASSUME NEW k \in DOMAIN Unclaimed(model), NEW l \in DOMAIN Unclaimed(model),
             i = Len(model.directives) + k, j = Len(model.directives) + l,
             table[i].refines = <<Unclaimed(model)[k]>>,
             table[j].refines = <<Unclaimed(model)[l]>>
      PROVE  Range(table[i].refines) \cap Range(table[j].refines) = {}
  <2>1. Unclaimed(model)[k] # Unclaimed(model)[l]
    BY <1>5, UnclaimedOnce DEF IsInjective
  <2> QED
    BY <1>2, <1>5, <2>1
<1>6. CASE i \in DOMAIN model.directives /\ table[i].refines = model.directives[i].actions
           /\ Range(table[i].refines) \subseteq Claimed(model)
  BY <1>1, <1>3, <1>4, <1>6, RowFields
<1>7. CASE j \in DOMAIN model.directives /\ table[j].refines = model.directives[j].actions
           /\ Range(table[j].refines) \subseteq Claimed(model)
  BY <1>1, <1>3, <1>4, <1>7, RowFields
<1> QED
  BY <1>1, <1>5, <1>6, <1>7, RowFields

\* The table satisfies what the scheduler wants of one, and covers the actions.
LEMMA TableGenerated ==
  ASSUME NEW model \in Projects, Accepted(model)
  PROVE  /\ Generated(OwnershipTable(model))
         /\ UNION {Range(OwnershipTable(model)[i].refines) : i \in DOMAIN OwnershipTable(model)}
              = Actions(model)
<1> DEFINE table == OwnershipTable(model)
<1>1. Collectable(table)
  <2>1. \A i \in DOMAIN table : table[i].primitive # Blank /\ table[i].aliases = {}
    BY RowFields
  <2>2. \A i, j \in DOMAIN table : i # j => table[i].primitive # table[j].primitive
    BY RowsApart
  <2> QED
    BY <2>1, <2>2
    DEF Collectable, EmptyPrimitiveId, AliasesOnCompoundSequence, DuplicatePrimitiveId
<1>2. /\ \A i \in DOMAIN table :
           /\ table[i].refines # <<>> /\ table[i].aliases = {} /\ table[i].actions = {}
           /\ IsInjective(table[i].refines)
           /\ Range(table[i].refines) \subseteq Actions(model)
      /\ \A i, j \in DOMAIN table :
           i # j => Range(table[i].refines) \cap Range(table[j].refines) = {}
  BY RowFields, RowsApart
<1>3. ASSUME NEW a \in Actions(model)
      PROVE  \E i \in DOMAIN table : a \in Range(table[i].refines)
  <2>1. CASE a \in Claimed(model)
    <3>1. PICK d \in Range(model.directives) : a \in Range(d.actions)
      BY <2>1 DEF Claimed
    <3>2. PICK i \in DOMAIN model.directives : d = model.directives[i]
      BY DEF Range
    <3>3. i \in 1 .. Len(model.directives)
      BY ModelTyped
    <3>4. i \in DOMAIN table /\ table[i] = Record(d.name, d.actions)
      BY <3>2, <3>3, Rows
    <3> QED
      BY <3>1, <3>4, RecordFields
  <2>2. CASE a \notin Claimed(model)
    <3>1. PICK j \in DOMAIN Unclaimed(model) : Unclaimed(model)[j] = a
      BY <2>2, UnclaimedOnce DEF Range
    <3>2. j \in 1 .. Len(Unclaimed(model))
      BY UnclaimedOnce
    <3> DEFINE i == Len(model.directives) + j
    <3>3. i \in DOMAIN table /\ table[i] = Record(a, <<a>>)
      BY <3>1, <3>2, Rows
    <3>4. 1 \in DOMAIN <<a>> /\ <<a>>[1] = a
      OBVIOUS
    <3> QED
      BY <3>3, <3>4, RecordFields DEF Range
  <2> QED
    BY <2>1, <2>2
<1> HIDE DEF table
<1>4. UNION {Range(table[i].refines) : i \in DOMAIN table} = Actions(model)
  BY <1>2, <1>3
<1>5. Generated(table)
  BY <1>1, <1>2 DEF Generated
<1> QED
  BY <1>4, <1>5 DEF table


-----------------------------------------------------------------------------
\* The parts of an annotated run, by their types.
LEMMA RunTyped ==
  ASSUME NEW model \in Projects, NEW run \in AnnotatedRuns(model)
  PROVE  /\ run.doc \in Seq(DocLine)
         /\ run.steps \in Seq(Step) /\ run.steps # <<>>
         /\ Tail(run.steps) \in Seq(Step)
         /\ Range(Tail(run.steps)) = {run.steps[i] : i \in 2 .. Len(run.steps)}
<1>1. run \in ProjectRun
  <2>1. run \in Range(model.runs) /\ model.runs \in Seq(ProjectRun)
    BY ModelTyped DEF AnnotatedRuns
  <2> QED
    BY <2>1 DEF Range
<1>2. run.doc \in Seq(DocLine) /\ run.steps \in Seq(Step) \ {<<>>}
  BY <1>1 DEF ProjectRun
<1> DEFINE steps == run.steps
           rest == Tail(steps)
<1>3. steps \in Seq(Step) /\ steps # <<>>
  BY <1>2
<1> HIDE DEF steps
<1>4. /\ rest \in Seq(Step) /\ Len(steps) \in Nat /\ Len(steps) >= 1
      /\ DOMAIN rest = 1 .. Len(steps) - 1
      /\ \A i \in 1 .. Len(steps) - 1 : rest[i] = steps[i + 1]
  BY <1>3
<1> HIDE DEF rest
<1>5. Range(rest) = {steps[i] : i \in 2 .. Len(steps)}
  <2>1. ASSUME NEW i \in 1 .. Len(steps) - 1
        PROVE  rest[i] \in {steps[k] : k \in 2 .. Len(steps)}
    <3>1. i + 1 \in 2 .. Len(steps)
      BY <1>4
    <3> QED
      BY <1>4, <3>1
  <2>2. ASSUME NEW i \in 2 .. Len(steps)
        PROVE  steps[i] \in Range(rest)
    <3>1. i - 1 \in 1 .. Len(steps) - 1 /\ (i - 1) + 1 = i
      BY <1>4
    <3> QED
      BY <1>4, <3>1 DEF Range
  <2> QED
    BY <1>4, <2>1, <2>2 DEF Range
<1> QED
  BY <1>2, <1>3, <1>4, <1>5 DEF rest, steps

\* The actions of a scenario are the names of its action steps.
LEMMA TapeOf ==
  ASSUME NEW model \in Projects, NEW run \in AnnotatedRuns(model)
  PROVE  /\ Range(ActionTape(run)) = {step.name : step \in ActionSteps(run)}
         /\ ActionTape(run) \in Seq(Actions(model))
<1> DEFINE rest == Tail(run.steps)
           actions == Those(rest, ActionSteps(run))
<1>1. actions \in Seq(Step) /\ Range(actions) = Range(rest) \cap ActionSteps(run)
  BY RunTyped, ThoseOf
<1>2. Range(actions) = ActionSteps(run)
  BY <1>1 DEF ActionSteps
<1>3. ActionTape(run) = [i \in DOMAIN actions |-> actions[i].name]
  BY Zenon DEF ActionTape
<1> HIDE DEF actions
<1>4. Range(ActionTape(run)) = {step.name : step \in Range(actions)}
  BY <1>3 DEF Range
<1>5. Range(ActionTape(run)) \subseteq Actions(model)
  BY DEF Actions
<1>6. \A i \in DOMAIN actions : actions[i].name \in Actions(model)
  BY <1>3, <1>5 DEF Range
<1>7. ActionTape(run) \in Seq(Actions(model))
  <2>1. DOMAIN actions = 1 .. Len(actions) /\ Len(actions) \in Nat
    BY <1>1
  <2> QED
    BY <1>3, <1>6, <2>1
<1> QED
  BY <1>2, <1>4, <1>7

LEMMA RunsOf ==
  ASSUME NEW model \in Projects
  PROVE  /\ ConformanceRuns(model) \in Seq(ProjectRun)
         /\ Range(ConformanceRuns(model)) = AnnotatedRuns(model)
<1>1. model.runs \in Seq(ProjectRun)
  BY ModelTyped
<1>2. /\ ConformanceRuns(model) \in Seq(ProjectRun)
      /\ Range(ConformanceRuns(model)) = Range(model.runs) \cap AnnotatedRuns(model)
  BY <1>1, ThoseOf DEF ConformanceRuns
<1> QED
  BY <1>2 DEF AnnotatedRuns

\* A bare directive lists no capabilities.
LEMMA BareListsNothing ==
  ASSUME NEW model \in Projects, NEW run \in AnnotatedRuns(model), WellAnnotated(run),
         DirectiveLines(run)[1].kind = "bare"
  PROVE  Range(DirectiveLines(run)[1].capabilities) = {}
<1> DEFINE lines == DirectiveLines(run)
<1>1. lines \in Seq(DocLine) /\ Len(lines) = 1
  BY RunTyped, ThoseOf DEF DirectiveLines, WellAnnotated
<1> HIDE DEF lines
<1>2. lines[1] \in DocLine
  BY <1>1
<1>3. lines[1].kind = "bare"
  BY DEF lines
<1>4. lines[1].capabilities = <<>>
  BY <1>2, <1>3 DEF DocLine
<1> QED
  BY <1>4 DEF Range, lines

\* What the first reading makes of a directive, the second reads the same.
LEMMA CapabilitiesAgree ==
  ASSUME NEW model \in Projects, NEW run \in AnnotatedRuns(model), Readable(run)
  PROVE  LET directive == DirectiveLines(run)[1] IN
         RequiredCapabilities(run)
           = Range(directive.capabilities)
               \cup IF directive.kind = "bare" THEN Range(ActionTape(run)) ELSE {}
<1> DEFINE directive == DirectiveLines(run)[1]
<1>1. \A step \in Range(Tail(run.steps)) : step.kind # "other"
  <2>1. \A i \in 2 .. Len(run.steps) : run.steps[i].kind # "other"
    BY DEF Readable
  <2>2. Range(Tail(run.steps)) = {run.steps[i] : i \in 2 .. Len(run.steps)}
    BY RunTyped
  <2> QED
    BY <2>1, <2>2
<1>2. Range(Tail(run.steps)) \subseteq Step
  BY RunTyped DEF Range
<1>3. \A step \in Range(Tail(run.steps)) :
        step.kind \in {"name", "call"} <=> step.kind \notin {"observation", "block"}
  BY <1>1, <1>2 DEF Step
<1>4. ActionSteps(run) = {step \in Range(Tail(run.steps)) :
                             step.kind \notin {"observation", "block"}}
  BY <1>3 DEF ActionSteps
<1>5. Range(ActionTape(run)) = {step.name : step \in ActionSteps(run)}
  BY TapeOf
<1>6. RequiredCapabilities(run)
        = IF directive.kind = "bare" THEN Range(ActionTape(run))
                                     ELSE Range(directive.capabilities)
  BY <1>4, <1>5, Zenon DEF RequiredCapabilities
<1>7. directive.kind = "bare" => Range(directive.capabilities) = {}
  BY BareListsNothing DEF Readable
<1> QED
  BY <1>6, <1>7

\* The second reading accepts everything the first has made a vocabulary of.
LEMMA AcceptedAgree ==
  ASSUME NEW model \in Projects, Accepted(model)
  PROVE  /\ \A run \in AnnotatedRuns(model) : InVocabulary(model, run)
         /\ UnusedCapabilities(model) = {}
<1>1. \A run \in AnnotatedRuns(model) : Readable(run)
  BY DEF Accepted
<1> DEFINE Said(run) ==
      LET directive == DirectiveLines(run)[1] IN
      Range(directive.capabilities)
        \cup IF directive.kind = "bare" THEN Range(ActionTape(run)) ELSE {}
<1>2. \A run \in AnnotatedRuns(model) : RequiredCapabilities(run) = Said(run)
  BY <1>1, CapabilitiesAgree
<1>3. ProjectCapabilities(model) = UNION {Said(run) : run \in AnnotatedRuns(model)}
  BY Zenon DEF ProjectCapabilities
<1> HIDE DEF Said
<1>4. ProjectCapabilities(model)
        = UNION {RequiredCapabilities(run) : run \in AnnotatedRuns(model)}
  BY <1>2, <1>3
<1>5. ASSUME NEW run \in AnnotatedRuns(model)
      PROVE  InVocabulary(model, run)
  <2>1. RequiredCapabilities(run) \subseteq ProjectCapabilities(model)
    BY <1>4
  <2>2. run.steps[1].kind = "name"
    BY <1>1 DEF Readable
  <2>3. run.steps[1].name \in Initializers(model)
    BY DEF Initializers
  <2>4. Range(ActionTape(run)) \subseteq Actions(model)
    BY DEF Actions
  <2> QED
    BY <2>1, <2>2, <2>3, <2>4 DEF InVocabulary
<1> QED
  BY <1>4, <1>5 DEF UnusedCapabilities

-----------------------------------------------------------------------------
\* A row of several actions is a directive's.
LEMMA LongRows ==
  ASSUME NEW model \in Projects, Accepted(model), NEW i \in DOMAIN OwnershipTable(model),
         Len(OwnershipTable(model)[i].refines) > 1,
         NEW a \in Range(OwnershipTable(model)[i].refines)
  PROVE  \E directive \in Range(model.directives) :
           Len(directive.actions) > 1 /\ a \in Range(directive.actions)
<1> DEFINE s == OwnershipTable(model)[i].refines
<1>1. ASSUME NEW b, s = <<b>>
      PROVE  FALSE
  <2>1. Len(<<b>>) = 1
    OBVIOUS
  <2>2. Len(s) > 1
    OBVIOUS
  <2> HIDE DEF s
  <2> QED
    BY <1>1, <2>1, <2>2
<1> HIDE DEF s
<1>2. i \in DOMAIN model.directives /\ s = model.directives[i].actions
  BY <1>1, RowFields DEF s
<1>3. model.directives[i] \in Range(model.directives)
  BY <1>2 DEF Range
<1> QED
  BY <1>2, <1>3 DEF s

\* An executed action is a command of its own or one of several of a directive.
LEMMA HasCommand ==
  ASSUME NEW model \in Projects, Accepted(model), NEW a \in Actions(model)
  PROVE  \/ \E i \in DOMAIN OwnershipTable(model) : OwnershipTable(model)[i].refines = <<a>>
         \/ \E directive \in Range(model.directives) :
              Len(directive.actions) > 1 /\ a \in Range(directive.actions)
<1> DEFINE table == OwnershipTable(model)
<1>1. PICK i \in DOMAIN table : a \in Range(table[i].refines)
  BY TableGenerated
<1>2. table[i].refines \in Seq(Names)
  BY RowFields
<1>3. CASE Len(table[i].refines) > 1
  BY <1>1, <1>3, LongRows
<1>4. CASE ~(Len(table[i].refines) > 1)
  <2> DEFINE s == table[i].refines
  <2>1. PICK k \in DOMAIN s : s[k] = a
    BY <1>1 DEF Range
  <2> HIDE DEF s
  <2>2. s \in Seq(Names) /\ ~(Len(s) > 1)
    BY <1>2, <1>4 DEF s
  <2>3. DOMAIN s = 1 .. Len(s) /\ Len(s) \in Nat
    BY <2>2
  <2>4. Len(s) = 1 /\ k = 1
    BY <2>1, <2>2, <2>3
  <2>5. s = <<a>>
    BY <2>1, <2>2, <2>4
  <2> QED
    BY <2>5 DEF s
<1> QED
  BY <1>3, <1>4

\* What is collected from the table are its rows.
LEMMA OwnersAreRows ==
  ASSUME NEW model \in Projects, Accepted(model), records = OwnershipTable(model)
  PROVE  /\ \A record \in CollectOwnershipRecords(records) : \E i \in DOMAIN records :
              /\ record.primitive = records[i].primitive /\ record.refines = records[i].refines
              /\ record.aliases = {}
         /\ \A i \in DOMAIN records : \E record \in CollectOwnershipRecords(records) :
              record.refines = records[i].refines
<1>1. ASSUME NEW i \in DOMAIN records
      PROVE  /\ Descriptor(records[i]).primitive = records[i].primitive
             /\ Descriptor(records[i]).refines = records[i].refines
             /\ Descriptor(records[i]).aliases = {}
  <2>1. records \in Seq(OwnershipRecord)
    BY Rows
  <2>2. records[i] \in OwnershipRecord
    BY <2>1
  <2>3. records[i].aliases = {}
    BY RowFields
  <2> QED
    BY <2>2, <2>3 DEF Descriptor, OwnershipRecord
<1> QED
  BY <1>1 DEF CollectOwnershipRecords

-----------------------------------------------------------------------------
Phases == {"inferring", "inferred", "rejected", "generated", "unreadable",
           "refining", "refined", "failed"}

\* The tapes are taken from the model, so that their actions are its actions.
InferenceData ==
  /\ project \in Projects /\ phase \in Phases
  /\ ScheduleData
  /\ tape \in Seq(Actions(project))
  /\ tapes \in Seq(Seq(Actions(project)))
  /\ phase = "generated" => tapes # <<>>

\* The table is the one inferred from the accepted model.
Sourced ==
  phase \notin {"inferring", "rejected"} =>
    Accepted(project) /\ records = OwnershipTable(project)

\* Nothing is scheduled before the artifact is there.
Waiting ==
  phase \notin {"refining", "refined", "failed"} =>
    verdict = "collecting" /\ runs = <<>> /\ index = 0 /\ tape = <<>>

\* A run has the identifier and all the actions of one row.
RunsAreRows ==
  \A i \in DOMAIN runs : \E j \in DOMAIN records :
    runs[i].primitive = records[j].primitive /\ runs[i].owned = records[j].refines

\* The action at the index is one of a command of several actions.
AtLongCommand ==
  \E directive \in Range(project.directives) :
    Len(directive.actions) > 1 /\ tape[index + 1] \in Range(directive.actions)

InferenceInv ==
  /\ InferenceData
  /\ Sourced
  /\ Waiting
  /\ Greedy
  /\ RunsAreRows
  /\ verdict \in Errors => AtLongCommand

LEMMA InferenceInitially == InferenceInit => InferenceInv
<1> SUFFICES ASSUME InferenceInit PROVE InferenceInv
  OBVIOUS
<1>1. InferenceData
  BY DEF InferenceInit, InferenceData, ScheduleData, Phases
<1>2. Sourced /\ Waiting /\ RunsAreRows
  BY DEF InferenceInit, Sourced, Waiting, RunsAreRows
<1>3. Greedy
  BY DEF InferenceInit, Greedy, Tiling
<1> QED
  BY <1>1, <1>2, <1>3 DEF InferenceInv, InferenceInit, Errors

-----------------------------------------------------------------------------
\* The scheduler's part: with an inferred table it gives up only at a command
\* of several actions.
LEMMA GivesUpAtLongCommand ==
  ASSUME InferenceInv, phase = "refining", RefusePartial \/ RefuseUnowned
  PROVE  AtLongCommand
<1>1. project \in Projects /\ Accepted(project) /\ records = OwnershipTable(project)
  BY DEF InferenceInv, InferenceData, Sourced
<1>2. Scheduling
  BY DEF RefusePartial, RefuseUnowned
<1>3. Generated(records)
  BY <1>1, TableGenerated
<1>4. ownership = CollectOwnershipRecords(records)
  BY <1>2, <1>3 DEF InferenceInv, Greedy, Scheduling
<1> DEFINE a == tape[index + 1]
<1>5. a \in Actions(project)
  <2>1. tape \in Seq(Actions(project)) /\ index \in Nat /\ index < Len(tape)
    BY <1>2 DEF InferenceInv, InferenceData, ScheduleData, Scheduling
  <2>2. index + 1 \in 1 .. Len(tape)
    BY <2>1
  <2> QED
    BY <2>1, <2>2
<1>6. CASE RefusePartial
  <2>1. PICK record \in Partials : TRUE
    BY <1>6 DEF RefusePartial
  <2>2. record \in ownership /\ Len(record.refines) > 1 /\ a = record.refines[1]
    BY <2>1 DEF Partials, FitsPartial
  <2>3. PICK i \in DOMAIN records : record.refines = records[i].refines
    BY <1>1, <1>4, <2>2, OwnersAreRows
  <2>4. records[i].refines \in Seq(Names)
    BY <1>1, RowFields
  <2>5. 1 \in DOMAIN records[i].refines
    BY <2>2, <2>3, <2>4
  <2>6. a \in Range(records[i].refines)
    BY <2>2, <2>3, <2>5 DEF Range
  <2> QED
    BY <1>1, <2>2, <2>3, <2>6, LongRows DEF AtLongCommand
<1>7. CASE RefuseUnowned
  <2>1. \A i \in DOMAIN records : records[i].refines # <<a>>
    <3> SUFFICES ASSUME NEW i \in DOMAIN records, records[i].refines = <<a>> PROVE FALSE
      OBVIOUS
    <3>1. PICK record \in ownership : record.refines = <<a>>
      BY <1>1, <1>4, OwnersAreRows
    <3>2. record \in Singletons
      BY <3>1 DEF Singletons, FitsSingleton
    <3> QED
      BY <1>7, <3>2 DEF RefuseUnowned
  <2> QED
    BY <1>1, <1>5, <2>1, HasCommand DEF AtLongCommand
<1> QED
  BY <1>6, <1>7

LEMMA RunsAreRowsStep ==
  ASSUME InferenceInv, phase = "refining", ScheduleNext
  PROVE  RunsAreRows'
<1>1. project \in Projects /\ Accepted(project) /\ records = OwnershipTable(project)
  BY DEF InferenceInv, InferenceData, Sourced
<1>2. Generated(records)
  BY <1>1, TableGenerated
<1>3. records' = records
  BY DEF ScheduleNext, Collect, RefuseTables, ScheduleCompound, ScheduleSingleton,
     RefuseAmbiguous, RefusePartial, RefuseUnowned, FinishSchedule, Cut, Refuse
<1>4. ASSUME runs' = runs
      PROVE  RunsAreRows'
  BY <1>3, <1>4 DEF InferenceInv, RunsAreRows
<1>5. ASSUME Scheduling
      PROVE  /\ ownership = CollectOwnershipRecords(records)
             /\ \A record \in ownership : \E i \in DOMAIN records :
                  /\ record.primitive = records[i].primitive
                  /\ record.refines = records[i].refines
                  /\ record.aliases = {} /\ record.refines # <<>>
  <2>1. ownership = CollectOwnershipRecords(records)
    BY <1>2, <1>5 DEF InferenceInv, Greedy, Scheduling
  <2>2. \A i \in DOMAIN records : records[i].refines # <<>>
    BY <1>1, RowFields
  <2> QED
    BY <1>1, <2>1, <2>2, OwnersAreRows
<1>6. ASSUME Scheduling, NEW record \in ownership, Cut(record, record.refines)
      PROVE  RunsAreRows'
  <2>1. ScheduleData
    BY DEF InferenceInv, InferenceData
  <2>2. PICK j \in DOMAIN records : /\ record.primitive = records[j].primitive
                                    /\ record.refines = records[j].refines
    BY <1>5, <1>6
  <2>3. ASSUME NEW i \in DOMAIN runs'
        PROVE  \E k \in DOMAIN records : /\ runs'[i].primitive = records[k].primitive
                                         /\ runs'[i].owned = records[k].refines
    <3>1. CASE i \in DOMAIN runs /\ runs'[i] = runs[i]
      BY <3>1 DEF InferenceInv, RunsAreRows
    <3>2. CASE runs'[i] = NewRun(record, record.refines)
      <4>1. runs'[i].primitive = record.primitive /\ runs'[i].owned = record.refines
        BY <3>2 DEF NewRun
      <4> QED
        BY <2>2, <4>1
    <3> QED
      BY <1>6, <2>1, <3>1, <3>2, CutAppends
  <2> QED
    BY <1>3, <2>3 DEF RunsAreRows
<1>7. CASE ScheduleCompound
  <2>1. Scheduling
    BY <1>7 DEF ScheduleCompound
  <2>2. PICK record \in Compounds : Cut(record, record.refines)
    BY <1>7 DEF ScheduleCompound
  <2>3. record \in ownership
    BY DEF Compounds
  <2> QED
    BY <1>6, <2>1, <2>2, <2>3
<1>8. CASE ScheduleSingleton
  <2>1. Scheduling
    BY <1>8 DEF ScheduleSingleton
  <2>2. PICK record \in Singletons : Cut(record, <<tape[index + 1]>>)
    BY <1>8 DEF ScheduleSingleton
  <2>3. record \in ownership
    BY DEF Singletons
  <2>4. record.refines = <<tape[index + 1]>>
    <3>1. record.aliases = {} /\ record.refines # <<>>
      BY <1>5, <2>1, <2>3
    <3> QED
      BY <3>1 DEF Singletons, FitsSingleton
  <2> QED
    BY <1>6, <2>1, <2>2, <2>3, <2>4
<1> QED
  BY <1>4, <1>7, <1>8
  DEF ScheduleNext, Collect, RefuseTables, RefuseAmbiguous, RefusePartial, RefuseUnowned,
      FinishSchedule, Refuse

-----------------------------------------------------------------------------
\* Whoever accepted the model, its runs only name what Quint may call an action.
LEMMA ActionsAreNames ==
  ASSUME NEW model \in Projects
  PROVE  Actions(model) \subseteq Names
<1>1. ASSUME NEW run \in AnnotatedRuns(model)
      PROVE  Range(ActionTape(run)) \subseteq Names
  <2>1. Range(Tail(run.steps)) \subseteq Step
    BY RunTyped DEF Range
  <2>2. ActionSteps(run) \subseteq Step
    BY <2>1 DEF ActionSteps
  <2>3. \A step \in Step : step.name \in Names
    BY DEF Step
  <2> QED
    BY <2>2, <2>3, TapeOf
<1> QED
  BY <1>1 DEF Actions

LEMMA InferenceDataStep ==
  ASSUME InferenceInv, [InferenceNext]_<<inferenceVars, scheduleVars>>
  PROVE  InferenceData'
<1> USE DEF InferenceInv
<1>1. project \in Projects /\ ScheduleData /\ tapes \in Seq(Seq(Actions(project)))
  BY DEF InferenceData
<1>2. ASSUME UNCHANGED <<project, tapes, scheduleVars>>, phase' \in Phases \ {"generated"}
      PROVE  InferenceData'
  BY <1>2 DEF InferenceData, ScheduleData, scheduleVars
<1>3. CASE InferProject
  <2>1. Accepted(project) /\ records' = OwnershipTable(project)
    BY <1>3 DEF InferProject
  <2>2. records' \in Seq(OwnershipRecord)
    BY <1>1, <2>1, Rows
  <2> QED
    BY <1>3, <2>2 DEF InferProject, InferenceData, ScheduleData, Phases
<1>4. CASE GenerateArtifact
  <2> DEFINE chosen == ConformanceRuns(project)
  <2>1. Accepted(project)
    BY <1>4 DEF GenerateArtifact, Sourced
  <2>2. chosen \in Seq(ProjectRun) /\ Range(chosen) = AnnotatedRuns(project)
    BY <1>1, RunsOf
  <2>3. tapes' = [i \in DOMAIN chosen |-> ActionTape(chosen[i])]
    BY <1>4, Zenon DEF GenerateArtifact
  <2> HIDE DEF chosen
  <2>4. \A i \in DOMAIN chosen : ActionTape(chosen[i]) \in Seq(Actions(project))
    <3>1. \A i \in DOMAIN chosen : chosen[i] \in AnnotatedRuns(project)
      BY <2>2 DEF Range
    <3> QED
      BY <1>1, <3>1, TapeOf
  <2>5. DOMAIN chosen = 1 .. Len(chosen) /\ Len(chosen) \in Nat
    BY <2>2
  <2>6. tapes' \in Seq(Seq(Actions(project)))
    BY <2>3, <2>4, <2>5
  <2>7. tapes' # <<>>
    <3>1. AnnotatedRuns(project) # {}
      BY <2>1 DEF Accepted, Selected
    <3>2. PICK run \in Range(chosen) : TRUE
      BY <2>2, <3>1
    <3>3. PICK i \in DOMAIN chosen : chosen[i] = run
      BY DEF Range
    <3>4. i \in DOMAIN tapes'
      BY <2>3
    <3> QED
      BY <3>4
  <2>8. UNCHANGED <<project, scheduleVars>> /\ phase' = "generated"
    BY <1>4 DEF GenerateArtifact
  <2> QED
    BY <2>6, <2>7, <2>8 DEF InferenceData, ScheduleData, scheduleVars, Phases
<1>5. ASSUME BeginScenario, tapes # <<>>, UNCHANGED <<project, records, ownership>>,
             phase' = "refining", verdict' \in {"collecting", "scheduling"}
      PROVE  InferenceData'
  <2> DEFINE S == Actions(project)
  <2>1. tapes \in Seq(Seq(S))
    BY <1>1
  <2>2. Head(tapes) \in Seq(S) /\ Tail(tapes) \in Seq(Seq(S))
    BY <1>5, <2>1
  <2>3. tape' \in Seq(S) /\ tapes' \in Seq(Seq(S)) /\ index' = 0 /\ runs' = <<>>
    BY <1>5, <2>2 DEF BeginScenario
  <2>4. S \subseteq Names
    BY <1>5, ActionsAreNames DEF InferenceData
  <2>5. tape' \in Seq(Names) /\ index' \in 0 .. Len(tape')
    BY <2>3, <2>4
  <2>6. ScheduleData'
    BY <1>1, <1>5, <2>3, <2>5 DEF ScheduleData, Errors
  <2> QED
    BY <1>1, <1>5, <2>3, <2>6 DEF InferenceData, Phases
<1>6. CASE RefineAll
  <2>1. tapes # <<>>
    BY <1>6 DEF RefineAll, InferenceData
  <2>2. verdict' = "collecting"
    BY <1>6 DEF RefineAll, Waiting
  <2> QED
    BY <1>5, <1>6, <2>1, <2>2 DEF RefineAll
<1>7. CASE NextScenario
  BY <1>5, <1>7 DEF NextScenario
<1>8. CASE ScheduleScenario
  <2>1. ScheduleData'
    BY <1>1, <1>8, DataStep DEF ScheduleScenario
  <2>2. tape' = tape
    BY <1>8 DEF ScheduleScenario, ScheduleNext, Collect, RefuseTables, ScheduleCompound,
       ScheduleSingleton, RefuseAmbiguous, RefusePartial, RefuseUnowned, FinishSchedule, Cut, Refuse
  <2> QED
    BY <1>8, <2>1, <2>2 DEF ScheduleScenario, inferenceVars, InferenceData
<1>9. CASE RejectProject \/ RefuseGeneration \/ AllRefined \/ ScenarioFails
  BY <1>2, <1>9 DEF RejectProject, RefuseGeneration, AllRefined, ScenarioFails, Phases
<1>10. CASE UNCHANGED <<inferenceVars, scheduleVars>>
  BY <1>10 DEF InferenceData, ScheduleData, inferenceVars, scheduleVars
<1> QED
  BY <1>3, <1>4, <1>6, <1>7, <1>8, <1>9, <1>10 DEF InferenceNext

\* Nothing replaces the model or, once it is inferred, its table.
LEMMA SourcedStep ==
  ASSUME InferenceInv, [InferenceNext]_<<inferenceVars, scheduleVars>>
  PROVE  Sourced'
<1>1. ASSUME UNCHANGED <<project, records>>,
             phase' \notin {"inferring", "rejected"} => phase \notin {"inferring", "rejected"}
      PROVE  Sourced'
  BY <1>1 DEF InferenceInv, Sourced
<1>2. CASE InferProject
  BY <1>2 DEF InferProject, Sourced
<1>3. CASE ScheduleScenario
  BY <1>1, <1>3 DEF ScheduleScenario, inferenceVars, ScheduleNext, Collect, RefuseTables,
     ScheduleCompound, ScheduleSingleton, RefuseAmbiguous, RefusePartial, RefuseUnowned,
     FinishSchedule, Cut, Refuse
<1>4. CASE ~InferProject /\ ~ScheduleScenario
  BY <1>1, <1>4 DEF InferenceNext, RejectProject, GenerateArtifact, RefuseGeneration, RefineAll,
     NextScenario, AllRefined, ScenarioFails, inferenceVars, scheduleVars
<1> QED
  BY <1>2, <1>3, <1>4

LEMMA WaitingStep ==
  ASSUME InferenceInv, [InferenceNext]_<<inferenceVars, scheduleVars>>
  PROVE  Waiting'
<1>1. CASE phase' \in {"refining", "refined", "failed"}
  BY <1>1 DEF Waiting
<1>2. CASE phase' \notin {"refining", "refined", "failed"}
  <2>1. /\ phase \notin {"refining", "refined", "failed"}
        /\ UNCHANGED <<verdict, runs, index, tape>>
    BY <1>2 DEF InferenceNext, InferProject, RejectProject, GenerateArtifact, RefuseGeneration,
       RefineAll, ScheduleScenario, NextScenario, AllRefined, ScenarioFails,
       inferenceVars, scheduleVars
  <2> QED
    BY <2>1 DEF InferenceInv, Waiting
<1> QED
  BY <1>1, <1>2

\* A scenario that begins is at a cut of every tiling.
LEMMA GreedyAnew ==
  ASSUME index' = 0, verdict' \in {"collecting", "scheduling"},
         verdict' = "scheduling" /\ Generated(records') =>
           ownership' = CollectOwnershipRecords(records')
  PROVE  Greedy'
<1>1. \A cuts : Tiling(cuts)' => 0 \in cuts
  BY DEF Tiling
<1> QED
  BY <1>1 DEF Greedy

LEMMA InferenceGreedyStep ==
  ASSUME InferenceInv, [InferenceNext]_<<inferenceVars, scheduleVars>>
  PROVE  Greedy'
<1>1. ScheduleData /\ Greedy
  BY DEF InferenceInv, InferenceData
<1>2. CASE InferProject
  BY <1>2, GreedyAnew DEF InferProject, InferenceInv, Waiting
<1>3. CASE RefineAll
  BY <1>3, GreedyAnew DEF RefineAll, BeginScenario, InferenceInv, Waiting
<1>4. CASE NextScenario
  <2>1. Generated(records) => ownership = CollectOwnershipRecords(records)
    BY <1>1, <1>4 DEF NextScenario, Greedy
  <2>2. records' = records /\ ownership' = ownership /\ index' = 0 /\ verdict' = "scheduling"
    BY <1>4 DEF NextScenario, BeginScenario
  <2> QED
    BY <2>1, <2>2, GreedyAnew
<1>5. CASE ScheduleScenario \/ UNCHANGED scheduleVars
  BY <1>1, <1>5, GreedyStep DEF ScheduleScenario
<1> QED
  BY <1>2, <1>3, <1>4, <1>5
  DEF InferenceNext, RejectProject, GenerateArtifact, RefuseGeneration, AllRefined, ScenarioFails

LEMMA InferenceRunsStep ==
  ASSUME InferenceInv, [InferenceNext]_<<inferenceVars, scheduleVars>>
  PROVE  RunsAreRows'
<1>1. CASE ScheduleScenario
  BY <1>1, RunsAreRowsStep DEF ScheduleScenario
<1>2. CASE InferProject \/ RefineAll \/ NextScenario
  <2>1. runs' = <<>>
    BY <1>2 DEF InferProject, RefineAll, NextScenario, BeginScenario, InferenceInv, Waiting
  <2> QED
    BY <2>1 DEF RunsAreRows
<1>3. CASE UNCHANGED scheduleVars
  BY <1>3 DEF InferenceInv, RunsAreRows, scheduleVars
<1> QED
  BY <1>1, <1>2, <1>3
  DEF InferenceNext, RejectProject, GenerateArtifact, RefuseGeneration, AllRefined, ScenarioFails

LEMMA LongCommandStep ==
  ASSUME InferenceInv, [InferenceNext]_<<inferenceVars, scheduleVars>>, verdict' \in Errors
  PROVE  AtLongCommand'
<1>1. ASSUME UNCHANGED <<project, tape, index>>, AtLongCommand
      PROVE  AtLongCommand'
  BY <1>1 DEF AtLongCommand
<1>2. CASE ScheduleScenario
  <2>1. project \in Projects /\ Accepted(project) /\ records = OwnershipTable(project)
    BY <1>2 DEF ScheduleScenario, InferenceInv, InferenceData, Sourced
  <2>2. Generated(records)
    BY <2>1, TableGenerated
  <2>3. Greedy'
    BY InferenceGreedyStep
  <2>4. records' = records /\ project' = project /\ tape' = tape
    BY <1>2 DEF ScheduleScenario, inferenceVars, ScheduleNext, Collect, RefuseTables,
       ScheduleCompound, ScheduleSingleton, RefuseAmbiguous, RefusePartial, RefuseUnowned,
       FinishSchedule, Cut, Refuse
  <2>5. verdict' \in {"partial", "unowned"}
    <3>1. Generated(records')
      BY <2>2, <2>4
    <3> QED
      BY <2>3, <3>1 DEF Greedy, Errors
  <2>6. RefusePartial \/ RefuseUnowned
    BY <1>2, <2>5 DEF ScheduleScenario, ScheduleNext, Collect, RefuseTables, ScheduleCompound,
       ScheduleSingleton, Scheduling, RefuseAmbiguous, FinishSchedule, Cut, Refuse
  <2>7. index' = index
    BY <2>6 DEF RefusePartial, RefuseUnowned, Refuse
  <2>8. AtLongCommand
    BY <1>2, <2>6, GivesUpAtLongCommand DEF ScheduleScenario
  <2> QED
    BY <1>1, <2>4, <2>7, <2>8
<1>3. CASE ~ScheduleScenario
  <2>1. UNCHANGED <<project, tape, index, verdict>>
    BY <1>3 DEF InferenceNext, InferProject, RejectProject, GenerateArtifact, RefuseGeneration,
       RefineAll, NextScenario, AllRefined, ScenarioFails, inferenceVars, scheduleVars, Errors,
       InferenceInv, Waiting
  <2> QED
    BY <1>1, <2>1 DEF InferenceInv
<1> QED
  BY <1>2, <1>3

LEMMA InferenceInvariant == InferenceSpec => []InferenceInv
<1>1. InferenceInv /\ [InferenceNext]_<<inferenceVars, scheduleVars>> => InferenceInv'
  <2> SUFFICES ASSUME InferenceInv, [InferenceNext]_<<inferenceVars, scheduleVars>>
               PROVE  InferenceInv'
    OBVIOUS
  <2>1. InferenceData' /\ Sourced' /\ Waiting' /\ Greedy' /\ RunsAreRows'
    BY InferenceDataStep, SourcedStep, WaitingStep, InferenceGreedyStep, InferenceRunsStep
  <2>2. verdict' \in Errors => AtLongCommand'
    BY LongCommandStep
  <2> QED
    BY <2>1, <2>2 DEF InferenceInv, Errors
<1> QED
  BY <1>1, InferenceInitially, PTL DEF InferenceSpec

-----------------------------------------------------------------------------
\* Whatever the model and its comments, an inferred table has every executed
\* action once, with a command for it, and nothing else.
THEOREM TablesOwnOnce == InferenceSpec => []OwnsEveryActionOnce
<1>1. InferenceInv => OwnsEveryActionOnce
  <2> SUFFICES ASSUME InferenceInv, phase \notin {"inferring", "rejected"}
               PROVE  /\ Generated(records)
                      /\ UNION {Range(records[i].refines) : i \in DOMAIN records} = Actions(project)
    BY DEF OwnsEveryActionOnce
  <2>1. project \in Projects /\ Accepted(project) /\ records = OwnershipTable(project)
    BY DEF InferenceInv, InferenceData, Sourced
  <2> QED
    BY <2>1, TableGenerated
<1> QED
  BY <1>1, InferenceInvariant, PTL

\* The generator never refuses a run, a capability or an initializer of a
\* model that inferProject has accepted.
THEOREM TheReadingsAgree == InferenceSpec => []ReadingsAgree
<1>1. InferenceInv => ReadingsAgree
  BY AcceptedAgree DEF InferenceInv, InferenceData, Sourced, ReadingsAgree
<1> QED
  BY <1>1, InferenceInvariant, PTL

\* The branch for a row's method takes the row's actions: no action without a
\* directive has the method of one.
LEMMA ArmTakesRow ==
  ASSUME NEW model \in Projects, Accepted(model), NEW j \in DOMAIN OwnershipTable(model)
  PROVE  ArmAccepts(model, OwnershipTable(model)[j].primitive, OwnershipTable(model)[j].refines)
<1> DEFINE table == OwnershipTable(model)
           p == table[j].primitive
           s == table[j].refines
<1>1. CASE j \in DOMAIN model.directives
           /\ p = model.directives[j].name /\ s = model.directives[j].actions
  <2>1. model.directives[j] \in Range(model.directives)
    BY <1>1 DEF Range
  <2> QED
    BY <1>1, <2>1 DEF ArmAccepts
<1>2. ASSUME NEW k \in DOMAIN Unclaimed(model), j = Len(model.directives) + k,
             p = Unclaimed(model)[k], s = <<Unclaimed(model)[k]>>
      PROVE  ArmAccepts(model, p, s)
  <2>1. ASSUME NEW directive \in Range(model.directives), directive.name = p
        PROVE  FALSE
    <3>1. PICK i \in DOMAIN model.directives : directive = model.directives[i]
      BY DEF Range
    <3>2. /\ DOMAIN model.directives = 1 .. Len(model.directives) /\ Len(model.directives) \in Nat
          /\ DOMAIN Unclaimed(model) = 1 .. Len(Unclaimed(model))
          /\ Len(Unclaimed(model)) \in Nat
      BY ModelTyped, UnclaimedOnce
    <3>3. i \in DOMAIN table /\ table[i] = Record(directive.name, directive.actions)
      BY <3>1, <3>2, Rows
    <3>4. i # j
      BY <1>2, <3>2
    <3>5. table[i].primitive = p
      BY <2>1, <3>3, RecordFields
    <3> QED
      BY <3>3, <3>4, <3>5, RowsApart
  <2>2. s = <<p>>
    BY <1>2
  <2> HIDE DEF p, s
  <2> QED
    BY <2>1, <2>2 DEF ArmAccepts
<1> QED
  BY <1>1, <1>2, RowFields

\* The generated driver accepts every run that the scheduler cuts.
THEOREM ArmsFitRuns == InferenceSpec => []ArmsAcceptRuns
<1>1. InferenceInv => ArmsAcceptRuns
  <2> SUFFICES ASSUME InferenceInv, NEW i \in DOMAIN runs
               PROVE  ArmAccepts(project, runs[i].primitive, runs[i].owned)
    BY DEF ArmsAcceptRuns
  <2>1. PICK j \in DOMAIN records : /\ runs[i].primitive = records[j].primitive
                                    /\ runs[i].owned = records[j].refines
    BY DEF InferenceInv, RunsAreRows
  <2>2. project \in Projects /\ Accepted(project) /\ records = OwnershipTable(project)
    BY DEF InferenceInv, InferenceData, Sourced, Waiting
  <2> QED
    BY <2>1, <2>2, ArmTakesRow
<1> QED
  BY <1>1, InferenceInvariant, PTL

\* An accepted model that cannot be scheduled has a scenario no choice of its
\* commands performs, and the walk stands at a command of several actions.
THEOREM AcceptedSchedules == InferenceSpec => []AcceptedIsSchedulable
<1>1. InferenceInv => AcceptedIsSchedulable
  <2> SUFFICES ASSUME InferenceInv, verdict \in Errors
               PROVE  /\ verdict \in {"partial", "unowned"} /\ ~HasTiling
                      /\ AtLongCommand
    BY DEF AcceptedIsSchedulable, AtLongCommand, Errors
  <2>1. project \in Projects /\ Accepted(project) /\ records = OwnershipTable(project)
    BY DEF InferenceInv, InferenceData, Sourced, Waiting, Errors
  <2>2. Generated(records)
    BY <2>1, TableGenerated
  <2>3. verdict \in {"partial", "unowned"} /\ \A cuts : ~Tiling(cuts)
    BY <2>2 DEF InferenceInv, Greedy, Errors
  <2> QED
    BY <2>3, TilingUnfolds DEF InferenceInv
<1> QED
  BY <1>1, InferenceInvariant, PTL

=============================================================================
