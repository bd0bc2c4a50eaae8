--------------------------- MODULE ResolverProofs ---------------------------
(***************************************************************************)
(* Proofs about segment matching (Targeting) and resolving (Resolver), for *)
(* any expressions, segments, rules, contexts and stores.                  *)
(*                                                                         *)
(* Evaluation is a recursive function of a call: the segments being        *)
(* matched and an expression.  Calls are ordered by the segments that are  *)
(* not yet on the path and by the depth of the expression (CallInduction); *)
(* by this order two evaluations of one call are compared, such as with    *)
(* and without a record (Pair), or with two stores that agree on what was  *)
(* asked for (Agree).  A request is the fold of its rules over an          *)
(* accumulator, so what holds of a resolve is shown of one rule, of one    *)
(* flag, and then of all flags.  StickyInv and CarriedInv say what is left *)
(* of the first half when a resolve is resumed.                            *)
(***************************************************************************)
EXTENDS Resolver, TargetingLaws, FoldProofs

-----------------------------------------------------------------------------
(* Expressions.                                                            *)

Level(nested, n) ==
  IF n = 0 THEN Refs
  ELSE Refs \cup [op : {"not"}, args : [1 .. 1 -> nested[n - 1]]]
            \cup [op : {"and", "or"}, args : Seq(nested[n - 1])]

LEMMA NestedExists == \E f : f = [n \in 0 .. MaxDepth |-> Level(f, n)]
<1> USE TargetingAssumption
<1> DEFINE P(m) == \E f : f = [n \in 0 .. m |-> Level(f, n)]
           Wrong == {m \in 0 .. MaxDepth : ~P(m)}
<1>1. P(0)
  <2> DEFINE f == [n \in 0 .. 0 |-> Refs]
  <2>1. f = [n \in 0 .. 0 |-> Level(f, n)]
    BY DEF Level
  <2> QED BY <2>1
<1>2. ASSUME NEW m \in 1 .. MaxDepth, P(m - 1) PROVE P(m)
  <2>1. PICK f : f = [n \in 0 .. m - 1 |-> Level(f, n)]
    BY <1>2
  <2> DEFINE g == [n \in 0 .. m |-> IF n = m THEN Level(f, m) ELSE f[n]]
  <2>2. ASSUME NEW n \in 0 .. m PROVE g[n] = Level(g, n)
    <3>1. n # 0 => n - 1 \in 0 .. m - 1 /\ g[n - 1] = f[n - 1]
      OBVIOUS
    <3>2. Level(g, n) = Level(f, n)
      <4> HIDE DEF g
      <4> QED BY <3>1 DEF Level
    <3>3. CASE n = m
      BY <3>2, <3>3
    <3>4. CASE n # m
      <4>1. n \in 0 .. m - 1 /\ f[n] = Level(f, n)
        BY <2>1, <3>4
      <4>2. g[n] = f[n]
        BY <3>4
      <4> QED BY <4>1, <4>2, <3>2
    <3> QED BY <3>3, <3>4
  <2>3. g = [n \in 0 .. m |-> Level(g, n)]
    <3>1. g = [n \in 0 .. m |-> g[n]]
      OBVIOUS
    <3> HIDE DEF g
    <3> QED BY <3>1, <2>2
  <2> QED BY <2>3
<1>3. Wrong = {}
  <2> SUFFICES ASSUME Wrong # {} PROVE FALSE
    OBVIOUS
  <2>1. Wrong \in SUBSET Nat
    OBVIOUS
  <2>2. PICK n \in Wrong : \A m \in Wrong : n <= m
    <3> HIDE DEF Wrong
    <3> QED BY <2>1, LeastNumber
  <2>3. n # 0
    BY <1>1
  <2>4. n - 1 \in 0 .. MaxDepth /\ ~(n - 1 \in Wrong)
    <3> HIDE DEF Wrong
    <3>1. n - 1 \in Wrong => FALSE
      BY <2>1, <2>2
    <3>2. n \in 0 .. MaxDepth
      BY DEF Wrong
    <3> QED BY <3>1, <3>2, <2>3
  <2>5. P(n - 1)
    <3> HIDE DEF P
    <3> QED BY <2>4
  <2> HIDE DEF P
  <2>6. P(n)
    BY <2>5, <1>2, <2>3
  <2> QED BY <2>6
<1> QED BY <1>3

LEMMA NestedIs ==
  ASSUME NEW n \in 0 .. MaxDepth
  PROVE  Nested[n] = Level(Nested, n)
<1>1. Nested = [k \in 0 .. MaxDepth |-> Level(Nested, k)]
  BY NestedExists DEF Nested, Level
<1> QED BY <1>1

\* An expression is a criterion, or an operator over expressions a level below.
LEMMA NestedShape ==
  ASSUME NEW n \in 0 .. MaxDepth, NEW e \in Nested[n]
  PROVE  \/ e \in Refs /\ e.op \in {"attribute", "segment", "materialized"}
         \/ n > 0 /\ e.op = "not" /\ DOMAIN e.args = 1 .. 1 /\ \A i \in DOMAIN e.args : e.args[i] \in Nested[n - 1]
         \/ n > 0 /\ e.op \in {"and", "or"} /\ e.args \in Seq(Nested[n - 1])
<1>1. Nested[n] = Level(Nested, n)
  BY NestedIs
<1>2. CASE e \in Refs
  BY <1>2, TargetingAssumption
<1>3. CASE e \notin Refs /\ e \in [op : {"not"}, args : [1 .. 1 -> Nested[n - 1]]] /\ n # 0
  <2>1. e.args \in [1 .. 1 -> Nested[n - 1]] /\ e.op = "not"
    BY <1>3
  <2> QED BY <2>1, <1>3
<1>4. CASE e \notin Refs /\ e \in [op : {"and", "or"}, args : Seq(Nested[n - 1])] /\ n # 0
  <2>1. e.args \in Seq(Nested[n - 1]) /\ e.op \in {"and", "or"}
    BY <1>4
  <2> QED BY <2>1, <1>4
<1> QED BY <1>1, <1>2, <1>3, <1>4 DEF Level

LEMMA NestedGrows ==
  ASSUME NEW n \in 0 .. MaxDepth, NEW m \in 0 .. n
  PROVE  Nested[m] \subseteq Nested[n]
<1> USE TargetingAssumption
<1>1. \A k \in 1 .. MaxDepth : Nested[k - 1] \subseteq Nested[k]
  <2> DEFINE Wrong == {k \in 1 .. MaxDepth : ~(Nested[k - 1] \subseteq Nested[k])}
  <2> SUFFICES ASSUME Wrong # {} PROVE FALSE
    OBVIOUS
  <2>1. PICK k \in Wrong : \A j \in Wrong : k <= j
    <3>1. Wrong \in SUBSET Nat
      OBVIOUS
    <3> HIDE DEF Wrong
    <3> QED BY <3>1, LeastNumber
  <2>2. Nested[k] = Level(Nested, k) /\ Nested[k - 1] = Level(Nested, k - 1)
    BY NestedIs
  <2>3. CASE k = 1
    BY <2>2, <2>3 DEF Level
  <2>4. CASE k > 1
    <3>1. Nested[(k - 1) - 1] \subseteq Nested[k - 1]
      <4>1. k - 1 \in 1 .. MaxDepth /\ k - 1 \notin Wrong
        <5>1. k \in 1 .. MaxDepth
          OBVIOUS
        <5> HIDE DEF Wrong
        <5> QED BY <2>1, <2>4, <5>1
      <4> QED BY <4>1
    <3>2. Level(Nested, k - 1) \subseteq Level(Nested, k)
      <4>1. Seq(Nested[(k - 1) - 1]) \subseteq Seq(Nested[k - 1])
        BY <3>1
      <4>2. [1 .. 1 -> Nested[(k - 1) - 1]] \subseteq [1 .. 1 -> Nested[k - 1]]
        BY <3>1
      <4> QED BY <4>1, <4>2, <2>4 DEF Level
    <3> QED BY <3>2, <2>2
  <2> QED BY <2>3, <2>4
<1>2. \A k \in m .. n : Nested[m] \subseteq Nested[k]
  <2> DEFINE Wrong == {k \in m .. n : ~(Nested[m] \subseteq Nested[k])}
  <2> SUFFICES ASSUME Wrong # {} PROVE FALSE
    OBVIOUS
  <2>1. PICK k \in Wrong : \A j \in Wrong : k <= j
    <3>1. Wrong \in SUBSET Nat
      OBVIOUS
    <3> HIDE DEF Wrong
    <3> QED BY <3>1, LeastNumber
  <2>2. k > m
    OBVIOUS
  <2>3. k - 1 \in m .. n /\ k - 1 \notin Wrong
    <3>1. k \in m .. n
      OBVIOUS
    <3> HIDE DEF Wrong
    <3> QED BY <2>1, <2>2, <3>1
  <2>4. Nested[m] \subseteq Nested[k - 1]
    BY <2>3
  <2> QED BY <2>4, <2>3, <1>1
<1> QED BY <1>2

-----------------------------------------------------------------------------
(* Evaluation.  A call is the set of segments being matched and an         *)
(* expression; it leads to the calls of its operands, or to the expression *)
(* of the segment it refers to.                                            *)

Table(ss) ==
  /\ IsFiniteSet(DOMAIN ss)
  /\ \A s \in DOMAIN ss : ss[s].expr \in Exprs /\ ss[s].bits \in {"none", "all", "in", "out"}

Calls(ss) == (SUBSET DOMAIN ss) \X Exprs

Follows(ss, c) ==
  IF c[2].op \in {"attribute", "materialized"} THEN {}
  ELSE IF c[2].op = "segment"
  THEN {<<c[1] \cup {s}, ss[s].expr>> : s \in ({c[2].seg} \cap DOMAIN ss) \ c[1]}
  ELSE {<<c[1], c[2].args[i]>> : i \in DOMAIN c[2].args}

\* The segments not yet being matched become fewer, or the expression smaller.
LEMMA FollowsSmaller ==
  ASSUME NEW ss, Table(ss), NEW c \in Calls(ss), NEW n \in 0 .. MaxDepth, c[2] \in Nested[n],
         NEW d \in Follows(ss, c)
  PROVE  /\ d \in Calls(ss)
         /\ Cardinality(DOMAIN ss \ d[1]) \in Nat /\ Cardinality(DOMAIN ss \ c[1]) \in Nat
         /\ \/ Cardinality(DOMAIN ss \ d[1]) < Cardinality(DOMAIN ss \ c[1])
            \/ d[1] = c[1] /\ n > 0 /\ d[2] \in Nested[n - 1]
<1> USE TargetingAssumption
<1>1. /\ c = <<c[1], c[2]>> /\ c[1] \in SUBSET DOMAIN ss /\ c[2] \in Exprs
      /\ IsFiniteSet(DOMAIN ss \ c[1]) /\ Cardinality(DOMAIN ss \ c[1]) \in Nat
  <2>1. c = <<c[1], c[2]>> /\ c[1] \in SUBSET DOMAIN ss /\ c[2] \in Exprs
    BY DEF Calls
  <2>2. IsFiniteSet(DOMAIN ss \ c[1])
    BY FS_Difference DEF Table
  <2> QED BY <2>1, <2>2, FS_CardinalityType
<1>2. CASE c[2].op = "segment"
  <2>1. PICK s \in (DOMAIN ss) \ c[1] : d = <<c[1] \cup {s}, ss[s].expr>>
    BY <1>2 DEF Follows
  <2>2. d[1] = c[1] \cup {s} /\ d[2] = ss[s].expr /\ d \in Calls(ss)
    BY <2>1, <1>1 DEF Calls, Table
  <2>3. DOMAIN ss \ d[1] = (DOMAIN ss \ c[1]) \ {s} /\ s \in DOMAIN ss \ c[1]
    BY <2>2
  <2>4. Cardinality(DOMAIN ss \ d[1]) = Cardinality(DOMAIN ss \ c[1]) - 1
    <3> DEFINE rest == DOMAIN ss \ c[1]
    <3>1. IsFiniteSet(rest) /\ s \in rest
      BY <1>1, <2>3
    <3>2. Cardinality(rest \ {s}) = Cardinality(rest) - 1
      <4> HIDE DEF rest
      <4> QED BY <3>1, FS_RemoveElement
    <3> QED BY <3>2, <2>3
  <2>5. IsFiniteSet(DOMAIN ss \ d[1])
    BY <2>3, <1>1, FS_Difference
  <2>6. Cardinality(DOMAIN ss \ d[1]) \in Nat
    BY <2>5, FS_CardinalityType
  <2> QED BY <2>2, <2>4, <2>6, <1>1
<1>3. CASE c[2].op # "segment"
  <2>1. c[2].op \notin {"attribute", "materialized"}
    BY DEF Follows
  <2>2. PICK i \in DOMAIN c[2].args : d = <<c[1], c[2].args[i]>>
    BY <2>1, <1>3 DEF Follows
  <2>3. n > 0 /\ c[2].args[i] \in Nested[n - 1]
    <3>1. \/ DOMAIN c[2].args = 1 .. 1 /\ n > 0 /\ \A j \in DOMAIN c[2].args : c[2].args[j] \in Nested[n - 1]
          \/ n > 0 /\ c[2].args \in Seq(Nested[n - 1])
      BY <2>1, <1>3, NestedShape
    <3> QED BY <3>1
  <2>4. d[1] = c[1] /\ d[2] = c[2].args[i]
    BY <2>2
  <2>5. n - 1 \in 0 .. MaxDepth /\ Nested[n - 1] \subseteq Exprs
    <3>1. n - 1 \in 0 .. MaxDepth
      BY <2>3
    <3> QED BY <3>1, NestedGrows DEF Exprs
  <2>6. d \in Calls(ss)
    BY <2>2, <2>3, <2>5, <1>1 DEF Calls
  <2> QED BY <2>3, <2>4, <2>6, <1>1
<1> QED BY <1>2, <1>3

\* Induction over calls.  Good is a collection of sets of calls to which calls
\* can be added that lead into it.
LEMMA CallsGrow ==
  ASSUME NEW ss, Table(ss), NEW Good, {} \in Good,
         \A D \in Good : \A E \in SUBSET Calls(ss) :
           D \subseteq E /\ (\A c \in E : Follows(ss, c) \subseteq D) => E \in Good
  PROVE  Calls(ss) \in Good
<1> USE TargetingAssumption
<1> DEFINE Size(c) == Cardinality(DOMAIN ss \ c[1])
           Below(k) == {c \in Calls(ss) : Size(c) < k}
           At(k, n) == {c \in Calls(ss) : Size(c) < k \/ (Size(c) = k /\ c[2] \in Nested[n])}
<1>0. \A c \in Calls(ss) : Size(c) \in Nat /\ Size(c) <= Cardinality(DOMAIN ss)
  <2> SUFFICES ASSUME NEW c \in Calls(ss) PROVE Size(c) \in Nat /\ Size(c) <= Cardinality(DOMAIN ss)
    OBVIOUS
  <2>1. IsFiniteSet(DOMAIN ss) /\ (DOMAIN ss \ c[1]) \in SUBSET (DOMAIN ss)
    BY DEF Table
  <2> QED BY <2>1, FS_Subset, FS_CardinalityType
<1>1. Below(0) \in Good
  <2>1. Below(0) = {}
    <3> HIDE DEF Size
    <3> QED BY <1>0
  <2> QED BY <2>1
<1>2. ASSUME NEW k \in Nat, Below(k) \in Good PROVE Below(k + 1) \in Good
  <2>1. At(k, 0) \in Good
    <3>1. ASSUME NEW c \in At(k, 0), NEW d \in Follows(ss, c) PROVE d \in Below(k)
      <4>1. PICK n \in 0 .. MaxDepth : c[2] \in Nested[n] /\ (Size(c) < k \/ n = 0)
        BY DEF Calls, Exprs
      <4>2. d \in Calls(ss) /\ Size(d) \in Nat /\ Size(c) \in Nat
            /\ (Size(d) < Size(c) \/ (Size(d) = Size(c) /\ n > 0))
        BY <4>1, FollowsSmaller
      <4>3. Size(c) <= k
        <5>1. c \in Calls(ss) /\ (Size(c) < k \/ Size(c) = k)
          OBVIOUS
        <5> HIDE DEF Size
        <5> QED BY <1>0, <5>1
      <4> HIDE DEF Size
      <4> QED BY <4>1, <4>2, <4>3
    <3> HIDE DEF Below, At
    <3>2. At(k, 0) \in SUBSET Calls(ss)
      BY DEF At
    <3>3. \A c \in At(k, 0) : Follows(ss, c) \subseteq Below(k)
      BY <3>1
    <3>4. Below(k) \subseteq At(k, 0)
      BY DEF At, Below
    <3> QED BY <3>2, <3>3, <3>4, <1>2
  <2>2. ASSUME NEW n \in 1 .. MaxDepth, At(k, n - 1) \in Good PROVE At(k, n) \in Good
    <3>1. ASSUME NEW c \in At(k, n), NEW d \in Follows(ss, c) PROVE d \in At(k, n - 1)
      <4>1. PICK m \in 0 .. MaxDepth : c[2] \in Nested[m] /\ (Size(c) < k \/ m = n)
        BY DEF Calls, Exprs
      <4>2. d \in Calls(ss) /\ Size(d) \in Nat /\ Size(c) \in Nat
            /\ (Size(d) < Size(c) \/ (Size(d) = Size(c) /\ d[2] \in Nested[m - 1]))
        BY <4>1, FollowsSmaller
      <4>3. Size(c) <= k
        <5>1. c \in Calls(ss) /\ (Size(c) < k \/ Size(c) = k)
          OBVIOUS
        <5> HIDE DEF Size
        <5> QED BY <1>0, <5>1
      <4> HIDE DEF Size
      <4> QED BY <4>1, <4>2, <4>3
    <3> HIDE DEF At
    <3>2. At(k, n) \in SUBSET Calls(ss)
      BY DEF At
    <3>3. \A c \in At(k, n) : Follows(ss, c) \subseteq At(k, n - 1)
      BY <3>1
    <3>4. At(k, n - 1) \subseteq At(k, n)
      <4>1. Nested[n - 1] \subseteq Nested[n]
        BY NestedGrows
      <4> HIDE DEF Size
      <4> QED BY <4>1 DEF At
    <3> QED BY <3>2, <3>3, <3>4, <2>2
  <2>3. \A n \in 0 .. MaxDepth : At(k, n) \in Good
    <3> DEFINE Wrong == {n \in 0 .. MaxDepth : At(k, n) \notin Good}
    <3> SUFFICES ASSUME Wrong # {} PROVE FALSE
      OBVIOUS
    <3> HIDE DEF At
    <3>1. PICK n \in Wrong : \A j \in Wrong : n <= j
      <4>1. Wrong \in SUBSET Nat
        OBVIOUS
      <4> HIDE DEF Wrong
      <4> QED BY <4>1, LeastNumber
    <3>2. n # 0
      BY <2>1
    <3>3. n \in 1 .. MaxDepth /\ n - 1 \notin Wrong
      <4>1. n \in 0 .. MaxDepth
        OBVIOUS
      <4> HIDE DEF Wrong
      <4> QED BY <3>1, <3>2, <4>1
    <3>4. At(k, n - 1) \in Good
      BY <3>3
    <3> QED BY <3>4, <3>3, <2>2
  <2>4. Below(k + 1) = At(k, MaxDepth)
    <3>1. \A c \in Calls(ss) : c[2] \in Nested[MaxDepth]
      BY DEF Calls, Exprs
    <3> HIDE DEF Size
    <3> QED BY <3>1, <1>0
  <2>5. MaxDepth \in 0 .. MaxDepth
    OBVIOUS
  <2> HIDE DEF At, Below
  <2> QED BY <2>3, <2>4, <2>5
<1>3. \A k \in Nat : Below(k) \in Good
  <2> DEFINE Wrong == {n \in Nat : Below(n) \notin Good}
  <2> SUFFICES ASSUME Wrong # {} PROVE FALSE
    OBVIOUS
  <2> HIDE DEF Below
  <2>1. PICK n \in Wrong : \A j \in Wrong : n <= j
    <3>1. Wrong \in SUBSET Nat
      OBVIOUS
    <3> HIDE DEF Wrong
    <3> QED BY <3>1, LeastNumber
  <2>2. n # 0
    BY <1>1
  <2>3. n - 1 \in Nat /\ n - 1 \notin Wrong
    <3>1. n \in Nat
      OBVIOUS
    <3> HIDE DEF Wrong
    <3> QED BY <2>1, <2>2, <3>1
  <2>4. Below(n - 1) \in Good
    BY <2>3
  <2>5. Below((n - 1) + 1) \in Good
    BY <2>3, <2>4, <1>2
  <2> QED BY <2>5, <2>3
<1>4. Cardinality(DOMAIN ss) + 1 \in Nat
  BY FS_CardinalityType DEF Table
<1>5. Calls(ss) = Below(Cardinality(DOMAIN ss) + 1)
  <2>1. \A c \in Calls(ss) : Size(c) < Cardinality(DOMAIN ss) + 1
    <3>1. Cardinality(DOMAIN ss) \in Nat
      BY FS_CardinalityType DEF Table
    <3> HIDE DEF Size
    <3> QED BY <1>0, <3>1
  <2> HIDE DEF Size
  <2> QED BY <2>1
<1> HIDE DEF Below
<1> QED BY <1>3, <1>4, <1>5

\* What holds of a call when it holds of the calls it leads to, holds of all.
LEMMA CallInduction ==
  ASSUME NEW ss, Table(ss), NEW Holds,
         \A c \in Calls(ss) : Follows(ss, c) \subseteq Holds => c \in Holds
  PROVE  Calls(ss) \subseteq Holds
<1> DEFINE Good == {D \in SUBSET Calls(ss) : D \subseteq Holds}
<1>1. {} \in Good
  OBVIOUS
<1>2. \A D \in Good : \A E \in SUBSET Calls(ss) :
        D \subseteq E /\ (\A c \in E : Follows(ss, c) \subseteq D) => E \in Good
  OBVIOUS
<1>3. Calls(ss) \in Good
  <2> HIDE DEF Good
  <2> QED BY <1>1, <1>2, CallsGrow
<1> QED BY <1>3

LEMMA CallShape ==
  ASSUME NEW ss, NEW c \in Calls(ss)
  PROVE  /\ c = <<c[1], c[2]>> /\ c[1] \subseteq DOMAIN ss /\ c[2] \in Exprs
         /\ \/ c[2] \in Refs /\ c[2].op \in {"attribute", "segment", "materialized"}
            \/ c[2].op = "not" /\ DOMAIN c[2].args = 1 .. 1 /\ c[2].args[1] \in Exprs
            \/ c[2].op \in {"and", "or"} /\ c[2].args \in Seq(Exprs)
<1> USE TargetingAssumption
<1>1. c = <<c[1], c[2]>> /\ c[1] \subseteq DOMAIN ss /\ c[2] \in Exprs
  BY DEF Calls
<1>2. MaxDepth \in 0 .. MaxDepth /\ (MaxDepth > 0 => Nested[MaxDepth - 1] \subseteq Exprs)
  <2>1. MaxDepth > 0 => MaxDepth - 1 \in 0 .. MaxDepth
    OBVIOUS
  <2> QED BY <2>1, NestedGrows DEF Exprs
<1>3. c[2] \in Nested[MaxDepth]
  BY <1>1 DEF Exprs
<1>4. \/ c[2] \in Refs /\ c[2].op \in {"attribute", "segment", "materialized"}
      \/ /\ MaxDepth > 0 /\ c[2].op = "not" /\ DOMAIN c[2].args = 1 .. 1
         /\ \A i \in DOMAIN c[2].args : c[2].args[i] \in Nested[MaxDepth - 1]
      \/ MaxDepth > 0 /\ c[2].op \in {"and", "or"} /\ c[2].args \in Seq(Nested[MaxDepth - 1])
  BY <1>2, <1>3, NestedShape
<1> QED BY <1>1, <1>2, <1>4

\* One step of evaluation looks at the calls that follow, and no further.
LEMMA StepFollows ==
  ASSUME NEW env, NEW c \in Calls(env.segs), NEW f, NEW g,
         \A d \in Follows(env.segs, c) : f[d] = g[d]
  PROVE  EvaluateOne(env, f, c[1], c[2]) = EvaluateOne(env, g, c[1], c[2])
<1>1. CASE c[2].op \in {"attribute", "materialized"}
  BY <1>1 DEF EvaluateOne
<1>2. CASE c[2].op = "segment"
  <2>1. CASE c[2].seg \in DOMAIN env.segs /\ c[2].seg \notin c[1]
    <3>1. <<c[1] \cup {c[2].seg}, env.segs[c[2].seg].expr>> \in Follows(env.segs, c)
      BY <1>2, <2>1 DEF Follows
    <3> QED BY <1>2, <3>1 DEF EvaluateOne
  <2>2. CASE c[2].seg \notin DOMAIN env.segs
    BY <1>2, <2>2 DEF EvaluateOne
  <2>3. CASE c[2].seg \in c[1]
    BY <1>2, <2>3 DEF EvaluateOne, Matched
  <2> QED BY <2>1, <2>2, <2>3
<1>3. CASE c[2].op \in {"not", "and", "or"}
  <2>1. \A i \in DOMAIN c[2].args : f[<<c[1], c[2].args[i]>>] = g[<<c[1], c[2].args[i]>>]
    BY <1>3 DEF Follows
  <2>2. [i \in DOMAIN c[2].args |-> f[<<c[1], c[2].args[i]>>]] = [i \in DOMAIN c[2].args |-> g[<<c[1], c[2].args[i]>>]]
    BY <2>1
  <2> QED BY <1>3, <2>2 DEF EvaluateOne
<1> QED BY <1>1, <1>2, <1>3, CallShape

LEMMA EvaluationExists ==
  ASSUME NEW env, Table(env.segs)
  PROVE  \E f : f = [c \in Calls(env.segs) |-> EvaluateOne(env, f, c[1], c[2])]
<1> DEFINE Good == {D \in SUBSET Calls(env.segs) : \E f : f = [c \in D |-> EvaluateOne(env, f, c[1], c[2])]}
<1>1. {} \in Good
  <2> DEFINE f == [c \in {} |-> c]
  <2>1. f = [c \in {} |-> EvaluateOne(env, f, c[1], c[2])]
    OBVIOUS
  <2> QED BY <2>1
<1>2. ASSUME NEW D \in Good, NEW E \in SUBSET Calls(env.segs), D \subseteq E,
             \A c \in E : Follows(env.segs, c) \subseteq D
      PROVE  E \in Good
  <2>1. PICK f : f = [c \in D |-> EvaluateOne(env, f, c[1], c[2])]
    OBVIOUS
  <2> DEFINE g == [c \in E |-> EvaluateOne(env, f, c[1], c[2])]
  <2>2. \A d \in D : g[d] = f[d]
    BY <2>1, <1>2
  <2>3. ASSUME NEW c \in E PROVE EvaluateOne(env, f, c[1], c[2]) = EvaluateOne(env, g, c[1], c[2])
    <3>1. \A d \in Follows(env.segs, c) : f[d] = g[d]
      <4> HIDE DEF g
      <4> QED BY <2>2, <1>2
    <3>2. c \in Calls(env.segs)
      OBVIOUS
    <3> HIDE DEF g
    <3> QED BY <3>1, <3>2, StepFollows
  <2>4. g = [c \in E |-> EvaluateOne(env, g, c[1], c[2])]
    <3>1. g = [c \in E |-> EvaluateOne(env, f, c[1], c[2])]
      OBVIOUS
    <3> HIDE DEF g
    <3> QED BY <3>1, <2>3
  <2> HIDE DEF g
  <2> QED BY <2>4
<1>3. Calls(env.segs) \in Good
  <2> HIDE DEF Good
  <2> QED BY <1>1, <1>2, CallsGrow
<1> QED BY <1>3

\* Evaluate is the solution.
Evaluated(env) == [c \in Calls(env.segs) |-> Evaluate(env, c[1], c[2])]

LEMMA EvaluateIs ==
  ASSUME NEW env, Table(env.segs), NEW c \in Calls(env.segs)
  PROVE  Evaluate(env, c[1], c[2]) = EvaluateOne(env, Evaluated(env), c[1], c[2])
<1> DEFINE eval == CHOOSE f : f = [d \in (SUBSET DOMAIN env.segs) \X Exprs |-> EvaluateOne(env, f, d[1], d[2])]
<1>1. eval = [d \in Calls(env.segs) |-> EvaluateOne(env, eval, d[1], d[2])]
  BY EvaluationExists DEF Calls
<1>2. \A v, e : Evaluate(env, v, e) = eval[<<v, e>>]
  BY DEF Evaluate
<1> HIDE DEF eval
<1>3. \A d \in Calls(env.segs) : eval[d] = Evaluate(env, d[1], d[2])
  BY <1>2, CallShape
<1>4. Evaluated(env) = eval
  BY <1>1, <1>3 DEF Evaluated
<1> QED BY <1>1, <1>3, <1>4

LEMMA EvaluateCases ==
  ASSUME NEW env, Table(env.segs), NEW v \in SUBSET DOMAIN env.segs, NEW e \in Exprs
  PROVE  /\ e.op = "attribute" => Evaluate(env, v, e) = Value(e.val)
         /\ e.op = "materialized" => Evaluate(env, v, e) = MaterializedMatch(env, e.mat)
         /\ e.op = "segment" =>
              /\ e.seg \notin DOMAIN env.segs \/ e.seg \in v => Evaluate(env, v, e) = Value(F)
              /\ e.seg \in DOMAIN env.segs /\ e.seg \notin v =>
                   Evaluate(env, v, e) =
                     Matched(env, v, e.seg, Evaluate(env, v \cup {e.seg}, env.segs[e.seg].expr))
         /\ e.op = "not" => Evaluate(env, v, e) = [Evaluate(env, v, e.args[1]) EXCEPT !.val = Negate(@)]
         /\ e.op = "and" => Evaluate(env, v, e) = Combine([i \in DOMAIN e.args |-> Evaluate(env, v, e.args[i])], F)
         /\ e.op = "or" => Evaluate(env, v, e) = Combine([i \in DOMAIN e.args |-> Evaluate(env, v, e.args[i])], T)
<1> DEFINE c == <<v, e>>
           E == Evaluated(env)
<1>0. c \in Calls(env.segs) /\ c[1] = v /\ c[2] = e
  BY DEF Calls
<1>1. Evaluate(env, v, e) = EvaluateOne(env, E, v, e)
  <2> HIDE DEF c
  <2> QED BY <1>0, EvaluateIs
<1>2. \A w \in SUBSET DOMAIN env.segs, x \in Exprs : E[<<w, x>>] = Evaluate(env, w, x)
  BY DEF Evaluated, Calls
<1>3. \/ e.op \in {"attribute", "segment", "materialized"}
      \/ e.op = "not" /\ DOMAIN e.args = 1 .. 1 /\ e.args[1] \in Exprs
      \/ e.op \in {"and", "or"} /\ e.args \in Seq(Exprs)
  <2> HIDE DEF c
  <2> QED BY <1>0, CallShape
<1> HIDE DEF E
<1>4. CASE e.op \in {"attribute", "materialized"}
  BY <1>1, <1>4 DEF EvaluateOne
<1>5. CASE e.op = "segment"
  <2>1. CASE e.seg \notin DOMAIN env.segs
    BY <1>1, <1>5, <2>1 DEF EvaluateOne
  <2>2. CASE e.seg \in DOMAIN env.segs /\ e.seg \in v
    BY <1>1, <1>5, <2>2 DEF EvaluateOne, Matched
  <2>3. CASE e.seg \in DOMAIN env.segs /\ e.seg \notin v
    <3>1. E[<<v \cup {e.seg}, env.segs[e.seg].expr>>] = Evaluate(env, v \cup {e.seg}, env.segs[e.seg].expr)
      BY <1>2, <2>3 DEF Table
    <3>2. EvaluateOne(env, E, v, e) = Matched(env, v, e.seg, E[<<v \cup {e.seg}, env.segs[e.seg].expr>>])
      BY <1>5, <2>3 DEF EvaluateOne
    <3> QED BY <1>1, <1>5, <2>3, <3>1, <3>2
  <2> QED BY <2>1, <2>2, <2>3, <1>5
<1>6. CASE e.op = "not"
  <2>1. EvaluateOne(env, E, v, e) = [E[<<v, e.args[1]>>] EXCEPT !.val = Negate(@)]
    BY <1>6, <1>3 DEF EvaluateOne
  <2> QED BY <1>1, <1>2, <1>3, <1>6, <2>1
<1>7. CASE e.op \in {"and", "or"}
  <2>1. e.args \in Seq(Exprs)
    BY <1>3, <1>7
  <2>2. [i \in DOMAIN e.args |-> E[<<v, e.args[i]>>]] = [i \in DOMAIN e.args |-> Evaluate(env, v, e.args[i])]
    BY <1>2, <2>1
  <2> QED BY <1>1, <1>7, <2>2 DEF EvaluateOne
<1> QED BY <1>3, <1>4, <1>5, <1>6, <1>7

-----------------------------------------------------------------------------
(* Operands in order.                                                      *)

IsOut(o) == o = [val |-> o.val, asked |-> o.asked]

Tuple(n, f) == f = [i \in 1 .. n |-> f[i]]

LEMMA FirstDecisiveIs ==
  ASSUME NEW n \in Nat, NEW vals, Tuple(n, vals), NEW decisive
  PROVE  /\ FirstDecisive(vals, decisive) \in 0 .. n
         /\ \/ /\ FirstDecisive(vals, decisive) > 0
               /\ vals[FirstDecisive(vals, decisive)] \in {decisive} \cup Errors
            \/ /\ FirstDecisive(vals, decisive) = n
               /\ \A i \in 1 .. n : vals[i] \notin {decisive} \cup Errors
         /\ \A i \in 1 .. n : i < FirstDecisive(vals, decisive) => vals[i] \notin {decisive} \cup Errors
<1> DEFINE stops == {i \in DOMAIN vals : vals[i] \in {decisive} \cup Errors}
<1>1. Len(vals) = n /\ DOMAIN vals = 1 .. n
  <2> DEFINE Vs == {vals[i] : i \in 1 .. n}
  <2>1. vals \in [1 .. n -> Vs]
    BY DEF Tuple
  <2>2. vals \in Seq(Vs)
    BY <2>1
  <2> QED BY <2>1, <2>2
<1>2. FirstDecisive(vals, decisive) = IF stops = {} THEN n ELSE Min(stops)
  BY <1>1 DEF FirstDecisive
<1>3. CASE stops = {}
  <2>1. FirstDecisive(vals, decisive) = n
    BY <1>2, <1>3
  <2>2. \A i \in 1 .. n : vals[i] \notin {decisive} \cup Errors
    BY <1>1, <1>3
  <2>3. n \in 0 .. n
    OBVIOUS
  <2> QED BY <2>1, <2>2, <2>3
<1>4. CASE stops # {}
  <2>1. stops \in SUBSET Nat
    BY <1>1
  <2>2. PICK m \in stops : \A k \in stops : m <= k
    <3> HIDE DEF stops
    <3> QED BY <1>4, <2>1, LeastNumber
  <2>3. Min(stops) \in stops /\ \A k \in stops : Min(stops) <= k
    <3> HIDE DEF stops
    <3> QED BY <2>2 DEF Min
  <2>4. FirstDecisive(vals, decisive) = Min(stops)
    BY <1>2, <1>4
  <2> DEFINE last == Min(stops)
  <2>5. last \in 1 .. n /\ vals[last] \in {decisive} \cup Errors
    BY <2>3, <1>1
  <2>6. \A i \in 1 .. n : i < last => i \notin stops
    <3> HIDE DEF stops
    <3> QED BY <2>3, <2>5
  <2>7. \A i \in 1 .. n : i < last => vals[i] \notin {decisive} \cup Errors
    BY <2>6, <1>1
  <2>8. FirstDecisive(vals, decisive) = last
    BY <2>4
  <2> HIDE DEF last, stops
  <2> QED BY <2>5, <2>7, <2>8
<1> QED BY <1>3, <1>4

LEMMA CombineIs ==
  ASSUME NEW n \in Nat, NEW outs, Tuple(n, outs), NEW decisive
  PROVE  \E last \in 0 .. n :
           /\ Combine(outs, decisive) =
                [val   |-> IF last > 0 /\ outs[last].val \in {decisive} \cup Errors THEN outs[last].val
                           ELSE IF \E i \in 1 .. last : outs[i].val = U THEN U ELSE Negate(decisive),
                 asked |-> UNION {outs[i].asked : i \in 1 .. last}]
           /\ \/ last > 0 /\ outs[last].val \in {decisive} \cup Errors
              \/ last = n /\ \A i \in 1 .. n : outs[i].val \notin {decisive} \cup Errors
           /\ \A i \in 1 .. n : i < last => outs[i].val \notin {decisive} \cup Errors
<1> DEFINE vals == [i \in DOMAIN outs |-> outs[i].val]
           last == FirstDecisive(vals, decisive)
<1>1. DOMAIN outs = 1 .. n /\ Tuple(n, vals) /\ \A i \in 1 .. n : vals[i] = outs[i].val
  BY DEF Tuple
<1>2. Combine(outs, decisive) =
        [val   |-> IF last > 0 /\ vals[last] \in {decisive} \cup Errors THEN vals[last]
                   ELSE IF \E i \in 1 .. last : vals[i] = U THEN U ELSE Negate(decisive),
         asked |-> UNION {outs[i].asked : i \in 1 .. last}]
  BY DEF Combine
<1> HIDE DEF vals
<1>3. /\ last \in 0 .. n
      /\ \/ last > 0 /\ vals[last] \in {decisive} \cup Errors
         \/ last = n /\ \A i \in 1 .. n : vals[i] \notin {decisive} \cup Errors
      /\ \A i \in 1 .. n : i < last => vals[i] \notin {decisive} \cup Errors
  BY <1>1, FirstDecisiveIs
<1> HIDE DEF last
<1>4. last > 0 => vals[last] = outs[last].val
  BY <1>1, <1>3
<1>5. \A i \in 1 .. last : vals[i] = outs[i].val
  BY <1>1, <1>3
<1>6. (\E i \in 1 .. last : vals[i] = U) <=> (\E i \in 1 .. last : outs[i].val = U)
  BY <1>5
<1>7. Combine(outs, decisive) =
                [val   |-> IF last > 0 /\ outs[last].val \in {decisive} \cup Errors THEN outs[last].val
                           ELSE IF \E i \in 1 .. last : outs[i].val = U THEN U ELSE Negate(decisive),
                 asked |-> UNION {outs[i].asked : i \in 1 .. last}]
  BY <1>2, <1>4, <1>6
<1>8. /\ \/ last > 0 /\ outs[last].val \in {decisive} \cup Errors
         \/ last = n /\ \A i \in 1 .. n : outs[i].val \notin {decisive} \cup Errors
      /\ \A i \in 1 .. n : i < last => outs[i].val \notin {decisive} \cup Errors
  BY <1>1, <1>3, <1>4
<1> QED BY <1>3, <1>7, <1>8

\* What discovery finds (d) and what matching with records gives (c): a value
\* that is found stands, and nothing is looked up that discovery did not.
Pair(d, c) ==
  /\ IsOut(d) /\ IsOut(c)
  /\ d.val \in {T, F, U} /\ c.val \in {T, F}
  /\ d.val # U => c.val = d.val
  /\ c.asked \subseteq d.asked

LEMMA CombinePair ==
  ASSUME NEW n \in Nat, NEW ds, NEW cs, Tuple(n, ds), Tuple(n, cs),
         NEW decisive \in {T, F}, \A i \in 1 .. n : Pair(ds[i], cs[i])
  PROVE  Pair(Combine(ds, decisive), Combine(cs, decisive))
<1> DEFINE D == Combine(ds, decisive)
           C == Combine(cs, decisive)
<1>0. /\ T # F /\ T # U /\ F # U /\ Negate(decisive) \in {T, F} /\ Negate(decisive) # decisive
      /\ {T, F, U} \cap Errors = {}
  BY DEF T, F, U, Negate, Errors, Unrecognized, Unsupported
<1>1. PICK p \in 0 .. n :
        /\ D = [val   |-> IF p > 0 /\ ds[p].val \in {decisive} \cup Errors THEN ds[p].val
                          ELSE IF \E i \in 1 .. p : ds[i].val = U THEN U ELSE Negate(decisive),
                asked |-> UNION {ds[i].asked : i \in 1 .. p}]
        /\ \/ p > 0 /\ ds[p].val \in {decisive} \cup Errors
           \/ p = n /\ \A i \in 1 .. n : ds[i].val \notin {decisive} \cup Errors
        /\ \A i \in 1 .. n : i < p => ds[i].val \notin {decisive} \cup Errors
  BY CombineIs
<1>2. PICK q \in 0 .. n :
        /\ C = [val   |-> IF q > 0 /\ cs[q].val \in {decisive} \cup Errors THEN cs[q].val
                          ELSE IF \E i \in 1 .. q : cs[i].val = U THEN U ELSE Negate(decisive),
                asked |-> UNION {cs[i].asked : i \in 1 .. q}]
        /\ \/ q > 0 /\ cs[q].val \in {decisive} \cup Errors
           \/ q = n /\ \A i \in 1 .. n : cs[i].val \notin {decisive} \cup Errors
        /\ \A i \in 1 .. n : i < q => cs[i].val \notin {decisive} \cup Errors
  BY CombineIs
<1> HIDE DEF D, C
<1>3. \A i \in 1 .. n : /\ ds[i].val \in {T, F, U} /\ cs[i].val \in {T, F}
                        /\ ds[i].val # U => cs[i].val = ds[i].val
                        /\ cs[i].asked \subseteq ds[i].asked
  BY DEF Pair
<1>4. q <= p
  <2>1. CASE p > 0 /\ ds[p].val \in {decisive} \cup Errors
    <3>1. ds[p].val = decisive /\ cs[p].val = decisive
      BY <1>0, <1>3, <2>1
    <3> QED BY <1>2, <3>1, <2>1
  <2>2. CASE p = n
    BY <2>2
  <2> QED BY <1>1, <2>1, <2>2
<1>5. C.asked \subseteq D.asked
  <2>1. \A i \in 1 .. q : i \in 1 .. p /\ i \in 1 .. n
    BY <1>4
  <2>2. C.asked = UNION {cs[i].asked : i \in 1 .. q} /\ D.asked = UNION {ds[i].asked : i \in 1 .. p}
    BY <1>1, <1>2
  <2> QED BY <2>1, <2>2, <1>3
<1>6. CASE p > 0 /\ ds[p].val \in {decisive} \cup Errors
  <2>1. ds[p].val = decisive /\ cs[p].val = decisive
    BY <1>0, <1>3, <1>6
  <2>2. q > 0 /\ cs[q].val \in {decisive} \cup Errors
    <3>1. p \in 1 .. n
      BY <1>6
    <3> QED BY <1>2, <2>1, <3>1
  <2>2a. cs[q].val = decisive
    <3>1. q \in 1 .. n
      BY <2>2
    <3> QED BY <2>2, <3>1, <1>0, <1>3
  <2>3. D.val = decisive /\ C.val = decisive
    BY <1>1, <1>2, <1>6, <2>1, <2>2, <2>2a
  <2> QED BY <2>3, <1>5, <1>1, <1>2 DEF Pair, IsOut, D, C
<1>7. CASE p = n /\ (\A i \in 1 .. n : ds[i].val \notin {decisive} \cup Errors)
  <2>1. C.val \in {T, F}
    <3>1. CASE q > 0 /\ cs[q].val \in {decisive} \cup Errors
      <4>1. C.val = cs[q].val
        BY <1>2, <3>1
      <4> QED BY <4>1, <3>1, <1>3
    <3>2. CASE ~(q > 0 /\ cs[q].val \in {decisive} \cup Errors)
      <4>1. \A i \in 1 .. q : cs[i].val # U
        BY <1>3, <1>0
      <4>2. C.val = Negate(decisive)
        BY <1>2, <3>2, <4>1
      <4> QED BY <4>2, <1>0
    <3> QED BY <3>1, <3>2
  <2>2. D.val = IF \E i \in 1 .. p : ds[i].val = U THEN U ELSE Negate(decisive)
    BY <1>1, <1>7
  <2>3. CASE \E i \in 1 .. p : ds[i].val = U
    <3>1. D.val = U
      BY <2>2, <2>3
    <3> QED BY <3>1, <2>1, <1>5, <1>1, <1>2 DEF Pair, IsOut, D, C
  <2>4. CASE \A i \in 1 .. p : ds[i].val # U
    <3>1. \A i \in 1 .. n : cs[i].val = ds[i].val /\ cs[i].val \notin {decisive} \cup Errors
      BY <2>4, <1>3, <1>7
    <3>2. q = n /\ (\A i \in 1 .. q : cs[i].val # U) /\ ~(q > 0 /\ cs[q].val \in {decisive} \cup Errors)
      BY <3>1, <1>2, <1>3, <1>0
    <3>3. C.val = Negate(decisive) /\ D.val = Negate(decisive)
      BY <3>2, <1>2, <2>2, <2>4
    <3> QED BY <3>3, <1>0, <1>5, <1>1, <1>2 DEF Pair, IsOut, D, C
  <2> QED BY <2>3, <2>4
<1> QED BY <1>1, <1>6, <1>7

\* Where discovery's looking up stays within K and records agree on K, matching
\* with either gives the same.
Within(o, K) == o.asked \subseteq K

OperandsAlike(n, ds, cs, es, K) ==
  \A i \in 1 .. n : /\ Pair(ds[i], cs[i]) /\ Pair(ds[i], es[i])
                    /\ ds[i].asked \subseteq K => cs[i] = es[i]

LEMMA CombineAgree ==
  ASSUME NEW n \in Nat, NEW ds, NEW cs, NEW es, Tuple(n, ds),
         Tuple(n, cs), Tuple(n, es),
         NEW decisive \in {T, F}, NEW K, OperandsAlike(n, ds, cs, es, K),
         Within(Combine(ds, decisive), K)
  PROVE  Combine(cs, decisive) = Combine(es, decisive)
<1> DEFINE D == Combine(ds, decisive)
           C == Combine(cs, decisive)
           E == Combine(es, decisive)
<1>0. {T, F, U} \cap Errors = {} /\ T # U /\ F # U
  BY DEF T, F, U, Errors, Unrecognized, Unsupported
<1>1. PICK p \in 0 .. n :
        /\ D.asked = UNION {ds[i].asked : i \in 1 .. p}
        /\ \/ p > 0 /\ ds[p].val \in {decisive} \cup Errors
           \/ p = n /\ \A i \in 1 .. n : ds[i].val \notin {decisive} \cup Errors
  <2>1. PICK p \in 0 .. n :
          /\ D = [val   |-> IF p > 0 /\ ds[p].val \in {decisive} \cup Errors THEN ds[p].val
                            ELSE IF \E i \in 1 .. p : ds[i].val = U THEN U ELSE Negate(decisive),
                  asked |-> UNION {ds[i].asked : i \in 1 .. p}]
          /\ \/ p > 0 /\ ds[p].val \in {decisive} \cup Errors
             \/ p = n /\ \A i \in 1 .. n : ds[i].val \notin {decisive} \cup Errors
    BY CombineIs
  <2>2. D.asked = UNION {ds[i].asked : i \in 1 .. p}
    <3> HIDE DEF D
    <3> QED BY <2>1
  <2> HIDE DEF D
  <2> QED BY <2>1, <2>2
<1>2. PICK q \in 0 .. n :
        /\ C = [val   |-> IF q > 0 /\ cs[q].val \in {decisive} \cup Errors THEN cs[q].val
                          ELSE IF \E i \in 1 .. q : cs[i].val = U THEN U ELSE Negate(decisive),
                asked |-> UNION {cs[i].asked : i \in 1 .. q}]
        /\ \/ q > 0 /\ cs[q].val \in {decisive} \cup Errors
           \/ q = n /\ \A i \in 1 .. n : cs[i].val \notin {decisive} \cup Errors
        /\ \A i \in 1 .. n : i < q => cs[i].val \notin {decisive} \cup Errors
  BY CombineIs
<1>3. PICK r \in 0 .. n :
        /\ E = [val   |-> IF r > 0 /\ es[r].val \in {decisive} \cup Errors THEN es[r].val
                          ELSE IF \E i \in 1 .. r : es[i].val = U THEN U ELSE Negate(decisive),
                asked |-> UNION {es[i].asked : i \in 1 .. r}]
        /\ \/ r > 0 /\ es[r].val \in {decisive} \cup Errors
           \/ r = n /\ \A i \in 1 .. n : es[i].val \notin {decisive} \cup Errors
        /\ \A i \in 1 .. n : i < r => es[i].val \notin {decisive} \cup Errors
  BY CombineIs
<1> HIDE DEF D, C, E
<1>4. \A i \in 1 .. p : cs[i] = es[i]
  <2>1. \A i \in 1 .. p : ds[i].asked \subseteq K
    BY <1>1 DEF D, Within
  <2> QED BY <2>1 DEF OperandsAlike
<1>5. \A i \in 1 .. n : /\ ds[i].val \in {T, F, U} /\ cs[i].val \in {T, F} /\ es[i].val \in {T, F}
                        /\ ds[i].val # U => cs[i].val = ds[i].val /\ es[i].val = ds[i].val
  BY DEF Pair, OperandsAlike
<1>6. q <= p /\ r <= p
  <2>1. CASE p > 0 /\ ds[p].val \in {decisive} \cup Errors
    <3>1. ds[p].val = decisive /\ cs[p].val = decisive /\ es[p].val = decisive
      BY <1>0, <1>5, <2>1
    <3> QED BY <1>2, <1>3, <3>1, <2>1
  <2>2. CASE p = n
    BY <2>2
  <2> QED BY <1>1, <2>1, <2>2
<1>7. q = r
  <2>1. CASE q < r
    <3>1. q > 0 => cs[q] = es[q]
      BY <1>4, <1>6
    <3>2. q > 0 => es[q].val \notin {decisive} \cup Errors
      BY <1>3, <2>1
    <3> QED BY <3>1, <3>2, <1>2, <2>1
  <2>2. CASE r < q
    <3>1. r > 0 => cs[r] = es[r]
      BY <1>4, <1>6
    <3>2. r > 0 => cs[r].val \notin {decisive} \cup Errors
      BY <1>2, <2>2
    <3> QED BY <3>1, <3>2, <1>3, <2>2
  <2> QED BY <2>1, <2>2
<1>8. (q > 0 => cs[q] = es[r]) /\ \A i \in 1 .. q : cs[i] = es[i]
  BY <1>4, <1>6, <1>7
<1>9. UNION {cs[i].asked : i \in 1 .. q} = UNION {es[i].asked : i \in 1 .. r}
  BY <1>7, <1>8
<1>10. (\E i \in 1 .. q : cs[i].val = U) <=> (\E i \in 1 .. r : es[i].val = U)
  BY <1>7, <1>8
<1>11. C = E
  BY <1>2, <1>3, <1>7, <1>8, <1>9, <1>10
<1> QED BY <1>11 DEF C, E

-----------------------------------------------------------------------------
(* One round of discovery.                                                 *)

\* This version of the resolver knows every rule of an attribute criterion.
Recognizing == \A e \in Refs : e.op = "attribute" => e.val \in {T, F}

\* The same segments, blooms and unit, for a discovery and with records.
Kin(d, e) ==
  /\ e.segs = d.segs /\ e.blooms = d.blooms /\ e.unit = d.unit
  /\ d.ctx.mode = "discovery" /\ e.ctx.mode = "complete"

Included(records, u, m) == \E r \in records : r.unit = u /\ r.mat = m

\* The records agree on the inclusions in K.
Agree(K, e1, e2) ==
  \A u, m : Key(u, m, NoRule) \in K => (Included(e1.ctx.records, u, m) <=> Included(e2.ctx.records, u, m))

LEMMA MaterializedPair ==
  ASSUME NEW d, NEW e1, NEW e2, Kin(d, e1), Kin(d, e2), NEW K, Agree(K, e1, e2), NEW m
  PROVE  /\ Pair(MaterializedMatch(d, m), MaterializedMatch(e1, m))
         /\ Pair(MaterializedMatch(d, m), MaterializedMatch(e2, m))
         /\ MaterializedMatch(d, m).asked \subseteq K => MaterializedMatch(e1, m) = MaterializedMatch(e2, m)
<1> USE DEF T, F, U, Value, IsOut, Pair
<1>1. CASE d.unit = NoUnit \/ m \in DOMAIN d.blooms
  BY <1>1 DEF MaterializedMatch, Kin
<1>2. CASE d.unit # NoUnit /\ m \notin DOMAIN d.blooms
  <2> DEFINE k == Key(d.unit, m, NoRule)
  <2>2. MaterializedMatch(d, m) = [val |-> U, asked |-> {k}]
    BY <1>2 DEF MaterializedMatch, Kin, Inclusion, Lookup
  <2>3. MaterializedMatch(e1, m) = [val |-> IF Included(e1.ctx.records, d.unit, m) THEN T ELSE F, asked |-> {k}]
    BY <1>2 DEF MaterializedMatch, Kin, Inclusion, Lookup, Included
  <2>4. MaterializedMatch(e2, m) = [val |-> IF Included(e2.ctx.records, d.unit, m) THEN T ELSE F, asked |-> {k}]
    BY <1>2 DEF MaterializedMatch, Kin, Inclusion, Lookup, Included
  <2>5. k \in K => (Included(e1.ctx.records, d.unit, m) <=> Included(e2.ctx.records, d.unit, m))
    BY DEF Agree
  <2> HIDE DEF k
  <2> QED BY <2>2, <2>3, <2>4, <2>5
<1> QED BY <1>1, <1>2

LEMMA MatchedPair ==
  ASSUME NEW d, NEW e1, NEW e2, Kin(d, e1), Kin(d, e2), NEW v, NEW s, NEW K,
         NEW o, NEW o1, NEW o2, Pair(o, o1), Pair(o, o2), o.asked \subseteq K => o1 = o2
  PROVE  /\ Pair(Matched(d, v, s, o), Matched(e1, v, s, o1))
         /\ Pair(Matched(d, v, s, o), Matched(e2, v, s, o2))
         /\ Matched(d, v, s, o).asked \subseteq K => Matched(e1, v, s, o1) = Matched(e2, v, s, o2)
<1> USE DEF T, F, U, Value, IsOut, Pair
<1>1. CASE s \in v
  BY <1>1 DEF Matched
<1>2. CASE s \notin v /\ Allocated(d.segs[s].bits, d.unit)
  BY <1>2 DEF Matched, Kin
<1>3. CASE s \notin v /\ ~Allocated(d.segs[s].bits, d.unit)
  <2>1. Matched(d, v, s, o) = [val |-> F, asked |-> o.asked]
    BY <1>3 DEF Matched
  <2>2. Matched(e1, v, s, o1) = [val |-> F, asked |-> o1.asked]
    BY <1>3 DEF Matched, Kin
  <2>3. Matched(e2, v, s, o2) = [val |-> F, asked |-> o2.asked]
    BY <1>3 DEF Matched, Kin
  <2> QED BY <2>1, <2>2, <2>3
<1> QED BY <1>1, <1>2, <1>3

LEMMA EvaluatePair ==
  ASSUME NEW d, NEW e1, NEW e2, Kin(d, e1), Kin(d, e2), Table(d.segs), NEW K, Agree(K, e1, e2), Recognizing
  PROVE  \A v \in SUBSET DOMAIN d.segs, x \in Exprs :
           /\ Pair(Evaluate(d, v, x), Evaluate(e1, v, x))
           /\ Pair(Evaluate(d, v, x), Evaluate(e2, v, x))
           /\ Evaluate(d, v, x).asked \subseteq K => Evaluate(e1, v, x) = Evaluate(e2, v, x)
<1> DEFINE Fine(v, x) ==
             /\ Pair(Evaluate(d, v, x), Evaluate(e1, v, x))
             /\ Pair(Evaluate(d, v, x), Evaluate(e2, v, x))
             /\ Evaluate(d, v, x).asked \subseteq K => Evaluate(e1, v, x) = Evaluate(e2, v, x)
           Holds == {c \in Calls(d.segs) : Fine(c[1], c[2])}
<1>1. ASSUME NEW c \in Calls(d.segs), Follows(d.segs, c) \subseteq Holds PROVE Fine(c[1], c[2])
  <2> DEFINE v == c[1]
             x == c[2]
  <2>1. /\ v \in SUBSET DOMAIN d.segs /\ x \in Exprs
        /\ \/ x \in Refs /\ x.op \in {"attribute", "segment", "materialized"}
           \/ x.op = "not" /\ DOMAIN x.args = 1 .. 1 /\ x.args[1] \in Exprs
           \/ x.op \in {"and", "or"} /\ x.args \in Seq(Exprs)
    BY CallShape
  <2>2. \A b \in Follows(d.segs, c) : Fine(b[1], b[2])
    BY <1>1
  <2>3. d.segs = e1.segs /\ d.segs = e2.segs
    BY DEF Kin
  <2> HIDE DEF v, x
  <2>c. ASSUME NEW env \in {d, e1, e2}
        PROVE  /\ x.op = "attribute" => Evaluate(env, v, x) = Value(x.val)
               /\ x.op = "materialized" => Evaluate(env, v, x) = MaterializedMatch(env, x.mat)
               /\ x.op = "segment" =>
                    /\ x.seg \notin DOMAIN d.segs \/ x.seg \in v => Evaluate(env, v, x) = Value(F)
                    /\ x.seg \in DOMAIN d.segs /\ x.seg \notin v =>
                         Evaluate(env, v, x) =
                           Matched(env, v, x.seg, Evaluate(env, v \cup {x.seg}, d.segs[x.seg].expr))
               /\ x.op = "not" => Evaluate(env, v, x) = [Evaluate(env, v, x.args[1]) EXCEPT !.val = Negate(@)]
               /\ x.op = "and" => Evaluate(env, v, x) = Combine([i \in DOMAIN x.args |-> Evaluate(env, v, x.args[i])], F)
               /\ x.op = "or" => Evaluate(env, v, x) = Combine([i \in DOMAIN x.args |-> Evaluate(env, v, x.args[i])], T)
    <3>1. env.segs = d.segs
      BY <2>3
    <3>2. Table(env.segs) /\ v \in SUBSET DOMAIN env.segs /\ x \in Exprs
      BY <2>1, <3>1
    <3> QED BY <3>1, <3>2, EvaluateCases
  <2>4. CASE x.op = "attribute"
    <3>1. Evaluate(d, v, x) = Value(x.val) /\ Evaluate(e1, v, x) = Value(x.val) /\ Evaluate(e2, v, x) = Value(x.val)
      BY <2>4, <2>c
    <3>2. x.val \in {T, F}
      BY <2>1, <2>4 DEF Recognizing
    <3> QED BY <3>1, <3>2 DEF Pair, IsOut, Value, v, x
  <2>5. CASE x.op = "materialized"
    <3>1. /\ Evaluate(d, v, x) = MaterializedMatch(d, x.mat)
          /\ Evaluate(e1, v, x) = MaterializedMatch(e1, x.mat)
          /\ Evaluate(e2, v, x) = MaterializedMatch(e2, x.mat)
      BY <2>5, <2>c
    <3> QED BY <3>1, MaterializedPair DEF v, x
  <2>6. CASE x.op = "segment"
    <3>1. CASE x.seg \notin DOMAIN d.segs \/ x.seg \in v
      <4>1. Evaluate(d, v, x) = Value(F) /\ Evaluate(e1, v, x) = Value(F) /\ Evaluate(e2, v, x) = Value(F)
        BY <2>6, <3>1, <2>c
      <4> QED BY <4>1 DEF Pair, IsOut, Value, v, x
    <3>2. CASE x.seg \in DOMAIN d.segs /\ x.seg \notin v
      <4> DEFINE w == v \cup {x.seg}
                 y == d.segs[x.seg].expr
      <4>1. <<w, y>> \in Follows(d.segs, c)
        BY <2>6, <3>2 DEF Follows, v, x
      <4>2. Fine(w, y)
        <5>1. Fine(<<w, y>>[1], <<w, y>>[2])
          <6> HIDE DEF Fine, w, y
          <6> QED BY <4>1, <2>2
        <5> QED BY <5>1
      <4>3. /\ Evaluate(d, v, x) = Matched(d, v, x.seg, Evaluate(d, w, y))
            /\ Evaluate(e1, v, x) = Matched(e1, v, x.seg, Evaluate(e1, w, y))
            /\ Evaluate(e2, v, x) = Matched(e2, v, x.seg, Evaluate(e2, w, y))
        BY <2>6, <3>2, <2>c
      <4> HIDE DEF w, y
      <4> QED BY <4>2, <4>3, MatchedPair DEF v, x
    <3> QED BY <3>1, <3>2
  <2>7. CASE x.op = "not"
    <3>1. <<v, x.args[1]>> \in Follows(d.segs, c)
      BY <2>1, <2>7 DEF Follows, v, x
    <3>2. Fine(v, x.args[1])
      <4>1. Fine(<<v, x.args[1]>>[1], <<v, x.args[1]>>[2])
        <5> HIDE DEF Fine
        <5> QED BY <3>1, <2>2
      <4> QED BY <4>1
    <3>3. /\ Evaluate(d, v, x) = [Evaluate(d, v, x.args[1]) EXCEPT !.val = Negate(@)]
          /\ Evaluate(e1, v, x) = [Evaluate(e1, v, x.args[1]) EXCEPT !.val = Negate(@)]
          /\ Evaluate(e2, v, x) = [Evaluate(e2, v, x.args[1]) EXCEPT !.val = Negate(@)]
      BY <2>7, <2>c
    <3>4. \A o, p : Pair(o, p) => /\ Pair([o EXCEPT !.val = Negate(@)], [p EXCEPT !.val = Negate(@)])
                                  /\ [o EXCEPT !.val = Negate(@)].asked = o.asked
      BY DEF Pair, IsOut, Negate, T, F, U
    <3> QED BY <3>2, <3>3, <3>4 DEF v, x
  <2>8. ASSUME NEW dec \in {T, F}, x.op = IF dec = F THEN "and" ELSE "or" PROVE Fine(v, x)
    <3> DEFINE ds == [i \in DOMAIN x.args |-> Evaluate(d, v, x.args[i])]
               cs == [i \in DOMAIN x.args |-> Evaluate(e1, v, x.args[i])]
               es == [i \in DOMAIN x.args |-> Evaluate(e2, v, x.args[i])]
               n  == Len(x.args)
    <3>0. x.op \in {"and", "or"}
      BY <2>8
    <3>1. n \in Nat /\ DOMAIN x.args = 1 .. n
      BY <2>1, <3>0
    <3>2. Tuple(n, ds) /\ Tuple(n, cs) /\ Tuple(n, es)
      BY <3>1 DEF Tuple
    <3>3. \A i \in 1 .. n : Fine(v, x.args[i])
      <4> SUFFICES ASSUME NEW i \in 1 .. n PROVE Fine(v, x.args[i])
        OBVIOUS
      <4>1. <<v, x.args[i]>> \in Follows(d.segs, c)
        BY <3>0, <3>1 DEF Follows, v, x
      <4>2. Fine(<<v, x.args[i]>>[1], <<v, x.args[i]>>[2])
        <5> HIDE DEF Fine
        <5> QED BY <4>1, <2>2
      <4> QED BY <4>2
    <3>4. \A i \in 1 .. n : /\ Pair(ds[i], cs[i]) /\ Pair(ds[i], es[i])
                            /\ ds[i].asked \subseteq K => cs[i] = es[i]
      BY <3>1, <3>3
    <3>5. /\ Evaluate(d, v, x) = Combine(ds, dec)
          /\ Evaluate(e1, v, x) = Combine(cs, dec)
          /\ Evaluate(e2, v, x) = Combine(es, dec)
      <4>1. CASE dec = F
        BY <4>1, <2>8, <2>c
      <4>2. CASE dec = T
        <5>1. dec # F
          BY <4>2 DEF T, F
        <5> QED BY <4>2, <5>1, <2>8, <2>c
      <4> QED BY <4>1, <4>2
    <3> HIDE DEF ds, cs, es, n
    <3>6. Pair(Combine(ds, dec), Combine(cs, dec)) /\ Pair(Combine(ds, dec), Combine(es, dec))
      BY <3>1, <3>2, <3>4, CombinePair
    <3>4a. OperandsAlike(n, ds, cs, es, K)
      BY <3>4 DEF OperandsAlike
    <3>7. Within(Combine(ds, dec), K) => Combine(cs, dec) = Combine(es, dec)
      BY <3>1, <3>2, <3>4a, CombineAgree
    <3> QED BY <3>5, <3>6, <3>7 DEF Within
  <2>9. CASE x.op \in {"and", "or"}
    <3>1. PICK dec \in {T, F} : x.op = IF dec = F THEN "and" ELSE "or"
      BY <2>9 DEF T, F
    <3> HIDE DEF Fine
    <3>2. Fine(v, x)
      BY <3>1, <2>8
    <3> QED BY <3>2 DEF v, x
  <2> QED BY <2>1, <2>4, <2>5, <2>6, <2>7, <2>9
<1>2. Calls(d.segs) \subseteq Holds
  <2>1. \A c \in Calls(d.segs) : Follows(d.segs, c) \subseteq Holds => c \in Holds
    BY <1>1
  <2> HIDE DEF Holds
  <2> QED BY <2>1, CallInduction
<1>3. \A v \in SUBSET DOMAIN d.segs, x \in Exprs : Fine(v, x)
  <2> SUFFICES ASSUME NEW v \in SUBSET DOMAIN d.segs, NEW x \in Exprs PROVE Fine(v, x)
    OBVIOUS
  <2>1. <<v, x>> \in Holds
    <3> HIDE DEF Holds
    <3> QED BY <1>2 DEF Calls
  <2>2. Fine(<<v, x>>[1], <<v, x>>[2])
    <3> HIDE DEF Fine
    <3> QED BY <2>1
  <2> QED BY <2>2
<1> QED BY <1>3

-----------------------------------------------------------------------------
(* The laws of segment matching.                                           *)

LEMMA KleeneFollows ==
  ASSUME NEW c \in Calls(segs), NEW f, NEW g, \A d \in Follows(segs, c) : f[d] = g[d]
  PROVE  KleeneOne(f, c[1], c[2]) = KleeneOne(g, c[1], c[2])
<1>1. CASE c[2].op \in {"attribute", "materialized"}
  BY <1>1 DEF KleeneOne
<1>2. CASE c[2].op = "segment"
  <2>1. CASE c[2].seg \in DOMAIN segs /\ c[2].seg \notin c[1]
    <3>1. <<c[1] \cup {c[2].seg}, segs[c[2].seg].expr>> \in Follows(segs, c)
      BY <1>2, <2>1 DEF Follows
    <3> QED BY <1>2, <3>1 DEF KleeneOne
  <2>2. CASE c[2].seg \notin DOMAIN segs \/ c[2].seg \in c[1]
    BY <1>2, <2>2 DEF KleeneOne
  <2> QED BY <2>1, <2>2
<1>3. CASE c[2].op \in {"not", "and", "or"}
  <2>1. \A i \in DOMAIN c[2].args : f[<<c[1], c[2].args[i]>>] = g[<<c[1], c[2].args[i]>>]
    BY <1>3 DEF Follows
  <2>2. {f[<<c[1], c[2].args[i]>>] : i \in DOMAIN c[2].args} = {g[<<c[1], c[2].args[i]>>] : i \in DOMAIN c[2].args}
    BY <2>1
  <2>3. CASE c[2].op = "not"
    <3>1. 1 \in DOMAIN c[2].args
      BY <2>3, CallShape
    <3> QED BY <2>1, <2>3, <3>1 DEF KleeneOne
  <2>4. CASE c[2].op \in {"and", "or"}
    BY <2>2, <2>4 DEF KleeneOne
  <2> QED BY <1>3, <2>3, <2>4
<1> QED BY <1>1, <1>2, <1>3, CallShape

LEMMA KleeneExists ==
  ASSUME Table(segs)
  PROVE  \E f : f = [c \in Calls(segs) |-> KleeneOne(f, c[1], c[2])]
<1> DEFINE Good == {D \in SUBSET Calls(segs) : \E f : f = [c \in D |-> KleeneOne(f, c[1], c[2])]}
<1>1. {} \in Good
  <2> DEFINE f == [c \in {} |-> c]
  <2>1. f = [c \in {} |-> KleeneOne(f, c[1], c[2])]
    OBVIOUS
  <2> QED BY <2>1
<1>2. ASSUME NEW D \in Good, NEW E \in SUBSET Calls(segs), D \subseteq E,
             \A c \in E : Follows(segs, c) \subseteq D
      PROVE  E \in Good
  <2>1. PICK f : f = [c \in D |-> KleeneOne(f, c[1], c[2])]
    OBVIOUS
  <2> DEFINE g == [c \in E |-> KleeneOne(f, c[1], c[2])]
  <2>2. \A d \in D : g[d] = f[d]
    BY <2>1, <1>2
  <2>3. ASSUME NEW c \in E PROVE KleeneOne(f, c[1], c[2]) = KleeneOne(g, c[1], c[2])
    <3>1. \A d \in Follows(segs, c) : f[d] = g[d]
      <4> HIDE DEF g
      <4> QED BY <2>2, <1>2
    <3>2. c \in Calls(segs)
      OBVIOUS
    <3> HIDE DEF g
    <3> QED BY <3>1, <3>2, KleeneFollows
  <2>4. g = [c \in E |-> KleeneOne(g, c[1], c[2])]
    <3>1. g = [c \in E |-> KleeneOne(f, c[1], c[2])]
      OBVIOUS
    <3> HIDE DEF g
    <3> QED BY <3>1, <2>3
  <2> HIDE DEF g
  <2> QED BY <2>4
<1>3. Calls(segs) \in Good
  <2> HIDE DEF Good
  <2> QED BY <1>1, <1>2, CallsGrow
<1> QED BY <1>3

LEMMA KleeneIs ==
  ASSUME Table(segs)
  PROVE  \E k : /\ k = [c \in Calls(segs) |-> KleeneOne(k, c[1], c[2])]
                /\ \A v, e : Kleene(v, e) = k[<<v, e>>]
<1> DEFINE value == CHOOSE f : f = [c \in (SUBSET DOMAIN segs) \X Exprs |-> KleeneOne(f, c[1], c[2])]
<1>1. value = [c \in Calls(segs) |-> KleeneOne(value, c[1], c[2])]
  BY KleeneExists DEF Calls
<1>2. \A v, e : Kleene(v, e) = value[<<v, e>>]
  BY DEF Kleene
<1> HIDE DEF value
<1> QED BY <1>1, <1>2

\* And and or, in whatever order the operands come.
Values(n, ds, vals) ==
  /\ \A i \in 1 .. n : ds[i].val \in vals /\ ds[i].val \in {T, F, U}
  /\ \A w \in vals : \E i \in 1 .. n : ds[i].val = w

LEMMA CombineKleene ==
  ASSUME NEW n \in Nat, NEW ds, Tuple(n, ds), NEW decisive \in {T, F}, NEW vals, Values(n, ds, vals)
  PROVE  Combine(ds, decisive).val =
           IF decisive \in vals THEN decisive ELSE IF U \in vals THEN U ELSE Negate(decisive)
<1>0. {T, F, U} \cap Errors = {} /\ T # U /\ F # U
  BY DEF T, F, U, Errors, Unrecognized, Unsupported
<1>1. PICK p \in 0 .. n :
        /\ Combine(ds, decisive) =
             [val   |-> IF p > 0 /\ ds[p].val \in {decisive} \cup Errors THEN ds[p].val
                        ELSE IF \E i \in 1 .. p : ds[i].val = U THEN U ELSE Negate(decisive),
              asked |-> UNION {ds[i].asked : i \in 1 .. p}]
        /\ \/ p > 0 /\ ds[p].val \in {decisive} \cup Errors
           \/ p = n /\ \A i \in 1 .. n : ds[i].val \notin {decisive} \cup Errors
        /\ \A i \in 1 .. n : i < p => ds[i].val \notin {decisive} \cup Errors
  BY CombineIs
<1>2. Combine(ds, decisive).val =
        IF p > 0 /\ ds[p].val \in {decisive} \cup Errors THEN ds[p].val
        ELSE IF \E i \in 1 .. p : ds[i].val = U THEN U ELSE Negate(decisive)
  BY <1>1
<1>3. /\ \A i \in 1 .. n : ds[i].val \in vals /\ ds[i].val \in {T, F, U}
      /\ \A w \in vals : \E i \in 1 .. n : ds[i].val = w
  BY DEF Values
<1>4. CASE p > 0 /\ ds[p].val \in {decisive} \cup Errors
  <2>1. p \in 1 .. n
    BY <1>4
  <2>2. ds[p].val \in vals /\ ds[p].val \notin Errors
    BY <2>1, <1>0, <1>3
  <2>3. ds[p].val = decisive /\ decisive \in vals
    BY <2>2, <1>4
  <2> QED BY <1>2, <1>4, <2>3
<1>5. CASE p = n /\ \A i \in 1 .. n : ds[i].val \notin {decisive} \cup Errors
  <2>1. decisive \notin vals
    BY <1>3, <1>5
  <2>2. (\E i \in 1 .. p : ds[i].val = U) <=> U \in vals
    BY <1>3, <1>5
  <2>3. ~(p > 0 /\ ds[p].val \in {decisive} \cup Errors)
    BY <1>5
  <2> QED BY <1>2, <2>1, <2>2, <2>3
<1> QED BY <1>1, <1>4, <1>5

Searching(d) == d.segs = segs /\ d.blooms = Blooms /\ d.unit = unit /\ d.ctx.mode = "discovery"

LEMMA DiscoveryKleene ==
  ASSUME Table(segs), NEW d, Searching(d), Recognizing
  PROVE  \A v \in SUBSET DOMAIN segs, x \in Exprs :
           Evaluate(d, v, x).val = Kleene(v, x) /\ Evaluate(d, v, x).val \in {T, F, U}
<1> DEFINE Fine(v, x) == /\ IsOut(Evaluate(d, v, x)) /\ Evaluate(d, v, x).val = Kleene(v, x)
                         /\ Evaluate(d, v, x).val \in {T, F, U}
           Holds == {c \in Calls(segs) : Fine(c[1], c[2])}
<1>0. PICK k : /\ k = [c \in Calls(segs) |-> KleeneOne(k, c[1], c[2])]
               /\ \A v, e : Kleene(v, e) = k[<<v, e>>]
  BY KleeneIs
<1>1. ASSUME NEW c \in Calls(segs), Follows(segs, c) \subseteq Holds PROVE Fine(c[1], c[2])
  <2> DEFINE v == c[1]
             x == c[2]
  <2>1. /\ v \in SUBSET DOMAIN segs /\ x \in Exprs /\ c = <<v, x>>
        /\ \/ x \in Refs /\ x.op \in {"attribute", "segment", "materialized"}
           \/ x.op = "not" /\ DOMAIN x.args = 1 .. 1 /\ x.args[1] \in Exprs
           \/ x.op \in {"and", "or"} /\ x.args \in Seq(Exprs)
    BY CallShape
  <2>2. \A b \in Follows(segs, c) : Fine(b[1], b[2])
    BY <1>1
  <2>3. Kleene(v, x) = KleeneOne(k, v, x)
    <3>1. k[c] = KleeneOne(k, c[1], c[2])
      BY <1>0
    <3> QED BY <3>1, <1>0, <2>1
  <2> HIDE DEF v, x
  <2>c. ASSUME NEW env \in {d}
        PROVE  /\ x.op = "attribute" => Evaluate(env, v, x) = Value(x.val)
               /\ x.op = "materialized" => Evaluate(env, v, x) = MaterializedMatch(env, x.mat)
               /\ x.op = "segment" =>
                    /\ x.seg \notin DOMAIN segs \/ x.seg \in v => Evaluate(env, v, x) = Value(F)
                    /\ x.seg \in DOMAIN segs /\ x.seg \notin v =>
                         Evaluate(env, v, x) =
                           Matched(env, v, x.seg, Evaluate(env, v \cup {x.seg}, segs[x.seg].expr))
               /\ x.op = "not" => Evaluate(env, v, x) = [Evaluate(env, v, x.args[1]) EXCEPT !.val = Negate(@)]
               /\ x.op = "and" => Evaluate(env, v, x) = Combine([i \in DOMAIN x.args |-> Evaluate(env, v, x.args[i])], F)
               /\ x.op = "or" => Evaluate(env, v, x) = Combine([i \in DOMAIN x.args |-> Evaluate(env, v, x.args[i])], T)
    <3>1. env.segs = segs
      BY DEF Searching
    <3>2. Table(env.segs) /\ v \in SUBSET DOMAIN env.segs /\ x \in Exprs
      BY <2>1, <3>1
    <3>3. /\ x.op = "attribute" => Evaluate(env, v, x) = Value(x.val)
          /\ x.op = "materialized" => Evaluate(env, v, x) = MaterializedMatch(env, x.mat)
          /\ x.op = "segment" =>
               /\ x.seg \notin DOMAIN env.segs \/ x.seg \in v => Evaluate(env, v, x) = Value(F)
               /\ x.seg \in DOMAIN env.segs /\ x.seg \notin v =>
                    Evaluate(env, v, x) =
                      Matched(env, v, x.seg, Evaluate(env, v \cup {x.seg}, env.segs[x.seg].expr))
          /\ x.op = "not" => Evaluate(env, v, x) = [Evaluate(env, v, x.args[1]) EXCEPT !.val = Negate(@)]
          /\ x.op = "and" => Evaluate(env, v, x) = Combine([i \in DOMAIN x.args |-> Evaluate(env, v, x.args[i])], F)
          /\ x.op = "or" => Evaluate(env, v, x) = Combine([i \in DOMAIN x.args |-> Evaluate(env, v, x.args[i])], T)
      BY <3>2, EvaluateCases, SMTT(30)
    <3> QED BY <3>1, <3>3
  <2>4. CASE x.op = "attribute"
    <3>1. Evaluate(d, v, x) = Value(x.val) /\ x.val \in {T, F}
      BY <2>1, <2>4, <2>c DEF Recognizing
    <3>2. Kleene(v, x) = x.val
      BY <2>3, <2>4 DEF KleeneOne
    <3> QED BY <3>1, <3>2 DEF IsOut, Value, v, x
  <2>5. CASE x.op = "materialized"
    <3>1. Evaluate(d, v, x) = MaterializedMatch(d, x.mat)
      BY <2>5, <2>c
    <3>2. Kleene(v, x) = IF unit = NoUnit THEN F
                         ELSE IF x.mat \notin DOMAIN Blooms THEN U
                         ELSE IF unit \in Blooms[x.mat] THEN T ELSE F
      BY <2>3, <2>5 DEF KleeneOne
    <3> QED BY <3>1, <3>2 DEF MaterializedMatch, Inclusion, Lookup, IsOut, Value, Searching, v, x
  <2>6. CASE x.op = "segment"
    <3>1. CASE x.seg \notin DOMAIN segs \/ x.seg \in v
      <4>1. Evaluate(d, v, x) = Value(F)
        BY <2>6, <3>1, <2>c
      <4>2. Kleene(v, x) = F
        BY <2>3, <2>6, <3>1 DEF KleeneOne
      <4> QED BY <4>1, <4>2 DEF IsOut, Value, v, x
    <3>2. CASE x.seg \in DOMAIN segs /\ x.seg \notin v
      <4> DEFINE w == v \cup {x.seg}
                 y == segs[x.seg].expr
      <4>1. <<w, y>> \in Follows(segs, c)
        BY <2>6, <3>2 DEF Follows, v, x
      <4>2. Fine(w, y)
        <5>1. Fine(<<w, y>>[1], <<w, y>>[2])
          <6> HIDE DEF Fine, w, y
          <6> QED BY <4>1, <2>2
        <5> QED BY <5>1
      <4>3. Evaluate(d, v, x) = Matched(d, v, x.seg, Evaluate(d, w, y))
        BY <2>6, <3>2, <2>c
      <4>4. Kleene(v, x) = IF ~Allocated(segs[x.seg].bits, unit) THEN F ELSE Kleene(w, y)
        BY <2>3, <2>6, <3>2, <1>0 DEF KleeneOne
      <4> HIDE DEF w, y
      <4> QED BY <4>2, <4>3, <4>4, <3>2 DEF Matched, IsOut, Searching, T, F, U, v, x
    <3> QED BY <3>1, <3>2
  <2>7. CASE x.op = "not"
    <3>1. <<v, x.args[1]>> \in Follows(segs, c)
      BY <2>1, <2>7 DEF Follows, v, x
    <3>2. Fine(v, x.args[1])
      <4>1. Fine(<<v, x.args[1]>>[1], <<v, x.args[1]>>[2])
        <5> HIDE DEF Fine
        <5> QED BY <3>1, <2>2
      <4> QED BY <4>1
    <3>3. Evaluate(d, v, x) = [Evaluate(d, v, x.args[1]) EXCEPT !.val = Negate(@)]
      BY <2>7, <2>c
    <3>4. Kleene(v, x) = Negate(Kleene(v, x.args[1]))
      BY <2>3, <2>7, <1>0 DEF KleeneOne
    <3>5. \A o : IsOut(o) => /\ IsOut([o EXCEPT !.val = Negate(@)])
                             /\ [o EXCEPT !.val = Negate(@)].val = Negate(o.val)
      BY DEF IsOut
    <3> QED BY <3>2, <3>3, <3>4, <3>5 DEF Negate, T, F, U, v, x
  <2>8. ASSUME NEW dec \in {T, F}, x.op = IF dec = F THEN "and" ELSE "or" PROVE Fine(v, x)
    <3> DEFINE ds == [i \in DOMAIN x.args |-> Evaluate(d, v, x.args[i])]
               vals == {k[<<v, x.args[i]>>] : i \in DOMAIN x.args}
               n  == Len(x.args)
    <3>0. x.op \in {"and", "or"} /\ T # F
      BY <2>8 DEF T, F
    <3>1. n \in Nat /\ DOMAIN x.args = 1 .. n
      BY <2>1, <3>0
    <3>2. Tuple(n, ds)
      BY <3>1 DEF Tuple
    <3>3. \A i \in 1 .. n : Fine(v, x.args[i])
      <4> SUFFICES ASSUME NEW i \in 1 .. n PROVE Fine(v, x.args[i])
        OBVIOUS
      <4>1. <<v, x.args[i]>> \in Follows(segs, c)
        BY <3>0, <3>1 DEF Follows, v, x
      <4>2. Fine(<<v, x.args[i]>>[1], <<v, x.args[i]>>[2])
        <5> HIDE DEF Fine
        <5> QED BY <4>1, <2>2
      <4> QED BY <4>2
    <3>4. \A i \in 1 .. n : ds[i].val = k[<<v, x.args[i]>>] /\ ds[i].val \in {T, F, U}
      BY <3>1, <3>3, <1>0
    <3>5. Values(n, ds, vals)
      <4>1. \A w \in vals : \E i \in 1 .. n : w = k[<<v, x.args[i]>>]
        BY <3>1
      <4>2. \A i \in 1 .. n : k[<<v, x.args[i]>>] \in vals
        BY <3>1
      <4>3. \A w \in vals : \E i \in 1 .. n : ds[i].val = w
        <5> SUFFICES ASSUME NEW w \in vals PROVE \E i \in 1 .. n : ds[i].val = w
          OBVIOUS
        <5>1. PICK i \in 1 .. n : w = k[<<v, x.args[i]>>]
          BY <4>1
        <5>2. ds[i].val = w
          <6> HIDE DEF ds, vals, n
          <6> QED BY <5>1, <3>4
        <5> HIDE DEF ds, vals, n
        <5> QED BY <5>2
      <4>4. \A i \in 1 .. n : ds[i].val \in vals
        <5> HIDE DEF ds, vals, n
        <5> QED BY <4>2, <3>4
      <4> HIDE DEF ds, vals, n, Fine
      <4> QED BY <4>3, <4>4, <3>4 DEF Values
    <3>6. Evaluate(d, v, x) = Combine(ds, dec)
      <4>1. CASE dec = F
        BY <4>1, <2>8, <2>c
      <4>2. CASE dec = T
        BY <4>2, <3>0, <2>8, <2>c
      <4> QED BY <4>1, <4>2
    <3>7. Kleene(v, x) = IF dec \in vals THEN dec ELSE IF U \in vals THEN U ELSE Negate(dec)
      <4>1. CASE dec = F
        BY <4>1, <2>3, <2>8, <3>0 DEF KleeneOne, Negate
      <4>2. CASE dec = T
        BY <4>2, <2>3, <2>8, <3>0 DEF KleeneOne, Negate
      <4> QED BY <4>1, <4>2
    <3>8. IsOut(Combine(ds, dec))
      BY SMTT(30) DEF Combine, IsOut
    <3> HIDE DEF ds, vals, n
    <3>9. Combine(ds, dec).val = IF dec \in vals THEN dec ELSE IF U \in vals THEN U ELSE Negate(dec)
      BY <3>1, <3>2, <3>5, CombineKleene
    <3> QED BY <3>6, <3>7, <3>8, <3>9 DEF Negate
  <2>9. CASE x.op \in {"and", "or"}
    <3>1. PICK dec \in {T, F} : x.op = IF dec = F THEN "and" ELSE "or"
      BY <2>9 DEF T, F
    <3> HIDE DEF Fine
    <3>2. Fine(v, x)
      BY <3>1, <2>8
    <3> QED BY <3>2 DEF v, x
  <2> QED BY <2>1, <2>4, <2>5, <2>6, <2>7, <2>9
<1>2. Calls(segs) \subseteq Holds
  <2>1. \A c \in Calls(segs) : Follows(segs, c) \subseteq Holds => c \in Holds
    BY <1>1
  <2> HIDE DEF Holds
  <2> QED BY <2>1, CallInduction
<1>3. \A v \in SUBSET DOMAIN segs, x \in Exprs : Fine(v, x)
  <2> SUFFICES ASSUME NEW v \in SUBSET DOMAIN segs, NEW x \in Exprs PROVE Fine(v, x)
    OBVIOUS
  <2>1. <<v, x>> \in Holds
    <3> HIDE DEF Holds
    <3> QED BY <1>2 DEF Calls
  <2>2. Fine(<<v, x>>[1], <<v, x>>[2])
    <3> HIDE DEF Fine
    <3> QED BY <2>1
  <2> QED BY <2>2
<1> QED BY <1>3

TypedSegments == Table(segs) /\ "s1" \in DOMAIN segs

LEMMA LawsTyped == TargetingInit => TypedSegments
<1> SUFFICES ASSUME TargetingInit PROVE TypedSegments
  OBVIOUS
<1>1. DOMAIN segs = {"s1", "s2"}
  BY DEF TargetingInit
<1>2. IsFiniteSet({"s1", "s2"})
  <2>1. IsFiniteSet({"s1"}) /\ IsFiniteSet({"s2"})
    BY FS_Singleton
  <2>2. IsFiniteSet({"s1"} \cup {"s2"})
    BY <2>1, FS_Union
  <2>3. {"s1"} \cup {"s2"} = {"s1", "s2"}
    OBVIOUS
  <2> QED BY <2>2, <2>3
<1>3. \A s \in DOMAIN segs : segs[s].expr \in Exprs /\ segs[s].bits \in {"none", "all", "in", "out"}
  BY SegmentsAssumption DEF TargetingInit
<1> QED BY <1>1, <1>2, <1>3 DEF TypedSegments, Table

LEMMA LawsStep == TypedSegments /\ [TargetingNext]_targetingVars => TypedSegments'
BY DEF TypedSegments, Table, TargetingNext, Include, targetingVars

LEMMA LawsHold == TypedSegments => TargetingSound
<1> SUFFICES ASSUME TypedSegments PROVE TargetingSound
  OBVIOUS
<1> DEFINE d == Env("discovery", {})
           x == segs["s1"].expr
           ref == [op |-> "segment", seg |-> "s1"]
<1>0. Recognizing
  BY SegmentsAssumption DEF Recognizing
<1>1. Table(segs) /\ x \in Exprs /\ {"s1"} \in SUBSET DOMAIN segs /\ {} \in SUBSET DOMAIN segs
  BY DEF TypedSegments, Table
<1>2. ref \in Exprs
  <2>1. 0 \in 0 .. MaxDepth /\ MaxDepth \in 0 .. MaxDepth /\ 0 \in 0 .. MaxDepth
    BY TargetingAssumption
  <2>2. Nested[0] = Refs
    BY <2>1, NestedIs DEF Level
  <2>3. Nested[0] \subseteq Nested[MaxDepth]
    BY <2>1, NestedGrows
  <2> QED BY <2>2, <2>3, SegmentsAssumption DEF Exprs
<1>3. d.segs = segs /\ d.blooms = Blooms /\ d.unit = unit /\ d.ctx.mode = "discovery"
  BY DEF Env
<1>4. \A records : SegmentMatch(Env("complete", records), {}, "s1")
                     = Matched(Env("complete", records), {}, "s1", Evaluate(Env("complete", records), {"s1"}, x))
  BY DEF SegmentMatch, TargetingMatch, Env
<1>5. Discovered = Matched(d, {}, "s1", Evaluate(d, {"s1"}, x))
  BY DEF Discovered, SegmentMatch, TargetingMatch, Env
<1>6. MatchesKleene
  <2> DEFINE none == {}
  <2>1. Evaluate(d, {}, ref) = Matched(d, {}, "s1", Evaluate(d, {"s1"}, x))
    <3>1. Table(d.segs) /\ {} \in SUBSET DOMAIN d.segs /\ "s1" \in DOMAIN d.segs
      BY <1>1, <1>3
    <3>2. none \in SUBSET DOMAIN d.segs /\ none \cup {"s1"} = {"s1"}
      OBVIOUS
    <3>3. ref.op = "segment" /\ ref.seg = "s1" /\ ref.seg \notin none /\ ref.seg \in DOMAIN d.segs
      BY <3>1
    <3>4. d.segs["s1"].expr = x
      BY <1>3
    <3> HIDE DEF d, ref, x, none
    <3>5. Evaluate(d, none, ref)
            = Matched(d, none, ref.seg, Evaluate(d, none \cup {ref.seg}, d.segs[ref.seg].expr))
      BY <1>2, <3>1, <3>2, <3>3, EvaluateCases
    <3> QED BY <3>2, <3>3, <3>4, <3>5 DEF none
  <2>2. Evaluate(d, {}, ref).val = Kleene({}, ref)
    <3>1. Searching(d)
      BY <1>3 DEF Searching
    <3> HIDE DEF d, ref
    <3> QED BY <1>0, <1>1, <1>2, <3>1, DiscoveryKleene
  <2> QED BY <2>1, <2>2, <1>5 DEF MatchesKleene
<1>7. DiscoverySound
  <2> DEFINE found == Discovered
             rest == {r \in included : Key(r.unit, r.mat, NoRule) \in found.asked}
             e1 == Env("complete", included)
             e2 == Env("complete", rest)
             K == found.asked
  <2>1. Kin(d, e1) /\ Kin(d, e2)
    BY DEF Kin, Env
  <2>2. Agree(K, e1, e2)
    BY DEF Agree, Included, Env
  <2>3. /\ Settled(included) = Matched(e1, {}, "s1", Evaluate(e1, {"s1"}, x))
        /\ Settled(rest) = Matched(e2, {}, "s1", Evaluate(e2, {"s1"}, x))
    <3> HIDE DEF rest, x
    <3> QED BY <1>4 DEF Settled
  <2> HIDE DEF found, e1, e2, d, x, rest
  <2>4. /\ Pair(Evaluate(d, {"s1"}, x), Evaluate(e1, {"s1"}, x))
        /\ Pair(Evaluate(d, {"s1"}, x), Evaluate(e2, {"s1"}, x))
        /\ Evaluate(d, {"s1"}, x).asked \subseteq K => Evaluate(e1, {"s1"}, x) = Evaluate(e2, {"s1"}, x)
    BY <1>0, <1>1, <1>3, <2>1, <2>2, EvaluatePair
  <2>5. /\ Pair(found, Settled(included)) /\ Pair(found, Settled(rest))
        /\ found.asked \subseteq K => Settled(included) = Settled(rest)
    BY <1>5, <2>1, <2>3, <2>4, MatchedPair DEF found
  <2>6. Settled(rest) = Settled(included)
    BY <2>5
  <2> QED BY <2>5, <2>6 DEF DiscoverySound, Pair, found, rest, T, F, U
<1> QED BY <1>6, <1>7 DEF TargetingSound

(* Segment matching computes Kleene's value, whatever the segments, their  *)
(* references and the depth of their expressions (segment_match_internal,  *)
(* evaluate_expression); and one round of discovering materializations is  *)
(* enough.                                                                 *)
THEOREM TargetingCorrect == TargetingSpec => []TargetingSound
<1>1. TargetingSpec => []TypedSegments
  BY LawsTyped, LawsStep, PTL DEF TargetingSpec
<1> QED BY <1>1, LawsHold, PTL

-----------------------------------------------------------------------------
(* Resolving: what one rule does to the accumulator.                       *)

Verdicts == {T, F, U} \cup Errors

LEMMA EvaluateVerdict ==
  ASSUME NEW env, Table(env.segs)
  PROVE  \A v \in SUBSET DOMAIN env.segs, x \in Exprs :
           IsOut(Evaluate(env, v, x)) /\ Evaluate(env, v, x).val \in Verdicts
<1> DEFINE Fine(v, x) == IsOut(Evaluate(env, v, x)) /\ Evaluate(env, v, x).val \in Verdicts
           Holds == {c \in Calls(env.segs) : Fine(c[1], c[2])}
<1>0. \A o : IsOut(Value(o)) /\ Value(o).val = o
  BY DEF IsOut, Value
<1>1. ASSUME NEW c \in Calls(env.segs), Follows(env.segs, c) \subseteq Holds PROVE Fine(c[1], c[2])
  <2> DEFINE v == c[1]
             x == c[2]
  <2>1. /\ v \in SUBSET DOMAIN env.segs /\ x \in Exprs
        /\ \/ x \in Refs /\ x.op \in {"attribute", "segment", "materialized"}
           \/ x.op = "not" /\ DOMAIN x.args = 1 .. 1 /\ x.args[1] \in Exprs
           \/ x.op \in {"and", "or"} /\ x.args \in Seq(Exprs)
    BY CallShape
  <2>2. \A b \in Follows(env.segs, c) : Fine(b[1], b[2])
    BY <1>1
  <2> HIDE DEF v, x
  <2>c. /\ x.op = "attribute" => Evaluate(env, v, x) = Value(x.val)
        /\ x.op = "materialized" => Evaluate(env, v, x) = MaterializedMatch(env, x.mat)
        /\ x.op = "segment" =>
             /\ x.seg \notin DOMAIN env.segs \/ x.seg \in v => Evaluate(env, v, x) = Value(F)
             /\ x.seg \in DOMAIN env.segs /\ x.seg \notin v =>
                  Evaluate(env, v, x) =
                    Matched(env, v, x.seg, Evaluate(env, v \cup {x.seg}, env.segs[x.seg].expr))
        /\ x.op = "not" => Evaluate(env, v, x) = [Evaluate(env, v, x.args[1]) EXCEPT !.val = Negate(@)]
        /\ x.op = "and" => Evaluate(env, v, x) = Combine([i \in DOMAIN x.args |-> Evaluate(env, v, x.args[i])], F)
        /\ x.op = "or" => Evaluate(env, v, x) = Combine([i \in DOMAIN x.args |-> Evaluate(env, v, x.args[i])], T)
    <3>1. Table(env.segs) /\ v \in SUBSET DOMAIN env.segs /\ x \in Exprs
      BY <2>1
    <3> QED BY <3>1, EvaluateCases
  <2>4. CASE x.op = "attribute"
    <3>1. Evaluate(env, v, x) = Value(x.val) /\ x.val \in Verdicts
      BY <2>1, <2>4, <2>c, TargetingAssumption DEF Verdicts, Errors
    <3> QED BY <3>1, <1>0 DEF v, x
  <2>5. CASE x.op = "materialized"
    <3>1. Evaluate(env, v, x) = MaterializedMatch(env, x.mat)
      BY <2>5, <2>c
    <3>2. IsOut(MaterializedMatch(env, x.mat)) /\ MaterializedMatch(env, x.mat).val \in Verdicts
      BY DEF MaterializedMatch, Inclusion, Lookup, IsOut, Value, Verdicts, Errors
    <3> QED BY <3>1, <3>2 DEF v, x
  <2>6. CASE x.op = "segment"
    <3>1. CASE x.seg \notin DOMAIN env.segs \/ x.seg \in v
      <4>1. Evaluate(env, v, x) = Value(F)
        BY <2>6, <3>1, <2>c
      <4> QED BY <4>1, <1>0 DEF Verdicts, v, x
    <3>2. CASE x.seg \in DOMAIN env.segs /\ x.seg \notin v
      <4> DEFINE w == v \cup {x.seg}
                 y == env.segs[x.seg].expr
      <4>1. <<w, y>> \in Follows(env.segs, c)
        BY <2>6, <3>2 DEF Follows, v, x
      <4>2. Fine(w, y)
        <5>1. Fine(<<w, y>>[1], <<w, y>>[2])
          <6> HIDE DEF Fine, w, y
          <6> QED BY <4>1, <2>2
        <5> QED BY <5>1
      <4>3. Evaluate(env, v, x) = Matched(env, v, x.seg, Evaluate(env, w, y))
        BY <2>6, <3>2, <2>c
      <4> HIDE DEF w, y
      <4> QED BY <4>2, <4>3, <3>2 DEF Matched, IsOut, Verdicts, v, x
    <3> QED BY <3>1, <3>2
  <2>7. CASE x.op = "not"
    <3>1. <<v, x.args[1]>> \in Follows(env.segs, c)
      BY <2>1, <2>7 DEF Follows, v, x
    <3>2. Fine(v, x.args[1])
      <4>1. Fine(<<v, x.args[1]>>[1], <<v, x.args[1]>>[2])
        <5> HIDE DEF Fine
        <5> QED BY <3>1, <2>2
      <4> QED BY <4>1
    <3>3. Evaluate(env, v, x) = [Evaluate(env, v, x.args[1]) EXCEPT !.val = Negate(@)]
      BY <2>7, <2>c
    <3>4. \A o : IsOut(o) => /\ IsOut([o EXCEPT !.val = Negate(@)])
                             /\ [o EXCEPT !.val = Negate(@)].val = Negate(o.val)
      BY DEF IsOut
    <3>5. \A o \in Verdicts : Negate(o) \in Verdicts
      BY DEF Verdicts, Negate
    <3> QED BY <3>2, <3>3, <3>4, <3>5 DEF v, x
  <2>8. CASE x.op \in {"and", "or"}
    <3>1. PICK dec \in {T, F} :
            Evaluate(env, v, x) = Combine([i \in DOMAIN x.args |-> Evaluate(env, v, x.args[i])], dec)
      BY <2>8, <2>c
    <3>2. \A ds : /\ IsOut(Combine(ds, dec))
                  /\ Combine(ds, dec).val \in {dec, U, Negate(dec)} \cup Errors
      BY DEF Combine, IsOut
    <3>3. {dec, U, Negate(dec)} \cup Errors \subseteq Verdicts
      BY DEF Negate, Verdicts, T, F
    <3>4. /\ IsOut(Evaluate(env, v, x))
          /\ Evaluate(env, v, x).val \in {dec, U, Negate(dec)} \cup Errors
      BY <3>1, <3>2
    <3> QED BY <3>3, <3>4 DEF v, x
  <2> QED BY <2>1, <2>4, <2>5, <2>6, <2>7, <2>8
<1>2. Calls(env.segs) \subseteq Holds
  <2>1. \A c \in Calls(env.segs) : Follows(env.segs, c) \subseteq Holds => c \in Holds
    BY <1>1
  <2> HIDE DEF Holds
  <2> QED BY <2>1, CallInduction
<1>3. \A v \in SUBSET DOMAIN env.segs, x \in Exprs : Fine(v, x)
  <2> SUFFICES ASSUME NEW v \in SUBSET DOMAIN env.segs, NEW x \in Exprs PROVE Fine(v, x)
    OBVIOUS
  <2>1. <<v, x>> \in Holds
    <3> HIDE DEF Holds
    <3> QED BY <1>2 DEF Calls
  <2>2. Fine(<<v, x>>[1], <<v, x>>[2])
    <3> HIDE DEF Fine
    <3> QED BY <2>1
  <2> QED BY <2>2
<1> QED BY <1>3

\* What a resolver state guarantees of a rule.
GoodRule(ss, rule) ==
  /\ rule.name # NoRule
  /\ rule.on => rule.seg \in DOMAIN ss
  /\ Len(rule.assigns) \in Nat /\ DOMAIN rule.assigns = 1 .. Len(rule.assigns)
  /\ \A k \in DOMAIN rule.assigns :
       \/ rule.assigns[k].kind = "variant"
       \/ rule.assigns[k].kind \in {"none", "fallthrough", "default"} /\ rule.assigns[k].variant = Blank

Kinds == {"none", "variant", "fallthrough", "default"}

LEMMA FirstAtIs ==
  ASSUME NEW n \in Nat, NEW assigns, NEW is \in SUBSET (1 .. n)
  PROVE  \/ is = {} /\ FirstAt(assigns, is) = NoAssignment
         \/ \E i \in is : FirstAt(assigns, is) = assigns[i] /\ \A j \in is : i <= j
<1>1. CASE is = {}
  BY <1>1 DEF FirstAt
<1>2. CASE is # {}
  <2>1. PICK i \in is : \A j \in is : i <= j
    <3>1. is \in SUBSET Nat
      OBVIOUS
    <3> QED BY <1>2, <3>1, LeastNumber
  <2>2. Min(is) \in is /\ \A j \in is : Min(is) <= j
    BY <2>1 DEF Min
  <2>3. FirstAt(assigns, is) = assigns[Min(is)]
    BY <1>2 DEF FirstAt
  <2> QED BY <2>2, <2>3
<1> QED BY <1>1, <1>2

LEMMA MatchedIs ==
  ASSUME NEW ss, NEW rule, GoodRule(ss, rule), NEW u
  PROVE  \/ MatchedAssignment(rule, u) = NoAssignment
         \/ \E k \in DOMAIN rule.assigns : MatchedAssignment(rule, u) = rule.assigns[k]
<1>1. /\ Len(rule.assigns) \in Nat /\ DOMAIN rule.assigns = 1 .. Len(rule.assigns)
  BY DEF GoodRule
<1>2. CASE Full(rule)
  BY <1>1, <1>2 DEF Full, MatchedAssignment
<1>3. CASE ~Full(rule) /\ u = NoUnit
  BY <1>3 DEF MatchedAssignment
<1>4. CASE ~Full(rule) /\ u # NoUnit
  <2>1. MatchedAssignment(rule, u) = FirstAt(rule.assigns, Hits(rule.assigns))
    BY <1>4 DEF MatchedAssignment
  <2>2. Hits(rule.assigns) \in SUBSET (1 .. Len(rule.assigns))
    BY <1>1 DEF Hits
  <2> QED BY <1>1, <2>1, <2>2, FirstAtIs
<1> QED BY <1>2, <1>3, <1>4

LEMMA MatchedKind ==
  ASSUME NEW ss, NEW rule, GoodRule(ss, rule), NEW u
  PROVE  MatchedAssignment(rule, u).kind \in Kinds
<1>1. \/ MatchedAssignment(rule, u) = NoAssignment
      \/ \E k \in DOMAIN rule.assigns : MatchedAssignment(rule, u) = rule.assigns[k]
  BY MatchedIs
<1>2. \A k \in DOMAIN rule.assigns : rule.assigns[k].kind \in Kinds
  BY DEF GoodRule, Kinds
<1>3. NoAssignment.kind \in Kinds
  BY DEF NoAssignment, Kinds
<1> QED BY <1>1, <1>2, <1>3

LEMMA SelectedIs ==
  ASSUME NEW ss, NEW rule, GoodRule(ss, rule), NEW record
  PROVE  LET a == SelectAssignment(rule, record)
         IN  \/ a = NoAssignment
             \/ a.kind = "variant" /\ a.variant = record.variant
<1> DEFINE assigns == rule.assigns
           n == Len(assigns)
           matching == {i \in DOMAIN rule.assigns :
                          /\ rule.assigns[i].kind = "variant" /\ record.variant # Blank
                          /\ rule.assigns[i].variant = record.variant}
           is == IF Cardinality(matching) <= 1 THEN matching ELSE matching \cap Hits(assigns)
<1>1. n \in Nat /\ DOMAIN assigns = 1 .. n
  BY DEF GoodRule
<1>2. is \in SUBSET (1 .. n) /\ is \subseteq matching
  BY <1>1
<1>3. SelectAssignment(rule, record) = FirstAt(assigns, is)
  BY DEF SelectAssignment
<1>4. \A i \in is : assigns[i].kind = "variant" /\ assigns[i].variant = record.variant
  BY <1>2
<1> HIDE DEF assigns, n, is
<1>5. FirstAt(assigns, is) = NoAssignment \/ \E i \in is : FirstAt(assigns, is) = assigns[i]
  BY <1>1, <1>2, FirstAtIs
<1> QED BY <1>3, <1>4, <1>5

\* The rule still offers the stored variant, once.
Offers(rule, variant) == Cardinality({j \in DOMAIN rule.assigns : rule.assigns[j].variant = variant}) = 1

LEMMA SelectedOffered ==
  ASSUME NEW ss, NEW rule, GoodRule(ss, rule), NEW record, Offers(rule, record.variant), record.variant # Blank
  PROVE  /\ SelectAssignment(rule, record).kind = "variant"
         /\ SelectAssignment(rule, record).variant = record.variant
<1> DEFINE assigns == rule.assigns
           n == Len(assigns)
           named == {j \in DOMAIN rule.assigns : rule.assigns[j].variant = record.variant}
           matching == {i \in DOMAIN rule.assigns :
                          /\ rule.assigns[i].kind = "variant" /\ record.variant # Blank
                          /\ rule.assigns[i].variant = record.variant}
<1>1. n \in Nat /\ DOMAIN assigns = 1 .. n
  BY DEF GoodRule
<1>2. matching = named
  BY DEF GoodRule
<1>3. IsFiniteSet(named) /\ named \in SUBSET (1 .. n)
  <2>1. IsFiniteSet(1 .. n)
    BY <1>1, FS_Interval
  <2>2. named \subseteq 1 .. n
    BY <1>1
  <2> HIDE DEF named, n
  <2> QED BY <2>1, <2>2, FS_Subset
<1>4. Cardinality(named) = 1
  BY DEF Offers
<1>5. PICK j : named = {j}
  <2> HIDE DEF named
  <2> QED BY <1>3, <1>4, FS_Singleton
<1>6. SelectAssignment(rule, record) = FirstAt(assigns, named)
  <2>1. SelectAssignment(rule, record)
          = FirstAt(assigns, IF Cardinality(matching) <= 1 THEN matching ELSE matching \cap Hits(assigns))
    BY DEF SelectAssignment
  <2> HIDE DEF assigns, matching, named
  <2> QED BY <1>2, <1>4, <2>1
<1>7. \A i \in named : assigns[i].kind = "variant" /\ assigns[i].variant = record.variant
  BY <1>2
<1> HIDE DEF assigns, n, named
<1>8. \E i \in named : FirstAt(assigns, named) = assigns[i]
  BY <1>1, <1>3, <1>5, FirstAtIs
<1> QED BY <1>6, <1>7, <1>8

\* An accumulator, and what one rule may make of one that is still going.
IsAcc(a) ==
  a = [end |-> a.end, missing |-> a.missing, asked |-> a.asked, writes |-> a.writes, fall |-> a.fall]

\* The errors that stop the loop over the rules.
Failure(end) == end \in {Fail("internal"), Fail(Unsupported)}
Credited(end, rule) == \E why, variant : end = Answer(why, rule.name, variant)

LEMMA EndsDiffer ==
  /\ \A e : Fail(e) # Going /\ Fail(e).kind = "error"
  /\ \A why, rule, variant : /\ Answer(why, rule, variant) # Going
                             /\ \A e : Answer(why, rule, variant) # Fail(e)
                             /\ Answer(why, rule, variant).kind = "answer"
                             /\ Answer(why, rule, variant).rule = rule
                             /\ Answer(why, rule, variant).variant = variant
  /\ \A e1, e2 : Fail(e1) = Fail(e2) => e1 = e2
  /\ Going.kind = "going"
<1>1. \A e : Fail(e).kind = "error" /\ Fail(e).error = e
  BY DEF Fail
<1>2. Going.kind = "going"
  BY DEF Going
<1>3. \A why, rule, variant : /\ Answer(why, rule, variant).kind = "answer"
                              /\ Answer(why, rule, variant).rule = rule
                              /\ Answer(why, rule, variant).variant = variant
  BY DEF Answer
<1> QED BY <1>1, <1>2, <1>3

LEMMA StopIs ==
  ASSUME NEW a, IsAcc(a), NEW e
  PROVE  /\ IsAcc(Stop(a, e)) /\ Stop(a, e).end = e
         /\ Stop(a, e).missing = a.missing /\ Stop(a, e).asked = a.asked
BY DEF IsAcc, Stop

LEMMA MissingIs ==
  ASSUME NEW a, IsAcc(a)
  PROVE  \A m : /\ IsAcc([a EXCEPT !.missing = m]) /\ [a EXCEPT !.missing = m].end = a.end
                /\ [a EXCEPT !.missing = m].asked = a.asked /\ [a EXCEPT !.missing = m].missing = m
BY DEF IsAcc

LEMMA AskingIs ==
  ASSUME NEW a, IsAcc(a), NEW out
  PROVE  /\ IsAcc(Asking(a, out)) /\ Asking(a, out).asked = a.asked \cup out.asked
         /\ Asking(a, out).end = a.end /\ Asking(a, out).missing = a.missing
         /\ Asking(a, out).writes = a.writes
BY SMTT(30) DEF IsAcc, Asking

LEMMA AddToWriteIs ==
  ASSUME NEW env, NEW a, IsAcc(a), a.end = Going, NEW rule, NEW variant
  PROVE  LET b == AddToWrite(env, a, rule, variant)
         IN  /\ IsAcc(b) /\ b.asked = a.asked /\ b.missing = a.missing
             /\ b.end = Going \/ Failure(b.end)
<1> DEFINE b == AddToWrite(env, a, rule, variant)
<1>1. \/ b = a \/ b = Stop(a, Fail(Unsupported)) \/ b = Stop(a, Fail("internal"))
      \/ \E w : b = [a EXCEPT !.writes = @ \cup w]
  BY DEF AddToWrite
<1>2. \A w : LET c == [a EXCEPT !.writes = @ \cup w]
             IN  IsAcc(c) /\ c.asked = a.asked /\ c.missing = a.missing /\ c.end = a.end
  BY DEF IsAcc
<1>3. \A e \in {"internal", Unsupported} :
             /\ IsAcc(Stop(a, Fail(e))) /\ Stop(a, Fail(e)).asked = a.asked
             /\ Stop(a, Fail(e)).missing = a.missing /\ Failure(Stop(a, Fail(e)).end)
  BY StopIs DEF Failure
<1> QED BY <1>1, <1>2, <1>3

\* What trying one rule may make of an accumulator that is still going.
Moves(a, rule, b) ==
  /\ IsAcc(b) /\ a.asked \subseteq b.asked
  /\ b.end = Going \/ Failure(b.end) \/ Credited(b.end, rule)

LEMMA VariantMatchIs ==
  ASSUME NEW flag, NEW a, IsAcc(a), NEW rule, NEW variant
  PROVE  LET b == VariantMatch(flag, a, rule, variant)
         IN  /\ IsAcc(b) /\ b.asked = a.asked
             /\ \/ Failure(b.end)
                \/ b.end = Answer("match", rule.name, variant)
             /\ variant \in flag.variants => b.end = Answer("match", rule.name, variant)
BY StopIs DEF VariantMatch, Failure

LEMMA AssignIs ==
  ASSUME NEW env, NEW flag, NEW acc, IsAcc(acc), acc.end = Going, NEW rule, NEW a, a.kind \in Kinds
  PROVE  LET b == Assign(env, flag, acc, rule, a)
         IN  Moves(acc, rule, b) /\ b.asked = acc.asked
<1>1. CASE a.kind = "none"
  BY <1>1 DEF Assign, Moves
<1>2. CASE a.kind # "none"
  <2> DEFINE v == IF a.kind = "variant" THEN a.variant ELSE Blank
             w == AddToWrite(env, acc, rule, v)
  <2>1. IsAcc(w) /\ w.asked = acc.asked /\ (w.end = Going \/ Failure(w.end))
    BY AddToWriteIs
  <2>2. Assign(env, flag, acc, rule, a) = Credit(flag, w, rule, a)
    BY <1>2 DEF Assign
  <2> HIDE DEF w
  <2>3. CASE w.end # Going
    BY <2>1, <2>2, <2>3 DEF Credit, Moves
  <2>4. CASE w.end = Going /\ a.kind = "fallthrough"
    <3>1. Credit(flag, w, rule, a) = [w EXCEPT !.fall = Append(@, rule.name)]
      BY <2>4 DEF Credit
    <3>2. \A x : LET c == [w EXCEPT !.fall = x] IN IsAcc(c) /\ c.asked = w.asked /\ c.end = w.end
      BY <2>1 DEF IsAcc
    <3> QED BY <2>1, <2>2, <2>4, <3>1, <3>2 DEF Moves
  <2>5. CASE w.end = Going /\ a.kind = "default"
    <3>1. Credit(flag, w, rule, a) = Stop(w, Answer("match", rule.name, Blank))
      BY <2>5 DEF Credit
    <3> QED BY <2>1, <2>2, <3>1, StopIs DEF Moves, Credited
  <2>6. CASE w.end = Going /\ a.kind = "variant"
    <3>1. Credit(flag, w, rule, a) = VariantMatch(flag, w, rule, a.variant)
      BY <2>6 DEF Credit
    <3> QED BY <2>1, <2>2, <3>1, VariantMatchIs DEF Moves, Credited
  <2> QED BY <1>2, <2>3, <2>4, <2>5, <2>6 DEF Kinds
<1> QED BY <1>1, <1>2

LEMMA ConcludeIs ==
  ASSUME NEW ss, NEW env, NEW flag, NEW acc, IsAcc(acc), acc.end = Going,
         NEW rule, GoodRule(ss, rule), NEW val \in Verdicts
  PROVE  LET b == Conclude(env, flag, acc, rule, val)
         IN  /\ Moves(acc, rule, b) /\ b.asked = acc.asked
             /\ acc.missing => b.end = Going \/ Failure(b.end)
<1>0. val \in {T, F, U, Unrecognized, Unsupported} /\ T \notin {F, U, Unrecognized, Unsupported}
      /\ F \notin {U, Unrecognized, Unsupported} /\ U \notin {Unrecognized, Unsupported} /\ Unrecognized # Unsupported
  BY DEF Verdicts, Errors, T, F, U, Unrecognized, Unsupported
<1>1. CASE val = Unsupported
  <2>1. Conclude(env, flag, acc, rule, val) = Stop(acc, Fail(Unsupported))
    BY <1>0, <1>1 DEF Conclude
  <2> QED BY <2>1, StopIs DEF Moves, Failure
<1>2. CASE val \in {F, Unrecognized}
  <2>1. Conclude(env, flag, acc, rule, val) = acc
    BY <1>0, <1>2 DEF Conclude
  <2> QED BY <2>1 DEF Moves
<1>3. CASE val = U
  <2>1. Conclude(env, flag, acc, rule, val) = [acc EXCEPT !.missing = TRUE]
    BY <1>0, <1>3 DEF Conclude
  <2>2. LET c == [acc EXCEPT !.missing = TRUE] IN IsAcc(c) /\ c.asked = acc.asked /\ c.end = acc.end
    BY MissingIs, Zenon
  <2> QED BY <2>1, <2>2 DEF Moves
<1>4. CASE val = T
  <2>1. Conclude(env, flag, acc, rule, val)
          = IF acc.missing THEN acc ELSE Assign(env, flag, acc, rule, MatchedAssignment(rule, env.unit))
    BY <1>0, <1>4 DEF Conclude
  <2>2. MatchedAssignment(rule, env.unit).kind \in Kinds
    BY MatchedKind
  <2> QED BY <2>1, <2>2, AssignIs DEF Moves
<1> QED BY <1>0, <1>1, <1>2, <1>3, <1>4

\* A rule that is tried: its segment is known.
Tried(env, rule) == Table(env.segs) /\ GoodRule(env.segs, rule) /\ rule.seg \in DOMAIN env.segs

SegmentAsks(env, rule) == SegmentMatch(env, {}, rule.seg).asked
TargetingAsks(env, rule) == TargetingMatch(env, {}, rule.seg).asked

LEMMA SegmentVerdict ==
  ASSUME NEW env, NEW rule, Tried(env, rule)
  PROVE  /\ SegmentMatch(env, {}, rule.seg).val \in Verdicts
         /\ TargetingMatch(env, {}, rule.seg).val \in Verdicts
<1> DEFINE s == rule.seg
           e == env.segs[s].expr
           none == {}
           one == {s}
<1>1. Table(env.segs) /\ s \in DOMAIN env.segs /\ e \in Exprs
      /\ none \in SUBSET DOMAIN env.segs /\ one \in SUBSET DOMAIN env.segs
  BY DEF Tried, Table
<1>2. /\ SegmentMatch(env, none, s) = Matched(env, none, s, Evaluate(env, one, e))
      /\ TargetingMatch(env, none, s) = Evaluate(env, none, e)
  <2>1. none \cup {s} = one
    OBVIOUS
  <2> HIDE DEF none, one, s
  <2> QED BY <2>1 DEF SegmentMatch, TargetingMatch
<1> HIDE DEF e, none, one, s
<1>3. Evaluate(env, none, e).val \in Verdicts
      /\ IsOut(Evaluate(env, one, e)) /\ Evaluate(env, one, e).val \in Verdicts
  BY <1>1, EvaluateVerdict
<1>4. Matched(env, none, s, Evaluate(env, one, e)).val \in Verdicts
  BY <1>3 DEF Matched, Value, IsOut, Verdicts
<1> QED BY <1>2, <1>3, <1>4 DEF none, s

LEMMA BySegmentIs ==
  ASSUME NEW env, NEW flag, NEW acc, IsAcc(acc), acc.end = Going, NEW rule, Tried(env, rule)
  PROVE  LET b == BySegment(env, flag, acc, rule)
         IN  /\ Moves(acc, rule, b) /\ b.asked = acc.asked \cup SegmentAsks(env, rule)
             /\ acc.missing => b.end = Going \/ Failure(b.end)
<1> DEFINE out == SegmentMatch(env, {}, rule.seg)
           a == Asking(acc, out)
<1>1. out.val \in Verdicts
  BY SegmentVerdict
<1>2. BySegment(env, flag, acc, rule) = Conclude(env, flag, a, rule, out.val)
  BY DEF BySegment, ConcludeWith
<1>3. out.asked = SegmentAsks(env, rule)
  BY DEF SegmentAsks
<1>4. GoodRule(env.segs, rule)
  BY DEF Tried
<1> HIDE DEF out
<1>5. IsAcc(a) /\ a.end = Going /\ a.missing = acc.missing /\ a.asked = acc.asked \cup out.asked
  BY AskingIs
<1> HIDE DEF a
<1>6. LET b == Conclude(env, flag, a, rule, out.val)
      IN  /\ Moves(a, rule, b) /\ b.asked = a.asked
          /\ a.missing => b.end = Going \/ Failure(b.end)
  BY <1>1, <1>4, <1>5, ConcludeIs
<1> QED BY <1>2, <1>3, <1>5, <1>6 DEF Moves

LEMMA ByRecordIs ==
  ASSUME NEW env, NEW flag, NEW acc, IsAcc(acc), acc.end = Going, NEW rule, Tried(env, rule),
         NEW val \in Verdicts, NEW a, a = NoAssignment \/ a.kind = "variant"
  PROVE  LET b == ByRecord(env, flag, acc, rule, val, a)
         IN  /\ Moves(acc, rule, b) /\ b.asked \subseteq acc.asked \cup SegmentAsks(env, rule)
             /\ val = T /\ a.kind = "variant" /\ a.variant \in flag.variants =>
                  b.end = Answer("match", rule.name, a.variant)
<1>0. /\ val \in {T, F, U} \cup Errors /\ T \notin {F, U} \cup Errors
      /\ F \notin {U} \cup Errors /\ U \notin Errors
      /\ NoAssignment.kind = "none"
  BY DEF Verdicts, Errors, T, F, U, Unrecognized, Unsupported, NoAssignment
<1>1. CASE val \in {F, U}
  <2>1. ByRecord(env, flag, acc, rule, val, a) = BySegment(env, flag, acc, rule)
    BY <1>0, <1>1 DEF ByRecord
  <2> QED BY <1>0, <1>1, <2>1, BySegmentIs
<1>2. CASE val = T /\ a.kind # "none"
  <2>1. ByRecord(env, flag, acc, rule, val, a) = VariantMatch(flag, acc, rule, a.variant)
    BY <1>0, <1>2 DEF ByRecord
  <2> QED BY <2>1, VariantMatchIs DEF Moves, Credited
<1>3. CASE val \in Errors \/ (val = T /\ a.kind = "none")
  <2>1. ByRecord(env, flag, acc, rule, val, a) = Conclude(env, flag, acc, rule, val)
    BY <1>0, <1>3 DEF ByRecord
  <2>2. GoodRule(env.segs, rule)
    BY DEF Tried
  <2>3. Moves(acc, rule, Conclude(env, flag, acc, rule, val))
        /\ Conclude(env, flag, acc, rule, val).asked = acc.asked
    BY <2>2, ConcludeIs
  <2> QED BY <1>0, <1>3, <2>1, <2>3
<1> QED BY <1>0, <1>1, <1>2, <1>3

\* The stored variant is to be kept whatever the targeting says.
Pinned(env, flag, rule) ==
  /\ rule.mat.ignore
  /\ \A r1, r2 \in RecordsOf(env, rule) : r1 = r2
  /\ \A r \in RecordsOf(env, rule) :
       Offers(rule, r.variant) /\ r.variant \in flag.variants /\ r.variant # Blank

\* A turn with a lookup.
LookupTurn(env, flag, acc, rule, b) ==
  /\ Moves(acc, rule, b)
  /\ b.asked \subseteq acc.asked \cup {Key(env.unit, rule.mat.read, rule.name)}
                                \cup SegmentAsks(env, rule) \cup TargetingAsks(env, rule)
  /\ env.ctx.mode = "discovery" =>
       /\ b.asked = acc.asked \cup {Key(env.unit, rule.mat.read, rule.name)} \cup SegmentAsks(env, rule)
       /\ b.end = Going \/ Failure(b.end)
  /\ env.ctx.mode = "complete" /\ Pinned(env, flag, rule) =>
       \A r \in RecordsOf(env, rule) : b.end = Answer("match", rule.name, r.variant)

LEMMA ByMaterializationIs ==
  ASSUME NEW env, NEW flag, NEW acc, IsAcc(acc), acc.end = Going, NEW rule, Tried(env, rule)
  PROVE  LookupTurn(env, flag, acc, rule, ByMaterialization(env, flag, acc, rule))
<1> DEFINE key == Key(env.unit, rule.mat.read, rule.name)
           a == [acc EXCEPT !.asked = @ \cup {key}]
           found == RecordsOf(env, rule)
           b == ByMaterialization(env, flag, acc, rule)
           val == Lookup(env.ctx, found # {})
<1> SUFFICES /\ Moves(acc, rule, b)
             /\ b.asked \subseteq acc.asked \cup {key} \cup SegmentAsks(env, rule) \cup TargetingAsks(env, rule)
             /\ env.ctx.mode = "discovery" =>
                  /\ b.asked = acc.asked \cup {key} \cup SegmentAsks(env, rule)
                  /\ b.end = Going \/ Failure(b.end)
             /\ env.ctx.mode = "complete" /\ Pinned(env, flag, rule) =>
                  \A r \in found : b.end = Answer("match", rule.name, r.variant)
  BY DEF LookupTurn
<1>0. /\ T \notin {F, U, Unsupported} /\ F \notin {U, Unsupported} /\ U # Unsupported
      /\ NoAssignment.kind = "none" /\ T \in Verdicts
  BY DEF T, F, U, Unsupported, NoAssignment, Verdicts
<1>1. IsAcc(a) /\ a.end = Going /\ a.asked = acc.asked \cup {key} /\ a.missing = acc.missing
  BY DEF IsAcc
<1>2. b = Looked(env, flag, a, rule, found, val)
  BY DEF ByMaterialization
<1>3. GoodRule(env.segs, rule)
  BY DEF Tried
<1> HIDE DEF a
<1>4. CASE val = Unsupported
  <2>1. b = Stop(a, Fail(Unsupported))
    BY <1>0, <1>2, <1>4 DEF Looked
  <2>2. env.ctx.mode # "discovery" /\ env.ctx.mode # "complete"
    BY <1>0, <1>4 DEF Lookup
  <2> HIDE DEF val, b
  <2> QED BY <1>1, <2>1, <2>2, StopIs DEF Moves, Failure
<1>5. CASE val = T
  <2> DEFINE record == CHOOSE r \in found : TRUE
             out == IF rule.mat.ignore THEN Value(T) ELSE TargetingMatch(env, {}, rule.seg)
             c == Asking(a, out)
             chosen == SelectAssignment(rule, record)
  <2>1. b = ByRecord(env, flag, c, rule, out.val, chosen)
    BY <1>0, <1>2, <1>5 DEF Looked, BySticky
  <2>2. /\ env.ctx.mode # "discovery"
        /\ found # {}
    BY <1>0, <1>5 DEF Lookup
  <2>3. record \in found
    BY <2>2
  <2>4. out.val \in Verdicts /\ out.asked \subseteq TargetingAsks(env, rule)
    BY <1>0, SegmentVerdict DEF Value, TargetingAsks
  <2>5. IsAcc(c) /\ c.end = Going /\ c.asked = a.asked \cup out.asked
    BY <1>1, AskingIs
  <2>6. chosen = NoAssignment \/ (chosen.kind = "variant" /\ chosen.variant = record.variant)
    BY <1>3, SelectedIs
  <2>7. rule.mat.ignore => out.val = T
    BY DEF Value
  <2> HIDE DEF val, b, record, out, c, chosen
  <2>8. LET d == ByRecord(env, flag, c, rule, out.val, chosen)
        IN  /\ Moves(c, rule, d) /\ d.asked \subseteq c.asked \cup SegmentAsks(env, rule)
            /\ out.val = T /\ chosen.kind = "variant" /\ chosen.variant \in flag.variants =>
                 d.end = Answer("match", rule.name, chosen.variant)
    <3>1. out.val \in Verdicts /\ (chosen = NoAssignment \/ chosen.kind = "variant")
      BY <2>4, <2>6
    <3> QED BY <2>5, <3>1, ByRecordIs
  <2>9. ASSUME Pinned(env, flag, rule), NEW r \in found
        PROVE  b.end = Answer("match", rule.name, r.variant)
    <3>1. record = r /\ Offers(rule, r.variant) /\ r.variant \in flag.variants /\ r.variant # Blank
          /\ rule.mat.ignore
      BY <2>3, <2>9 DEF Pinned
    <3>2. chosen.kind = "variant" /\ chosen.variant = r.variant
      BY <1>3, <3>1, SelectedOffered DEF chosen
    <3> QED BY <2>1, <2>7, <2>8, <3>1, <3>2
  <2>10. /\ Moves(acc, rule, b)
         /\ b.asked \subseteq acc.asked \cup {key} \cup SegmentAsks(env, rule) \cup TargetingAsks(env, rule)
    BY <1>1, <2>1, <2>4, <2>5, <2>8 DEF Moves
  <2> QED BY <2>2, <2>9, <2>10
<1>6. CASE val = F /\ rule.mat.must
  <2>1. b = a
    BY <1>0, <1>2, <1>6 DEF Looked
  <2>2. env.ctx.mode # "discovery" /\ (env.ctx.mode = "complete" => found = {})
    BY <1>0, <1>6 DEF Lookup
  <2> HIDE DEF val, b
  <2> QED BY <1>1, <2>1, <2>2 DEF Moves
<1>7. CASE val = U \/ (val = F /\ ~rule.mat.must)
  <2> DEFINE c == [a EXCEPT !.missing = @ \/ val = U]
  <2>1. b = BySegment(env, flag, c, rule)
    BY <1>0, <1>2, <1>7 DEF Looked
  <2>2. /\ IsAcc(c) /\ c.end = Going /\ c.asked = a.asked
    BY <1>1, MissingIs, Zenon
  <2>3. c.missing <=> (a.missing \/ val = U)
    BY <1>1, MissingIs, Zenon
  <2>4. /\ env.ctx.mode = "discovery" => val = U
        /\ env.ctx.mode = "complete" => found = {}
    BY <1>0, <1>7 DEF Lookup
  <2> HIDE DEF val, b, c
  <2>5. LET d == BySegment(env, flag, c, rule)
        IN  /\ Moves(c, rule, d) /\ d.asked = c.asked \cup SegmentAsks(env, rule)
            /\ c.missing => d.end = Going \/ Failure(d.end)
    BY <2>2, BySegmentIs
  <2> QED BY <1>1, <2>1, <2>2, <2>3, <2>4, <2>5 DEF Moves
<1>8. val \in {T, F, U, Unsupported}
  BY DEF Lookup
<1> QED BY <1>4, <1>5, <1>6, <1>7, <1>8

-----------------------------------------------------------------------------
(* Resolving one flag.                                                     *)

UnitOf(base, rule) == IF base.keys[rule.selector] = Bad THEN NoUnit ELSE base.keys[rule.selector]
EnvOf(base, rule) ==
  [segs |-> base.segs, blooms |-> base.blooms, ctx |-> base.ctx, unit |-> UnitOf(base, rule)]
Reads(rule) == rule.mat # NoSpec /\ rule.mat.read # Blank
BadKey(base, rule) == base.keys[rule.selector] = Bad /\ ~(rule.selector = Blank /\ Full(rule))
Skipped(base, rule) ==
  \/ UnitOf(base, rule) = NoUnit /\ rule.selector # Blank
  \/ rule.assigns = <<>>
  \/ Reads(rule) /\ UnitOf(base, rule) = NoUnit

KeyError == Answer("key error", NoRule, Blank)

\* The cases of TryRule.
Turn(base, flag, acc, rule, b) ==
  /\ acc.end # Going \/ ~rule.on => b = acc
  /\ acc.end = Going /\ rule.on =>
       /\ BadKey(base, rule) => b = Stop(acc, KeyError)
       /\ ~BadKey(base, rule) /\ Skipped(base, rule) => b = acc
       /\ ~BadKey(base, rule) /\ ~Skipped(base, rule) /\ Reads(rule) =>
            b = ByMaterialization(EnvOf(base, rule), flag, acc, rule)
       /\ ~BadKey(base, rule) /\ ~Skipped(base, rule) /\ ~Reads(rule) =>
            b = BySegment(EnvOf(base, rule), flag, acc, rule)

LEMMA TryRuleCases ==
  ASSUME NEW base, NEW flag, NEW acc, NEW rule
  PROVE  Turn(base, flag, acc, rule, TryRule(base, flag, acc, rule))
<1> DEFINE env == [segs |-> base.segs, blooms |-> base.blooms, ctx |-> base.ctx,
                   unit |-> UnitOf(base, rule)]
           b == TryRule(base, flag, acc, rule)
<1>1. env = EnvOf(base, rule) /\ env.unit = UnitOf(base, rule)
  BY DEF EnvOf
<1>2. b = CASE acc.end # Going \/ ~rule.on -> acc
            [] acc.end = Going /\ rule.on /\ BadKey(base, rule) -> Stop(acc, Answer("key error", NoRule, Blank))
            [] acc.end = Going /\ rule.on /\ ~BadKey(base, rule) ->
                 IF Skipped(base, rule) THEN acc
                 ELSE IF Reads(rule) THEN ByMaterialization(env, flag, acc, rule)
                                     ELSE BySegment(env, flag, acc, rule)
  BY DEF TryRule, UnitOf, BadKey, Skipped, Reads
<1> HIDE DEF b, env
<1>3. acc.end # Going \/ ~rule.on => b = acc
  BY <1>2
<1>4. acc.end = Going /\ rule.on /\ BadKey(base, rule) => b = Stop(acc, KeyError)
  BY <1>2 DEF KeyError
<1>5. acc.end = Going /\ rule.on /\ ~BadKey(base, rule) =>
        b = IF Skipped(base, rule) THEN acc
            ELSE IF Reads(rule) THEN ByMaterialization(env, flag, acc, rule)
                                ELSE BySegment(env, flag, acc, rule)
  BY <1>2
<1>6. Turn(base, flag, acc, rule, b)
  BY <1>1, <1>3, <1>4, <1>5 DEF Turn
<1> QED BY <1>6 DEF b

\* The answers a rule may give: in a discovery none that needs a lookup, and
\* with records only the variant of a pinned one.
RuleRight(base, flag, rule, end) ==
  Reads(rule) =>
    /\ base.ctx.mode # "discovery" /\ base.keys[rule.selector] # Bad
    /\ base.ctx.mode = "complete" /\ Pinned(EnvOf(base, rule), flag, rule) =>
         \A r \in RecordsOf(EnvOf(base, rule), rule) : end.variant = r.variant

RuleDone(base, flag, acc, rule, b) ==
  /\ IsAcc(b) /\ acc.asked \subseteq b.asked
  /\ \/ b.end = acc.end
     \/ /\ acc.end = Going
        /\ \/ Failure(b.end) \/ b.end = KeyError
           \/ Credited(b.end, rule) /\ RuleRight(base, flag, rule, b.end)

LEMMA TryRuleIs ==
  ASSUME NEW base, NEW flag, NEW acc, NEW rule, Table(base.segs), GoodRule(base.segs, rule), IsAcc(acc)
  PROVE  RuleDone(base, flag, acc, rule, TryRule(base, flag, acc, rule))
<1> DEFINE b == TryRule(base, flag, acc, rule)
           env == EnvOf(base, rule)
<1>t. Turn(base, flag, acc, rule, b)
  BY TryRuleCases
<1> HIDE DEF b
<1>c. /\ acc.end # Going \/ ~rule.on => b = acc
      /\ acc.end = Going /\ rule.on /\ BadKey(base, rule) => b = Stop(acc, KeyError)
      /\ acc.end = Going /\ rule.on /\ ~BadKey(base, rule) /\ Skipped(base, rule) => b = acc
      /\ acc.end = Going /\ rule.on /\ ~BadKey(base, rule) /\ ~Skipped(base, rule) /\ Reads(rule) =>
           b = ByMaterialization(env, flag, acc, rule)
      /\ acc.end = Going /\ rule.on /\ ~BadKey(base, rule) /\ ~Skipped(base, rule) /\ ~Reads(rule) =>
           b = BySegment(env, flag, acc, rule)
  BY <1>t DEF Turn
<1>q. SUFFICES RuleDone(base, flag, acc, rule, b)
  BY DEF b
<1> USE DEF RuleDone
<1>0. env.segs = base.segs /\ env.ctx = base.ctx
  BY DEF EnvOf
<1>1. CASE acc.end # Going \/ ~rule.on
  BY <1>1, <1>c
<1>2. CASE acc.end = Going /\ rule.on /\ BadKey(base, rule)
  <2>1. b = Stop(acc, KeyError)
    BY <1>2, <1>c
  <2>2. IsAcc(b) /\ b.end = KeyError /\ b.asked = acc.asked
    BY <2>1, StopIs
  <2> QED BY <1>2, <2>2
<1>3. CASE acc.end = Going /\ rule.on /\ ~BadKey(base, rule) /\ Skipped(base, rule)
  BY <1>3, <1>c
<1>4. CASE acc.end = Going /\ rule.on /\ ~BadKey(base, rule) /\ ~Skipped(base, rule) /\ Reads(rule)
  <2>1. b = ByMaterialization(env, flag, acc, rule)
    BY <1>4, <1>c
  <2>2. Tried(env, rule)
    BY <1>0, <1>4 DEF Tried, GoodRule
  <2> HIDE DEF env
  <2>l. LookupTurn(env, flag, acc, rule, b)
    BY <1>4, <2>1, <2>2, ByMaterializationIs
  <2>3. /\ Moves(acc, rule, b)
        /\ env.ctx.mode = "discovery" => b.end = Going \/ Failure(b.end)
        /\ env.ctx.mode = "complete" /\ Pinned(env, flag, rule) =>
             \A r \in RecordsOf(env, rule) : b.end = Answer("match", rule.name, r.variant)
    BY <2>l DEF LookupTurn
  <2>4. Credited(b.end, rule) => RuleRight(base, flag, rule, b.end)
    <3> SUFFICES ASSUME Credited(b.end, rule) PROVE RuleRight(base, flag, rule, b.end)
      OBVIOUS
    <3>1. b.end # Going /\ ~Failure(b.end)
      BY EndsDiffer DEF Credited, Failure
    <3>2. \A r : b.end = Answer("match", rule.name, r.variant) => b.end.variant = r.variant
      BY EndsDiffer
    <3>3. base.keys[rule.selector] # Bad
      BY <1>4 DEF Skipped, UnitOf
    <3> QED BY <1>0, <2>3, <3>1, <3>2, <3>3 DEF RuleRight, env
  <2> QED BY <1>4, <2>3, <2>4 DEF Moves
<1>5. CASE acc.end = Going /\ rule.on /\ ~BadKey(base, rule) /\ ~Skipped(base, rule) /\ ~Reads(rule)
  <2>1. b = BySegment(env, flag, acc, rule)
    BY <1>5, <1>c
  <2>2. Tried(env, rule)
    BY <1>0, <1>5 DEF Tried, GoodRule
  <2> HIDE DEF env
  <2>3. Moves(acc, rule, b)
    BY <1>5, <2>1, <2>2, BySegmentIs
  <2>4. RuleRight(base, flag, rule, b.end)
    BY <1>5 DEF RuleRight
  <2> QED BY <1>5, <2>3, <2>4 DEF Moves
<1> QED BY <1>1, <1>2, <1>3, <1>4, <1>5

\* The accumulators of the loop over the rules.
Turns(base, flag, written, n, f) ==
  f = [i \in 0 .. n |-> IF i = 0 THEN Start(written) ELSE TryRule(base, flag, f[i - 1], flag.rules[i])]

LEMMA TurnsExist ==
  ASSUME NEW base, NEW flag, NEW written, NEW n \in Nat
  PROVE  \E f : Turns(base, flag, written, n, f)
<1> DEFINE P(m) == \E f : Turns(base, flag, written, m, f)
           Wrong == {m \in Nat : ~P(m)}
<1>1. P(0)
  <2> DEFINE f == [i \in 0 .. 0 |-> Start(written)]
  <2>1. Turns(base, flag, written, 0, f)
    BY DEF Turns
  <2> HIDE DEF f
  <2> QED BY <2>1
<1>2. ASSUME NEW m \in Nat \ {0}, P(m - 1) PROVE P(m)
  <2>1. PICK f : Turns(base, flag, written, m - 1, f)
    BY <1>2
  <2> DEFINE last == TryRule(base, flag, f[m - 1], flag.rules[m])
             g == [i \in 0 .. m |-> IF i = m THEN last ELSE f[i]]
  <2>2. \A i \in 0 .. m - 1 : f[i] = IF i = 0 THEN Start(written)
                                     ELSE TryRule(base, flag, f[i - 1], flag.rules[i])
    BY <2>1 DEF Turns
  <2>3. \A i \in 0 .. m - 1 : g[i] = f[i]
    <3> HIDE DEF last
    <3> QED OBVIOUS
  <2>4. g[m] = last /\ g = [i \in 0 .. m |-> g[i]]
    <3> HIDE DEF last
    <3> QED OBVIOUS
  <2>5. ASSUME NEW i \in 0 .. m
        PROVE  g[i] = IF i = 0 THEN Start(written) ELSE TryRule(base, flag, g[i - 1], flag.rules[i])
    <3>1. i # 0 => i - 1 \in 0 .. m - 1 /\ g[i - 1] = f[i - 1]
      <4> HIDE DEF g
      <4> QED BY <2>3
    <3>2. CASE i = m
      <4> HIDE DEF g
      <4> QED BY <2>4, <3>1, <3>2
    <3>3. CASE i # m
      <4>1. i \in 0 .. m - 1
        BY <3>3
      <4> HIDE DEF g
      <4> QED BY <2>2, <2>3, <3>1, <4>1
    <3> QED BY <3>2, <3>3
  <2>6. Turns(base, flag, written, m, g)
    <3> HIDE DEF g
    <3> QED BY <2>4, <2>5 DEF Turns
  <2> HIDE DEF g
  <2> QED BY <2>6
<1>3. Wrong = {}
  <2> SUFFICES ASSUME Wrong # {} PROVE FALSE
    OBVIOUS
  <2>1. Wrong \in SUBSET Nat
    OBVIOUS
  <2>2. PICK m \in Wrong : \A k \in Wrong : m <= k
    <3> HIDE DEF Wrong
    <3> QED BY <2>1, LeastNumber
  <2> HIDE DEF P
  <2>3. m \in Nat \ {0} /\ m - 1 \in Nat /\ P(m - 1)
    BY <1>1, <2>2
  <2> QED BY <1>2, <2>2, <2>3
<1> HIDE DEF P
<1>4. P(n)
  BY <1>3
<1> QED BY <1>4 DEF P

LEMMA ResolveFlagIs ==
  ASSUME NEW base, NEW flag, NEW written, Len(flag.rules) \in Nat
  PROVE  \E f : /\ Turns(base, flag, written, Len(flag.rules), f)
                /\ ResolveFlag(base, flag, written) = Ended(f[Len(flag.rules)])
<1> DEFINE n == Len(flag.rules)
           tried == CHOOSE f : f = [i \in 0 .. n |-> IF i = 0 THEN Start(written)
                                                     ELSE TryRule(base, flag, f[i - 1], flag.rules[i])]
<1>1. Turns(base, flag, written, n, tried)
  <2>1. \E f : f = [i \in 0 .. n |-> IF i = 0 THEN Start(written)
                                     ELSE TryRule(base, flag, f[i - 1], flag.rules[i])]
    <3>1. PICK f : Turns(base, flag, written, n, f)
      BY TurnsExist
    <3>2. f = [i \in 0 .. n |-> IF i = 0 THEN Start(written)
                                ELSE TryRule(base, flag, f[i - 1], flag.rules[i])]
      BY <3>1 DEF Turns
    <3> HIDE DEF n
    <3> QED BY <3>2
  <2>2. tried = [i \in 0 .. n |-> IF i = 0 THEN Start(written)
                                  ELSE TryRule(base, flag, tried[i - 1], flag.rules[i])]
    BY <2>1
  <2> HIDE DEF tried
  <2> QED BY <2>2 DEF Turns
<1>2. ResolveFlag(base, flag, written) = Ended(tried[n])
  BY DEF ResolveFlag
<1> HIDE DEF tried
<1> QED BY <1>1, <1>2

\* What a resolver state guarantees of a flag.
GoodFlag(ss, flag) ==
  /\ Len(flag.rules) \in Nat /\ DOMAIN flag.rules = 1 .. Len(flag.rules)
  /\ Blank \notin flag.variants
  /\ \A i \in DOMAIN flag.rules :
       /\ GoodRule(ss, flag.rules[i])
       /\ \A j \in DOMAIN flag.rules : flag.rules[i].name = flag.rules[j].name => i = j

Neutral(end) == \E why : end = Answer(why, NoRule, Blank)

\* The end of a flag is an error, no match, or a rule's answer.
EndRight(base, flag, n, end) ==
  \/ Failure(end) \/ Neutral(end)
  \/ \E i \in 1 .. n : Credited(end, flag.rules[i]) /\ RuleRight(base, flag, flag.rules[i], end)

LEMMA TurnsRight ==
  ASSUME NEW base, NEW flag, NEW written, Table(base.segs), GoodFlag(base.segs, flag),
         NEW f, Turns(base, flag, written, Len(flag.rules), f)
  PROVE  \A i \in 0 .. Len(flag.rules) :
           IsAcc(f[i]) /\ (f[i].end = Going \/ EndRight(base, flag, i, f[i].end))
<1> DEFINE n == Len(flag.rules)
           P(i) == IsAcc(f[i]) /\ (f[i].end = Going \/ EndRight(base, flag, i, f[i].end))
           Wrong == {i \in 0 .. n : ~P(i)}
<1>0. n \in Nat /\ DOMAIN flag.rules = 1 .. n
  BY DEF GoodFlag
<1>1. /\ 0 \in 0 .. n => f[0] = Start(written)
      /\ \A i \in 1 .. n : f[i] = TryRule(base, flag, f[i - 1], flag.rules[i])
  <2> HIDE DEF n
  <2>1. \A i \in 0 .. n : f[i] = IF i = 0 THEN Start(written) ELSE TryRule(base, flag, f[i - 1], flag.rules[i])
    BY DEF Turns, n
  <2> QED BY <1>0, <2>1
<1> HIDE DEF n
<1>2. P(0)
  BY <1>0, <1>1 DEF Start, IsAcc
<1>3. ASSUME NEW i \in 1 .. n, P(i - 1) PROVE P(i)
  <2>1. RuleDone(base, flag, f[i - 1], flag.rules[i], f[i])
    <3>1. GoodRule(base.segs, flag.rules[i])
      BY <1>0 DEF GoodFlag
    <3>2. RuleDone(base, flag, f[i - 1], flag.rules[i], TryRule(base, flag, f[i - 1], flag.rules[i]))
      BY <1>3, <3>1, TryRuleIs
    <3> QED BY <1>1, <3>2
  <2>2. IsAcc(f[i])
    BY <2>1 DEF RuleDone
  <2>3. CASE f[i].end = f[i - 1].end
    BY <1>3, <2>2, <2>3 DEF EndRight
  <2>4. CASE Failure(f[i].end) \/ f[i].end = KeyError
    BY <2>2, <2>4 DEF EndRight, Neutral, KeyError
  <2>5. CASE Credited(f[i].end, flag.rules[i]) /\ RuleRight(base, flag, flag.rules[i], f[i].end)
    BY <2>2, <2>5 DEF EndRight
  <2> QED BY <2>1, <2>3, <2>4, <2>5 DEF RuleDone
<1>4. Wrong = {}
  <2> SUFFICES ASSUME Wrong # {} PROVE FALSE
    OBVIOUS
  <2>1. Wrong \in SUBSET Nat
    OBVIOUS
  <2>2. PICK i \in Wrong : \A k \in Wrong : i <= k
    <3> HIDE DEF Wrong
    <3> QED BY <2>1, LeastNumber
  <2> HIDE DEF P
  <2>3. i \in 1 .. n /\ i - 1 \in 0 .. n /\ P(i - 1)
    BY <1>0, <1>2, <2>2
  <2> QED BY <1>3, <2>2, <2>3
<1> QED BY <1>4 DEF n

LEMMA ResolveFlagRight ==
  ASSUME NEW base, NEW flag, NEW written, Table(base.segs), GoodFlag(base.segs, flag)
  PROVE  LET end == ResolveFlag(base, flag, written).end
         IN  end = Fail("missing") \/ EndRight(base, flag, Len(flag.rules), end)
<1> DEFINE n == Len(flag.rules)
<1>1. n \in Nat
  BY DEF GoodFlag
<1>2. PICK f : Turns(base, flag, written, n, f) /\ ResolveFlag(base, flag, written) = Ended(f[n])
  BY <1>1, ResolveFlagIs
<1> DEFINE acc == f[n]
<1>3. IsAcc(acc) /\ (acc.end = Going \/ EndRight(base, flag, n, acc.end))
  <2>1. \A i \in 0 .. Len(flag.rules) :
          IsAcc(f[i]) /\ (f[i].end = Going \/ EndRight(base, flag, i, f[i].end))
    BY <1>2, TurnsRight
  <2>2. n \in 0 .. Len(flag.rules)
    BY <1>1
  <2> QED BY <2>1, <2>2
<1>4. Going # Fail(Unsupported)
  BY EndsDiffer
<1> HIDE DEF acc, n
<1>5. CASE acc.end = Fail(Unsupported)
  <2>1. Ended(acc) = [acc EXCEPT !.end = Answer("unsupported", NoRule, Blank), !.fall = <<>>]
    BY <1>4, <1>5 DEF Ended
  <2>2. Ended(acc).end = Answer("unsupported", NoRule, Blank)
    BY <1>3, <2>1 DEF IsAcc
  <2> QED BY <1>2, <2>2 DEF EndRight, Neutral, acc
<1>6. CASE acc.end = Going /\ acc.missing
  <2>1. Ended(acc) = Stop(acc, Fail("missing"))
    BY <1>4, <1>6 DEF Ended
  <2>2. ResolveFlag(base, flag, written).end = Fail("missing")
    BY <1>2, <1>3, <2>1, StopIs DEF acc
  <2> QED BY <2>2
<1>7. CASE acc.end = Going /\ ~acc.missing
  <2>1. Ended(acc) = Stop(acc, Answer("no match", NoRule, Blank))
    BY <1>4, <1>7 DEF Ended
  <2>2. Stop(acc, Answer("no match", NoRule, Blank)).end = Answer("no match", NoRule, Blank)
    BY <1>3, StopIs
  <2>3. ResolveFlag(base, flag, written).end = Answer("no match", NoRule, Blank)
    BY <1>2, <2>1, <2>2 DEF acc
  <2> QED BY <2>3 DEF EndRight, Neutral
<1>8. CASE acc.end \notin {Going, Fail(Unsupported)}
  <2>1. Ended(acc) = acc
    BY <1>8 DEF Ended
  <2> QED BY <1>2, <1>3, <1>8, <2>1 DEF acc, n
<1> QED BY <1>5, <1>6, <1>7, <1>8

-----------------------------------------------------------------------------
(* A unit keeps its variant.                                               *)

GoodConf(c) ==
  /\ Table(c.segs)
  /\ \A f \in DOMAIN c.flags : GoodFlag(c.segs, c.flags[f])
  /\ IsFiniteSet(DOMAIN c.flags)
  /\ \A f, g \in DOMAIN c.flags :
       \A i \in DOMAIN c.flags[f].rules, j \in DOMAIN c.flags[g].rules :
         c.flags[f].rules[i].name = c.flags[g].rules[j].name => f = g

LEMMA ConfsGood == \A c \in Confs : GoodConf(c)
<1> SUFFICES ASSUME NEW c \in Confs PROVE GoodConf(c)
  OBVIOUS
<1>1. Table(c.segs)
  BY StatesAssumption DEF Table
<1>2. ASSUME NEW f \in DOMAIN c.flags PROVE GoodFlag(c.segs, c.flags[f])
  <2> DEFINE rules == c.flags[f].rules
  <2>1. /\ Blank \notin c.flags[f].variants
        /\ Len(rules) \in Nat /\ DOMAIN rules = 1 .. Len(rules)
        /\ \A i \in DOMAIN rules :
             /\ rules[i].name # NoRule
             /\ \A g \in DOMAIN c.flags : \A j \in DOMAIN c.flags[g].rules :
                  rules[i].name = c.flags[g].rules[j].name => f = g /\ i = j
             /\ rules[i].on => rules[i].seg \in DOMAIN c.segs
             /\ Len(rules[i].assigns) \in Nat
             /\ DOMAIN rules[i].assigns = 1 .. Len(rules[i].assigns)
             /\ \A k \in DOMAIN rules[i].assigns :
                  \/ rules[i].assigns[k].kind = "variant"
                  \/ /\ rules[i].assigns[k].kind \in {"none", "fallthrough", "default"}
                     /\ rules[i].assigns[k].variant = Blank
    BY StatesAssumption, Zenon
  <2>2. \A i \in DOMAIN rules : GoodRule(c.segs, rules[i])
    BY <2>1 DEF GoodRule
  <2>3. \A i, j \in DOMAIN rules : rules[i].name = rules[j].name => i = j
    BY <2>1
  <2> QED BY <2>1, <2>2, <2>3 DEF GoodFlag
<1>3. IsFiniteSet(DOMAIN c.flags)
  BY StatesAssumption
<1>4. ASSUME NEW f \in DOMAIN c.flags, NEW g \in DOMAIN c.flags,
             NEW i \in DOMAIN c.flags[f].rules, NEW j \in DOMAIN c.flags[g].rules,
             c.flags[f].rules[i].name = c.flags[g].rules[j].name
      PROVE  f = g
  BY <1>4, StatesAssumption, ZenonT(30)
<1> QED BY <1>1, <1>2, <1>3, <1>4 DEF GoodConf

\* No match, or a rule's answer.
Answered(base, flag, end) ==
  \/ Neutral(end)
  \/ \E i \in 1 .. Len(flag.rules) :
       Credited(end, flag.rules[i]) /\ RuleRight(base, flag, flag.rules[i], end)

\* What resolving gives the flags it answers: what they had, or an answer.
ResolvedRight(c, mode, records, done, out) ==
  /\ out.pc \in {"failed", "suspended", "answered"}
  /\ out.pc = "suspended" => mode = "discovery"
  /\ out.pc # "failed" =>
       \A f \in DOMAIN out.resolved :
         \/ f \in DOMAIN done /\ out.resolved[f] = done[f]
         \/ f \in DOMAIN c.flags /\ Answered(Base(c, mode, records), c.flags[f], out.resolved[f].end)

LEMMA ResolveFlagsRight ==
  ASSUME NEW c, GoodConf(c), NEW mode, NEW records, NEW done, NEW written
  PROVE  ResolvedRight(c, mode, records, done, ResolveFlags(c, mode, records, done, written))
<1> DEFINE base == Base(c, mode, records)
           out == [f \in Active(c) \ DOMAIN done |-> ResolveFlag(base, c.flags[f], written)]
           open == {f \in DOMAIN out : out[f].end = Fail("missing")}
           asked == UNION {out[f].asked : f \in DOMAIN out}
           R == Gathered(c, mode, done, written, out, open, asked)
<1>1. ResolveFlags(c, mode, records, done, written) = R
  BY DEF ResolveFlags, Gather
<1>2. /\ R.pc = IF \/ Cardinality(DOMAIN out) > MAX_FLAGS
                   \/ \E f \in DOMAIN out \ open : out[f].end.kind = "error" THEN "failed"
                ELSE IF mode = "discovery" /\ asked # {} THEN "suspended"
                ELSE IF Gone(c, done) # {} THEN "failed" ELSE "answered"
      /\ R.resolved = [f \in (DOMAIN out \ open) \cup DOMAIN done |->
                         IF f \in DOMAIN done THEN done[f] ELSE Result(out[f])]
  <2> HIDE DEF out, open, asked
  <2> QED BY DEF Gathered
<1>3. \A f \in DOMAIN out : /\ f \in DOMAIN c.flags /\ f \notin DOMAIN done
                            /\ \/ out[f].end = Fail("missing")
                               \/ EndRight(base, c.flags[f], Len(c.flags[f].rules), out[f].end)
  <2> SUFFICES ASSUME NEW f \in DOMAIN out
               PROVE  /\ f \in DOMAIN c.flags /\ f \notin DOMAIN done
                      /\ \/ out[f].end = Fail("missing")
                         \/ EndRight(base, c.flags[f], Len(c.flags[f].rules), out[f].end)
    OBVIOUS
  <2>1. f \in DOMAIN c.flags /\ f \notin DOMAIN done /\ out[f] = ResolveFlag(base, c.flags[f], written)
    BY DEF Active
  <2>2. Table(base.segs) /\ GoodFlag(base.segs, c.flags[f])
    BY <2>1 DEF Base, GoodConf
  <2> HIDE DEF base, out
  <2> QED BY <2>1, <2>2, ResolveFlagRight
<1> HIDE DEF R, base, out, open
<1>4. R.pc \in {"failed", "suspended", "answered"} /\ (R.pc = "suspended" => mode = "discovery")
  BY <1>2
<1>5. ASSUME R.pc # "failed", NEW f \in DOMAIN R.resolved
      PROVE  \/ f \in DOMAIN done /\ R.resolved[f] = done[f]
             \/ f \in DOMAIN c.flags /\ Answered(base, c.flags[f], R.resolved[f].end)
  <2>1. CASE f \in DOMAIN done
    BY <1>2, <2>1
  <2>2. CASE f \notin DOMAIN done
    <3>1. f \in DOMAIN out \ open /\ R.resolved[f].end = out[f].end /\ out[f].end.kind # "error"
      BY <1>2, <1>5, <2>2 DEF Result
    <3>2. ~Failure(out[f].end) /\ out[f].end # Fail("missing")
      BY <3>1, EndsDiffer DEF Failure
    <3> QED BY <1>3, <3>1, <3>2 DEF EndRight, Answered
  <2> QED BY <2>1, <2>2
<1> QED BY <1>1, <1>4, <1>5 DEF ResolvedRight, base

\* What StickyKept says of one flag and its answer, given records g.
Kept(ks, flag, g, end) ==
  \A i \in DOMAIN flag.rules :
    LET rule == flag.rules[i]
    IN  end.rule = rule.name /\ rule.mat # NoSpec =>
          \A r \in g :
            /\ rule.mat.ignore /\ rule.mat.read # Blank
            /\ r.unit = ks[rule.selector] /\ r.mat = rule.mat.read /\ r.rule = rule.name
            /\ Cardinality({j \in DOMAIN rule.assigns : rule.assigns[j].variant = r.variant}) = 1
            /\ r.variant \in flag.variants
            => end.variant = r.variant

\* No rule that reads a materialization is credited.
Silent(flag, end) == \A i \in DOMAIN flag.rules : Reads(flag.rules[i]) => end.rule # flag.rules[i].name

\* A store has one record per unit, materialization and rule.
Distinct(g) ==
  \A r1, r2 \in g : r1.unit = r2.unit /\ r1.mat = r2.mat /\ r1.rule = r2.rule /\ r1.rule # NoRule => r1 = r2

LEMMA SilentKept ==
  ASSUME NEW flag, NEW end, Silent(flag, end), NEW g, NEW ks
  PROVE  Kept(ks, flag, g, end)
BY DEF Silent, Kept, Reads

LEMMA AnsweredBy ==
  ASSUME NEW base, NEW ss, NEW flag, GoodFlag(ss, flag), NEW end, Answered(base, flag, end),
         NEW i \in DOMAIN flag.rules, end.rule = flag.rules[i].name
  PROVE  RuleRight(base, flag, flag.rules[i], end)
<1>1. ~Neutral(end)
  <2>1. flag.rules[i].name # NoRule
    BY DEF GoodFlag, GoodRule
  <2> QED BY <2>1, EndsDiffer DEF Neutral
<1>2. PICK j \in 1 .. Len(flag.rules) :
        Credited(end, flag.rules[j]) /\ RuleRight(base, flag, flag.rules[j], end)
  BY <1>1 DEF Answered
<1>3. end.rule = flag.rules[j].name
  BY <1>2, EndsDiffer DEF Credited
<1>4. j = i
  BY <1>3 DEF GoodFlag
<1> QED BY <1>2, <1>4

LEMMA DiscoverySilent ==
  ASSUME NEW base, NEW ss, NEW flag, GoodFlag(ss, flag), NEW end, Answered(base, flag, end),
         base.ctx.mode = "discovery"
  PROVE  Silent(flag, end)
BY AnsweredBy DEF Silent, RuleRight

LEMMA CompleteKept ==
  ASSUME NEW base, NEW ss, NEW flag, GoodFlag(ss, flag), NEW end, Answered(base, flag, end),
         base.ctx.mode = "complete", Distinct(base.ctx.records), base.keys = keys
  PROVE  Kept(keys, flag, base.ctx.records, end)
<1> DEFINE g == base.ctx.records
<1> SUFFICES ASSUME NEW i \in DOMAIN flag.rules,
                    end.rule = flag.rules[i].name /\ flag.rules[i].mat # NoSpec,
                    NEW r \in g,
                    flag.rules[i].mat.ignore /\ flag.rules[i].mat.read # Blank,
                    r.unit = keys[flag.rules[i].selector] /\ r.mat = flag.rules[i].mat.read
                      /\ r.rule = flag.rules[i].name,
                    Cardinality({j \in DOMAIN flag.rules[i].assigns :
                                   flag.rules[i].assigns[j].variant = r.variant}) = 1,
                    r.variant \in flag.variants
             PROVE  end.variant = r.variant
  BY DEF Kept
<1> DEFINE rule == flag.rules[i]
           env == EnvOf(base, rule)
<1>1. RuleRight(base, flag, rule, end) /\ Reads(rule)
  BY AnsweredBy DEF Reads
<1>2. base.keys[rule.selector] # Bad
  BY <1>1 DEF RuleRight
<1>3. env.unit = r.unit /\ env.ctx.records = g
  BY <1>2 DEF EnvOf, UnitOf
<1>4. rule.name # NoRule
  BY DEF GoodFlag, GoodRule
<1> HIDE DEF env
<1>5. \A s \in RecordsOf(env, rule) : s = r
  BY <1>3, <1>4 DEF RecordsOf, Distinct
<1>6. r \in RecordsOf(env, rule)
  BY <1>3 DEF RecordsOf
<1>7. Pinned(env, flag, rule)
  <2>1. r.variant # Blank
    BY DEF GoodFlag
  <2>2. Offers(rule, r.variant)
    BY DEF Offers
  <2> HIDE DEF rule
  <2> QED BY <1>5, <2>1, <2>2 DEF Pinned, rule
<1> QED BY <1>1, <1>6, <1>7 DEF RuleRight, env

\* The inductive invariant: while suspended, no rule that needs a lookup has
\* been credited yet, and the records read are the store's.
StickyInv ==
  /\ conf \in Confs /\ Distinct(store)
  /\ updates \in Nat /\ began.updates \in Nat
  /\ began.updates <= updates /\ (began.updates = updates => conf = began.conf)
  /\ pc \in {"suspended", "answered"} /\ updates = began.updates =>
       \A f \in DOMAIN resolved : f \in DOMAIN conf.flags
  /\ pc = "suspended" =>
       /\ began.mode = "discovery"
       /\ \A r \in got : r.rule = NoRule \/ r \in store
       /\ updates = began.updates =>
            \A f \in DOMAIN resolved : Silent(conf.flags[f], resolved[f].end)
  /\ pc = "answered" /\ began.mode # "unsupported" /\ updates = began.updates =>
       \A f \in DOMAIN resolved : Kept(keys, began.conf.flags[f], Given, resolved[f].end)

LEMMA StickyInvImplies == StickyInv => StickyKept
BY DEF StickyInv, StickyKept, Kept

LEMMA StickyInit == Init => StickyInv
<1> SUFFICES ASSUME Init PROVE StickyInv
  OBVIOUS
<1>1. store \in Stores /\ conf \in Confs /\ pc = "idle" /\ updates = 0
      /\ began = [mode |-> "none", conf |-> conf, store |-> store, updates |-> 0]
  BY DEF Init
<1>2. Distinct(store)
  BY <1>1, StatesAssumption DEF Distinct
<1> QED BY <1>1, <1>2 DEF StickyInv

\* Beginning a resolve, with the records at hand or none.
LEMMA StickyBegin ==
  ASSUME StickyInv, NEW mode \in {"discovery", "complete", "unsupported"}, NEW records,
         mode = "complete" => records = store, Begin(mode, records)
  PROVE  StickyInv'
<1> DEFINE out == ResolveFlags(conf, mode, records, << >>, {})
           base == Base(conf, mode, records)
<1>1. GoodConf(conf)
  BY ConfsGood DEF StickyInv
<1>2. ResolvedRight(conf, mode, records, << >>, out)
  BY <1>1, ResolveFlagsRight
<1>3. /\ pc' = out.pc /\ resolved' = out.resolved /\ got' = {}
      /\ began' = [mode |-> mode, conf |-> conf, store |-> store, updates |-> updates]
      /\ conf' = conf /\ keys' = keys /\ store' = store /\ updates' = updates
  BY DEF Begin, Becomes
<1>4. base.ctx.mode = mode /\ base.ctx.records = records /\ base.keys = keys
  BY DEF Base
<1>5. ASSUME out.pc # "failed", NEW f \in DOMAIN out.resolved
      PROVE  /\ f \in DOMAIN conf.flags /\ GoodFlag(conf.segs, conf.flags[f])
             /\ Answered(base, conf.flags[f], out.resolved[f].end)
  <2>1. DOMAIN << >> = {}
    OBVIOUS
  <2> HIDE DEF out
  <2> QED BY <1>1, <1>2, <1>5, <2>1 DEF ResolvedRight, GoodConf
<1> HIDE DEF out, base
<1>6. ASSUME out.pc # "failed", mode = "discovery", NEW f \in DOMAIN out.resolved
      PROVE  Silent(conf.flags[f], out.resolved[f].end)
  BY <1>4, <1>5, <1>6, DiscoverySilent
<1>7. ASSUME out.pc # "failed", mode = "complete", NEW f \in DOMAIN out.resolved
      PROVE  Kept(keys, conf.flags[f], store, out.resolved[f].end)
  <2>1. base.ctx.mode = "complete" /\ Distinct(base.ctx.records) /\ base.keys = keys
    BY <1>4, <1>7 DEF StickyInv
  <2>2. Kept(keys, conf.flags[f], base.ctx.records, out.resolved[f].end)
    BY <1>5, <1>7, <2>1, CompleteKept
  <2> QED BY <1>4, <1>7, <2>2
<1>8. out.pc = "suspended" => mode = "discovery"
  BY <1>2 DEF ResolvedRight
<1>9. ASSUME pc' = "answered", mode # "unsupported", NEW f \in DOMAIN resolved'
      PROVE  Kept(keys, began.conf.flags[f], Given, resolved[f].end)'
  <2>1. f \in DOMAIN out.resolved /\ out.pc # "failed" /\ resolved'[f] = out.resolved[f]
    BY <1>3, <1>9
  <2>2. CASE mode = "discovery"
    <3>1. Given' = {} /\ began'.conf.flags[f] = conf.flags[f]
      BY <1>3, <2>2 DEF Given
    <3>2. Silent(conf.flags[f], out.resolved[f].end)
      BY <1>6, <2>1, <2>2
    <3> QED BY <1>3, <2>1, <3>1, <3>2, SilentKept
  <2>3. CASE mode = "complete"
    <3>1. Given' = store /\ began'.conf.flags[f] = conf.flags[f]
      BY <1>3, <2>3 DEF Given
    <3>2. Kept(keys, conf.flags[f], store, out.resolved[f].end)
      BY <1>7, <2>1, <2>3
    <3> QED BY <1>3, <2>1, <3>1, <3>2
  <2> QED BY <1>9, <2>2, <2>3
<1>10. StickyInv!1' /\ StickyInv!2' /\ StickyInv!3'
  BY <1>3 DEF StickyInv, Distinct
<1>11. StickyInv!4'
  BY <1>3, <1>5
<1>12. StickyInv!5'
  BY <1>3, <1>5, <1>6, <1>8
<1>13. StickyInv!6'
  BY <1>3, <1>9
<1> QED BY <1>10, <1>11, <1>12, <1>13 DEF StickyInv

LEMMA StickyResume == StickyInv /\ Resume => StickyInv'
<1> SUFFICES ASSUME StickyInv, Resume PROVE StickyInv'
  OBVIOUS
<1> DEFINE out == ResolveFlags(conf, "complete", got, resolved, writes)
           base == Base(conf, "complete", got)
<1>1. GoodConf(conf)
  BY ConfsGood DEF StickyInv
<1>2. ResolvedRight(conf, "complete", got, resolved, out)
  BY <1>1, ResolveFlagsRight
<1>3. /\ pc = "suspended" /\ pc' = out.pc /\ resolved' = out.resolved
      /\ got' = got /\ began' = began /\ conf' = conf /\ keys' = keys /\ store' = store /\ updates' = updates
  BY DEF Resume, Becomes
<1>4. base.ctx.mode = "complete" /\ base.ctx.records = got /\ base.keys = keys
  BY DEF Base
<1>5. Distinct(got)
  BY <1>3 DEF StickyInv, Distinct
<1> HIDE DEF out, base
<1>6. out.pc \in {"failed", "answered"}
  BY <1>2 DEF ResolvedRight
<1>7. ASSUME out.pc # "failed", updates = began.updates, NEW f \in DOMAIN out.resolved
      PROVE  f \in DOMAIN conf.flags /\ Kept(keys, conf.flags[f], got, out.resolved[f].end)
  <2>1. CASE f \in DOMAIN resolved /\ out.resolved[f] = resolved[f]
    <3>1. f \in DOMAIN conf.flags /\ Silent(conf.flags[f], out.resolved[f].end)
      BY <1>3, <1>7, <2>1 DEF StickyInv
    <3> QED BY <3>1, SilentKept
  <2>2. CASE f \in DOMAIN conf.flags /\ Answered(base, conf.flags[f], out.resolved[f].end)
    <3>1. GoodFlag(conf.segs, conf.flags[f])
      BY <1>1, <2>2 DEF GoodConf
    <3>2. Distinct(base.ctx.records)
      BY <1>4, <1>5
    <3>3. Kept(keys, conf.flags[f], base.ctx.records, out.resolved[f].end)
      BY <1>4, <2>2, <3>1, <3>2, CompleteKept
    <3> QED BY <1>4, <2>2, <3>3
  <2> QED BY <1>2, <1>7, <2>1, <2>2 DEF ResolvedRight, base
<1>8. ASSUME pc' = "answered", updates = began.updates, NEW f \in DOMAIN resolved'
      PROVE  Kept(keys, began.conf.flags[f], Given, resolved[f].end)'
  <2>1. f \in DOMAIN out.resolved /\ out.pc # "failed" /\ resolved'[f] = out.resolved[f]
    BY <1>3, <1>8
  <2>2. Given' = got /\ began'.conf = conf
    BY <1>3, <1>8 DEF Given, StickyInv
  <2>3. Kept(keys, conf.flags[f], got, out.resolved[f].end)
    BY <1>7, <1>8, <2>1
  <2> QED BY <1>3, <2>1, <2>2, <2>3
<1>9. StickyInv!1' /\ StickyInv!2' /\ StickyInv!3'
  BY <1>3 DEF StickyInv, Distinct
<1>10. StickyInv!4'
  BY <1>3, <1>6, <1>7
<1>11. StickyInv!5'
  BY <1>3, <1>6
<1>12. StickyInv!6'
  BY <1>3, <1>8
<1> QED BY <1>9, <1>10, <1>11, <1>12 DEF StickyInv

\* The other steps leave what was resolved alone.
LEMMA StickyOthers ==
  StickyInv /\ (\/ \E k \in left : Read(k)
                \/ \E w \in writes : Write(w)
                \/ Done
                \/ \E c \in Confs : SetResolverState(c)
                \/ UNCHANGED vars) => StickyInv'
<1> SUFFICES ASSUME StickyInv PROVE
             (\/ \E k \in left : Read(k)
              \/ \E w \in writes : Write(w)
              \/ Done
              \/ \E c \in Confs : SetResolverState(c)
              \/ UNCHANGED vars) => StickyInv'
  OBVIOUS
<1>1. ASSUME NEW k \in left, Read(k) PROVE StickyInv'
  <2>1. \A r \in Stored(k) : r.rule = NoRule \/ r \in store
    BY DEF Stored
  <2>2. /\ pc = "suspended" /\ pc' = pc /\ resolved' = resolved /\ began' = began /\ conf' = conf
        /\ store' = store /\ updates' = updates
        /\ got' = got \cup Stored(k) \/ got' = got
    BY <1>1 DEF Read
  <2>3. \A r \in got' : r.rule = NoRule \/ r \in store
    BY <2>1, <2>2 DEF StickyInv
  <2> QED BY <2>2, <2>3 DEF StickyInv, Distinct
<1>2. ASSUME NEW w \in writes, Write(w) PROVE StickyInv'
  <2>1. /\ pc = "answered" /\ pc' = pc /\ resolved' = resolved /\ began' = began /\ conf' = conf
        /\ updates' = updates /\ keys' = keys /\ got' = got
        /\ \/ store' = {r \in store : ~(r.unit = w.unit /\ r.mat = w.mat /\ r.rule = w.rule)} \cup {w}
           \/ store' = store
    BY <1>2 DEF Write
  <2>2. Distinct(store')
    BY <2>1 DEF StickyInv, Distinct
  <2>3. Given' = Given
    BY <2>1 DEF Given
  <2>4. StickyInv!6'
    BY <2>1, <2>3 DEF StickyInv
  <2> QED BY <2>1, <2>2, <2>4 DEF StickyInv
<1>3. ASSUME Done PROVE StickyInv'
  BY <1>3 DEF Done, StickyInv, Distinct
<1>4. ASSUME NEW c \in Confs, SetResolverState(c) PROVE StickyInv'
  <2>1. /\ conf' = c /\ updates' = updates + 1 /\ store' = store /\ pc' = pc /\ resolved' = resolved
        /\ got' = got /\ began' = began
    BY <1>4 DEF SetResolverState
  <2>2. began'.updates # updates'
    BY <2>1 DEF StickyInv
  <2> QED BY <2>1, <2>2 DEF StickyInv, Distinct
<1>5. ASSUME UNCHANGED vars PROVE StickyInv'
  <2>1. /\ conf' = conf /\ store' = store /\ updates' = updates /\ began' = began /\ pc' = pc
        /\ resolved' = resolved /\ got' = got /\ keys' = keys
    BY <1>5 DEF vars
  <2>2. Given' = Given
    BY <2>1 DEF Given
  <2>3. StickyInv!6'
    BY <2>1, <2>2 DEF StickyInv
  <2> QED BY <2>1, <2>3 DEF StickyInv, Distinct
<1> QED BY <1>1, <1>2, <1>3, <1>4, <1>5

LEMMA StickyStep == StickyInv /\ [Next]_vars => StickyInv'
<1> SUFFICES ASSUME StickyInv, [Next]_vars PROVE StickyInv'
  OBVIOUS
<1>1. CASE ResolveDeferred
  BY <1>1, StickyBegin DEF ResolveDeferred
<1>2. CASE ResolveStatic
  BY <1>2, StickyBegin DEF ResolveStatic
<1>3. CASE ResolveWithout
  BY <1>3, StickyBegin DEF ResolveWithout
<1>4. CASE Resume
  BY <1>4, StickyResume
<1> QED BY <1>1, <1>2, <1>3, <1>4, StickyOthers DEF Next

(* Whatever the rules, their allocation and the store: a rule that is      *)
(* given a record of a variant it still offers, and is to ignore its       *)
(* targeting, answers with that variant or not at all (resolve_flag,       *)
(* select_assignment), whether the resolve was suspended or not and        *)
(* whichever reads failed.                                                 *)
THEOREM StickyCorrect == Spec => []StickyKept
<1>1. Spec => []StickyInv
  BY StickyInit, StickyStep, PTL DEF Spec
<1> QED BY <1>1, StickyInvImplies, PTL

-----------------------------------------------------------------------------
(* Suspending and resuming: what the two halves evaluate.                  *)

\* The cases of EvaluateCases.
EvaluatesBy(env, v, e) ==
  /\ e.op = "attribute" => Evaluate(env, v, e) = Value(e.val)
  /\ e.op = "materialized" => Evaluate(env, v, e) = MaterializedMatch(env, e.mat)
  /\ e.op = "segment" =>
       /\ e.seg \notin DOMAIN env.segs \/ e.seg \in v => Evaluate(env, v, e) = Value(F)
       /\ e.seg \in DOMAIN env.segs /\ e.seg \notin v =>
            Evaluate(env, v, e) =
              Matched(env, v, e.seg, Evaluate(env, v \cup {e.seg}, env.segs[e.seg].expr))
  /\ e.op = "not" => Evaluate(env, v, e) = [Evaluate(env, v, e.args[1]) EXCEPT !.val = Negate(@)]
  /\ e.op = "and" => Evaluate(env, v, e) = Combine([i \in DOMAIN e.args |-> Evaluate(env, v, e.args[i])], F)
  /\ e.op = "or" => Evaluate(env, v, e) = Combine([i \in DOMAIN e.args |-> Evaluate(env, v, e.args[i])], T)

LEMMA EvaluateBy ==
  ASSUME NEW env, Table(env.segs), NEW v \in SUBSET DOMAIN env.segs, NEW e \in Exprs
  PROVE  EvaluatesBy(env, v, e)
BY EvaluateCases DEF EvaluatesBy

\* Matching a segment never comes back to the segment itself.
SelfFree(ss) ==
  \A s \in DOMAIN ss : \E X \in SUBSET Calls(ss) :
    /\ <<{s}, ss[s].expr>> \in X
    /\ \A c \in X : Follows(ss, c) \subseteq X /\ ~(c[2].op = "segment" /\ c[2].seg = s)

\* Inside the segment or not, its targeting then gives the same.
LEMMA OutsideSame ==
  ASSUME NEW env, Table(env.segs), SelfFree(env.segs), NEW s \in DOMAIN env.segs
  PROVE  Evaluate(env, {}, env.segs[s].expr) = Evaluate(env, {s}, env.segs[s].expr)
<1>0. PICK X \in SUBSET Calls(env.segs) :
        /\ <<{s}, env.segs[s].expr>> \in X
        /\ \A c \in X : Follows(env.segs, c) \subseteq X /\ ~(c[2].op = "segment" /\ c[2].seg = s)
  BY DEF SelfFree
<1> DEFINE Fine(v, x) == Evaluate(env, v \ {s}, x) = Evaluate(env, v, x)
           Holds == {c \in Calls(env.segs) : c \in X => Fine(c[1], c[2])}
<1>1. ASSUME NEW c \in Calls(env.segs), Follows(env.segs, c) \subseteq Holds, c \in X
      PROVE  Fine(c[1], c[2])
  <2> DEFINE v == c[1]
             x == c[2]
             w == v \ {s}
  <2>1. /\ v \in SUBSET DOMAIN env.segs /\ w \in SUBSET DOMAIN env.segs /\ x \in Exprs
        /\ \/ x \in Refs /\ x.op \in {"attribute", "segment", "materialized"}
           \/ x.op = "not" /\ DOMAIN x.args = 1 .. 1 /\ x.args[1] \in Exprs
           \/ x.op \in {"and", "or"} /\ x.args \in Seq(Exprs)
    BY CallShape
  <2>2. \A b \in Follows(env.segs, c) : Fine(b[1], b[2])
    BY <1>0, <1>1
  <2>3. x.op = "segment" => x.seg # s
    BY <1>0, <1>1
  <2>w. w = v \ {s}
    OBVIOUS
  <2> HIDE DEF v, x, w
  <2>c. EvaluatesBy(env, v, x) /\ EvaluatesBy(env, w, x)
    <3>1. Table(env.segs) /\ x \in Exprs
      BY <2>1
    <3> QED BY <2>1, <3>1, EvaluateBy
  <2> SUFFICES Evaluate(env, w, x) = Evaluate(env, v, x)
    BY <2>w DEF v, x
  <2>4. CASE x.op \in {"attribute", "materialized"}
    <3>1. CASE x.op = "attribute"
      BY <2>c, <3>1 DEF EvaluatesBy
    <3>2. CASE x.op = "materialized"
      BY <2>c, <3>2 DEF EvaluatesBy
    <3> QED BY <2>4, <3>1, <3>2
  <2>6. CASE x.op = "segment"
    <3>0. x.seg \in w <=> x.seg \in v
      BY <2>3, <2>6, <2>w
    <3>1. CASE x.seg \notin DOMAIN env.segs \/ x.seg \in v
      <4>1. Evaluate(env, v, x) = Value(F) /\ Evaluate(env, w, x) = Value(F)
        BY <2>6, <3>0, <3>1, <2>c DEF EvaluatesBy
      <4> QED BY <4>1
    <3>2. CASE x.seg \in DOMAIN env.segs /\ x.seg \notin v
      <4> DEFINE t == v \cup {x.seg}
                 y == env.segs[x.seg].expr
      <4>1. <<t, y>> \in Follows(env.segs, c)
        BY <2>6, <3>2 DEF Follows, v, x
      <4>2. Evaluate(env, t \ {s}, y) = Evaluate(env, t, y)
        <5>1. Fine(<<t, y>>[1], <<t, y>>[2])
          <6> HIDE DEF Fine, t, y
          <6> QED BY <4>1, <2>2
        <5> HIDE DEF t, y
        <5> QED BY <5>1
      <4>3. t \ {s} = w \cup {x.seg}
        BY <2>3, <2>6, <2>w
      <4>4. /\ Evaluate(env, v, x) = Matched(env, v, x.seg, Evaluate(env, t, y))
            /\ Evaluate(env, w, x) = Matched(env, w, x.seg, Evaluate(env, w \cup {x.seg}, y))
        BY <2>6, <3>0, <3>2, <2>c DEF EvaluatesBy
      <4>5. \A o : Matched(env, v, x.seg, o) = Matched(env, w, x.seg, o)
        BY <3>0 DEF Matched
      <4> HIDE DEF t, y
      <4> QED BY <4>2, <4>3, <4>4, <4>5
    <3> QED BY <3>1, <3>2
  <2>7. CASE x.op = "not"
    <3>1. <<v, x.args[1]>> \in Follows(env.segs, c)
      BY <2>1, <2>7 DEF Follows, v, x
    <3>2. Evaluate(env, w, x.args[1]) = Evaluate(env, v, x.args[1])
      <4>1. Fine(<<v, x.args[1]>>[1], <<v, x.args[1]>>[2])
        <5> HIDE DEF Fine
        <5> QED BY <3>1, <2>2
      <4> QED BY <4>1, <2>w
    <3>3. /\ Evaluate(env, v, x) = [Evaluate(env, v, x.args[1]) EXCEPT !.val = Negate(@)]
          /\ Evaluate(env, w, x) = [Evaluate(env, w, x.args[1]) EXCEPT !.val = Negate(@)]
      BY <2>7, <2>c DEF EvaluatesBy
    <3> QED BY <3>2, <3>3
  <2>8. CASE x.op \in {"and", "or"}
    <3>1. \A i \in DOMAIN x.args : Evaluate(env, w, x.args[i]) = Evaluate(env, v, x.args[i])
      <4> SUFFICES ASSUME NEW i \in DOMAIN x.args
                   PROVE  Evaluate(env, w, x.args[i]) = Evaluate(env, v, x.args[i])
        OBVIOUS
      <4>1. <<v, x.args[i]>> \in Follows(env.segs, c)
        BY <2>8 DEF Follows, v, x
      <4>2. Fine(<<v, x.args[i]>>[1], <<v, x.args[i]>>[2])
        <5> HIDE DEF Fine
        <5> QED BY <4>1, <2>2
      <4> QED BY <4>2, <2>w
    <3>2. [i \in DOMAIN x.args |-> Evaluate(env, w, x.args[i])] = [i \in DOMAIN x.args |-> Evaluate(env, v, x.args[i])]
      BY <3>1
    <3>3. CASE x.op = "and"
      <4>1. /\ Evaluate(env, v, x) = Combine([i \in DOMAIN x.args |-> Evaluate(env, v, x.args[i])], F)
            /\ Evaluate(env, w, x) = Combine([i \in DOMAIN x.args |-> Evaluate(env, w, x.args[i])], F)
        BY <3>3, <2>c DEF EvaluatesBy
      <4> QED BY <3>2, <4>1
    <3>4. CASE x.op = "or"
      <4>1. /\ Evaluate(env, v, x) = Combine([i \in DOMAIN x.args |-> Evaluate(env, v, x.args[i])], T)
            /\ Evaluate(env, w, x) = Combine([i \in DOMAIN x.args |-> Evaluate(env, w, x.args[i])], T)
        BY <3>4, <2>c DEF EvaluatesBy
      <4> QED BY <3>2, <4>1
    <3> QED BY <2>8, <3>3, <3>4
  <2> QED BY <2>1, <2>4, <2>6, <2>7, <2>8
<1>2. Calls(env.segs) \subseteq Holds
  <2>1. \A c \in Calls(env.segs) : Follows(env.segs, c) \subseteq Holds => c \in Holds
    BY <1>1
  <2> HIDE DEF Holds
  <2> QED BY <2>1, CallInduction
<1>3. Fine({s}, env.segs[s].expr)
  <2>1. <<{s}, env.segs[s].expr>> \in Calls(env.segs)
    BY <1>0
  <2>2. Fine(<<{s}, env.segs[s].expr>>[1], <<{s}, env.segs[s].expr>>[2])
    <3> HIDE DEF Fine
    <3> QED BY <1>0, <1>2, <2>1
  <2> QED BY <2>2
<1>4. {s} \ {s} = {}
  OBVIOUS
<1> QED BY <1>3, <1>4

\* Without references to segments nothing can come back.
LEMMA NoReferencesSelfFree ==
  ASSUME NEW ss, Table(ss), \A e \in Refs : e.op # "segment"
  PROVE  SelfFree(ss)
<1> SUFFICES ASSUME NEW s \in DOMAIN ss
             PROVE  \E X \in SUBSET Calls(ss) :
                      /\ <<{s}, ss[s].expr>> \in X
                      /\ \A c \in X : Follows(ss, c) \subseteq X /\ ~(c[2].op = "segment" /\ c[2].seg = s)
  BY DEF SelfFree
<1>1. <<{s}, ss[s].expr>> \in Calls(ss)
  BY DEF Table, Calls
<1>2. \A c \in Calls(ss) : Follows(ss, c) \subseteq Calls(ss)
  <2>1. MaxDepth \in 0 .. MaxDepth
    BY TargetingAssumption
  <2>2. \A c \in Calls(ss) : c[2] \in Nested[MaxDepth]
    BY DEF Calls, Exprs
  <2> QED BY <2>1, <2>2, FollowsSmaller
<1>3. \A c \in Calls(ss) : c[2].op # "segment"
  BY CallShape
<1> QED BY <1>1, <1>2, <1>3

\* Without a unit nothing is looked up, so nothing is unknown.
LEMMA QuietEvaluate ==
  ASSUME NEW env, Table(env.segs), env.unit = NoUnit, Recognizing
  PROVE  \A v \in SUBSET DOMAIN env.segs, x \in Exprs :
           IsOut(Evaluate(env, v, x)) /\ Evaluate(env, v, x).val \in {T, F}
<1> DEFINE Fine(v, x) == IsOut(Evaluate(env, v, x)) /\ Evaluate(env, v, x).val \in {T, F}
           Holds == {c \in Calls(env.segs) : Fine(c[1], c[2])}
<1>0. \A o : IsOut(Value(o)) /\ Value(o).val = o
  BY DEF IsOut, Value
<1>1. ASSUME NEW c \in Calls(env.segs), Follows(env.segs, c) \subseteq Holds PROVE Fine(c[1], c[2])
  <2> DEFINE v == c[1]
             x == c[2]
  <2>1. /\ v \in SUBSET DOMAIN env.segs /\ x \in Exprs
        /\ \/ x \in Refs /\ x.op \in {"attribute", "segment", "materialized"}
           \/ x.op = "not" /\ DOMAIN x.args = 1 .. 1 /\ x.args[1] \in Exprs
           \/ x.op \in {"and", "or"} /\ x.args \in Seq(Exprs)
    BY CallShape
  <2>2. \A b \in Follows(env.segs, c) : Fine(b[1], b[2])
    BY <1>1
  <2> HIDE DEF v, x
  <2>c. EvaluatesBy(env, v, x)
    <3>1. Table(env.segs) /\ v \in SUBSET DOMAIN env.segs /\ x \in Exprs
      BY <2>1
    <3> QED BY <3>1, EvaluateBy
  <2>4. CASE x.op = "attribute"
    <3>1. Evaluate(env, v, x) = Value(x.val) /\ x.val \in {T, F}
      BY <2>1, <2>4, <2>c DEF EvaluatesBy, Recognizing
    <3> QED BY <3>1, <1>0 DEF v, x
  <2>5. CASE x.op = "materialized"
    <3>1. Evaluate(env, v, x) = Value(F)
      BY <2>5, <2>c DEF EvaluatesBy, MaterializedMatch
    <3> QED BY <3>1, <1>0 DEF v, x
  <2>6. CASE x.op = "segment"
    <3>1. CASE x.seg \notin DOMAIN env.segs \/ x.seg \in v
      <4>1. Evaluate(env, v, x) = Value(F)
        BY <2>6, <3>1, <2>c DEF EvaluatesBy
      <4> QED BY <4>1, <1>0 DEF v, x
    <3>2. CASE x.seg \in DOMAIN env.segs /\ x.seg \notin v
      <4> DEFINE w == v \cup {x.seg}
                 y == env.segs[x.seg].expr
      <4>1. <<w, y>> \in Follows(env.segs, c)
        BY <2>6, <3>2 DEF Follows, v, x
      <4>2. Fine(w, y)
        <5>1. Fine(<<w, y>>[1], <<w, y>>[2])
          <6> HIDE DEF Fine, w, y
          <6> QED BY <4>1, <2>2
        <5> QED BY <5>1
      <4>3. Evaluate(env, v, x) = Matched(env, v, x.seg, Evaluate(env, w, y))
        BY <2>6, <3>2, <2>c DEF EvaluatesBy
      <4> HIDE DEF w, y
      <4> QED BY <4>2, <4>3, <3>2 DEF Matched, IsOut, v, x
    <3> QED BY <3>1, <3>2
  <2>7. CASE x.op = "not"
    <3>1. <<v, x.args[1]>> \in Follows(env.segs, c)
      BY <2>1, <2>7 DEF Follows, v, x
    <3>2. Fine(v, x.args[1])
      <4>1. Fine(<<v, x.args[1]>>[1], <<v, x.args[1]>>[2])
        <5> HIDE DEF Fine
        <5> QED BY <3>1, <2>2
      <4> QED BY <4>1
    <3>3. Evaluate(env, v, x) = [Evaluate(env, v, x.args[1]) EXCEPT !.val = Negate(@)]
      BY <2>7, <2>c DEF EvaluatesBy
    <3>4. \A o : IsOut(o) => /\ IsOut([o EXCEPT !.val = Negate(@)])
                             /\ [o EXCEPT !.val = Negate(@)].val = Negate(o.val)
      BY DEF IsOut
    <3>5. \A o \in {T, F} : Negate(o) \in {T, F}
      BY DEF Negate
    <3> QED BY <3>2, <3>3, <3>4, <3>5 DEF v, x
  <2>8. CASE x.op \in {"and", "or"}
    <3>1. PICK dec \in {T, F} :
            Evaluate(env, v, x) = Combine([i \in DOMAIN x.args |-> Evaluate(env, v, x.args[i])], dec)
      BY <2>8, <2>c DEF EvaluatesBy
    <3> DEFINE n == Len(x.args)
               ds == [i \in DOMAIN x.args |-> Evaluate(env, v, x.args[i])]
               vals == {ds[i].val : i \in 1 .. n}
    <3>2. n \in Nat /\ DOMAIN x.args = 1 .. n
      BY <2>1, <2>8
    <3>3. \A i \in 1 .. n : ds[i].val \in {T, F}
      <4> SUFFICES ASSUME NEW i \in 1 .. n PROVE ds[i].val \in {T, F}
        OBVIOUS
      <4>1. <<v, x.args[i]>> \in Follows(env.segs, c)
        BY <2>8, <3>2 DEF Follows, v, x
      <4>2. Fine(<<v, x.args[i]>>[1], <<v, x.args[i]>>[2])
        <5> HIDE DEF Fine
        <5> QED BY <4>1, <2>2
      <4> QED BY <4>2, <3>2
    <3>4. Tuple(n, ds)
      BY <3>2 DEF Tuple
    <3> HIDE DEF n, ds
    <3>5. Values(n, ds, vals) /\ vals \subseteq {T, F}
      BY <3>3 DEF Values
    <3>6. \A o : IsOut(Combine(o, dec))
      BY DEF Combine, IsOut
    <3> HIDE DEF vals
    <3>7. Combine(ds, dec).val = IF dec \in vals THEN dec ELSE IF U \in vals THEN U ELSE Negate(dec)
      BY <3>2, <3>4, <3>5, CombineKleene
    <3>8. Combine(ds, dec).val \in {T, F}
      BY <3>5, <3>7 DEF Negate, T, F, U
    <3> QED BY <3>1, <3>6, <3>8 DEF ds, v, x
  <2> QED BY <2>1, <2>4, <2>5, <2>6, <2>7, <2>8
<1>2. Calls(env.segs) \subseteq Holds
  <2>1. \A c \in Calls(env.segs) : Follows(env.segs, c) \subseteq Holds => c \in Holds
    BY <1>1
  <2> HIDE DEF Holds
  <2> QED BY <2>1, CallInduction
<1>3. \A v \in SUBSET DOMAIN env.segs, x \in Exprs : Fine(v, x)
  <2> SUFFICES ASSUME NEW v \in SUBSET DOMAIN env.segs, NEW x \in Exprs PROVE Fine(v, x)
    OBVIOUS
  <2>1. <<v, x>> \in Holds
    <3> HIDE DEF Holds
    <3> QED BY <1>2 DEF Calls
  <2>2. Fine(<<v, x>>[1], <<v, x>>[2])
    <3> HIDE DEF Fine
    <3> QED BY <2>1
  <2> QED BY <2>2
<1> QED BY <1>3

\* What the halves of a resolve say of a segment: d the discovery, e1 and e2
\* resolving with records.
Halves(d, e1, e2, K, s) ==
  /\ d.unit = NoUnit => SegmentMatch(d, {}, s).val # U
  /\ Pair(SegmentMatch(d, {}, s), SegmentMatch(e1, {}, s))
  /\ Pair(SegmentMatch(d, {}, s), SegmentMatch(e2, {}, s))
  /\ \A e \in {e1, e2} : /\ TargetingMatch(e, {}, s).val \in {T, F}
                         /\ TargetingMatch(e, {}, s).asked \subseteq SegmentMatch(d, {}, s).asked
  /\ SegmentMatch(d, {}, s).asked \subseteq K =>
       /\ SegmentMatch(e1, {}, s) = SegmentMatch(e2, {}, s)
       /\ TargetingMatch(e1, {}, s) = TargetingMatch(e2, {}, s)

LEMMA HalvesAgree ==
  ASSUME NEW d, NEW e1, NEW e2, Kin(d, e1), Kin(d, e2), Table(d.segs), SelfFree(d.segs), Recognizing,
         NEW K, Agree(K, e1, e2), NEW s \in DOMAIN d.segs
  PROVE  Halves(d, e1, e2, K, s)
<1> DEFINE x == d.segs[s].expr
           none == {}
           one == {s}
<1>1. x \in Exprs /\ none \in SUBSET DOMAIN d.segs /\ one \in SUBSET DOMAIN d.segs /\ none \cup {s} = one
      /\ s \notin none
  BY DEF Table
<1>2. e1.segs = d.segs /\ e2.segs = d.segs
  BY DEF Kin
<1>3. ASSUME NEW e \in {d, e1, e2}
      PROVE  /\ SegmentMatch(e, none, s) = Matched(e, none, s, Evaluate(e, one, x))
             /\ TargetingMatch(e, none, s) = Evaluate(e, one, x)
  <2>1. e.segs = d.segs
    BY <1>2
  <2>2. Table(e.segs) /\ SelfFree(e.segs) /\ s \in DOMAIN e.segs
    BY <2>1
  <2>3. Evaluate(e, {}, e.segs[s].expr) = Evaluate(e, {s}, e.segs[s].expr)
    BY <2>2, OutsideSame
  <2>4. Evaluate(e, none, x) = Evaluate(e, one, x)
    BY <2>1, <2>3
  <2>5. TargetingMatch(e, none, s) = Evaluate(e, none, x) /\ TargetingMatch(e, one, s) = Evaluate(e, one, x)
    BY <2>1 DEF TargetingMatch
  <2>6. SegmentMatch(e, none, s) = Matched(e, none, s, TargetingMatch(e, one, s))
    <3> HIDE DEF none, one
    <3> QED BY <1>1 DEF SegmentMatch
  <2> QED BY <2>4, <2>5, <2>6
<1> HIDE DEF x, none, one
<1>4. /\ Pair(Evaluate(d, one, x), Evaluate(e1, one, x))
      /\ Pair(Evaluate(d, one, x), Evaluate(e2, one, x))
      /\ Evaluate(d, one, x).asked \subseteq K => Evaluate(e1, one, x) = Evaluate(e2, one, x)
  BY <1>1, EvaluatePair
<1>5. /\ Pair(SegmentMatch(d, none, s), SegmentMatch(e1, none, s))
      /\ Pair(SegmentMatch(d, none, s), SegmentMatch(e2, none, s))
      /\ SegmentMatch(d, none, s).asked \subseteq K => SegmentMatch(e1, none, s) = SegmentMatch(e2, none, s)
  BY <1>3, <1>4, MatchedPair
<1>6. SegmentMatch(d, none, s).asked = Evaluate(d, one, x).asked
  BY <1>1, <1>3, <1>4 DEF Matched, Pair, IsOut
<1>7. ASSUME d.unit = NoUnit PROVE SegmentMatch(d, none, s).val # U
  <2>1. IsOut(Evaluate(d, one, x)) /\ Evaluate(d, one, x).val \in {T, F}
    BY <1>1, <1>7, QuietEvaluate
  <2> QED BY <1>1, <1>3, <2>1 DEF Matched, IsOut, T, F, U
<1>8. \A e \in {e1, e2} : /\ TargetingMatch(e, none, s).val \in {T, F}
                          /\ TargetingMatch(e, none, s).asked \subseteq SegmentMatch(d, none, s).asked
  BY <1>3, <1>4, <1>6 DEF Pair
<1>9. SegmentMatch(d, none, s).asked \subseteq K => TargetingMatch(e1, none, s) = TargetingMatch(e2, none, s)
  BY <1>3, <1>4, <1>6
<1> QED BY <1>5, <1>7, <1>8, <1>9 DEF Halves, none

\* The states and contexts of the two halves of one resolve.
Matching(d, c) ==
  /\ c.segs = d.segs /\ c.blooms = d.blooms /\ c.keys = d.keys
  /\ d.ctx.mode = "discovery" /\ c.ctx.mode = "complete"

LEMMA RuleAsks ==
  ASSUME NEW d, NEW c, Matching(d, c), Table(d.segs), SelfFree(d.segs), Recognizing,
         NEW flag, NEW rule, GoodRule(d.segs, rule),
         NEW ad, NEW ac, IsAcc(ad), IsAcc(ac), ac.asked \subseteq ad.asked,
         TryRule(d, flag, ad, rule).end = Going
  PROVE  TryRule(c, flag, ac, rule).asked \subseteq TryRule(d, flag, ad, rule).asked
<1> DEFINE bd == TryRule(d, flag, ad, rule)
           bc == TryRule(c, flag, ac, rule)
           ed == EnvOf(d, rule)
           ec == EnvOf(c, rule)
           key == Key(ed.unit, rule.mat.read, rule.name)
<1>1. Turn(d, flag, ad, rule, bd) /\ Turn(c, flag, ac, rule, bc)
  BY TryRuleCases
<1>2. RuleDone(d, flag, ad, rule, bd) /\ bd.end = Going
  BY TryRuleIs
<1> HIDE DEF bd, bc
<1> SUFFICES bc.asked \subseteq bd.asked
  BY DEF bc, bd
<1>3. ad.end = Going /\ ad.asked \subseteq bd.asked
  BY <1>2 DEF RuleDone
<1>4. Kin(ed, ec) /\ ed.segs = d.segs /\ ec.segs = d.segs /\ ed.ctx = d.ctx /\ ec.unit = ed.unit
  BY DEF Matching, EnvOf, UnitOf, Kin
<1>5. /\ BadKey(c, rule) <=> BadKey(d, rule)
      /\ Skipped(c, rule) <=> Skipped(d, rule)
  BY DEF Matching, BadKey, Skipped, UnitOf
<1>6. ~(rule.on /\ BadKey(d, rule))
  <2>1. Stop(ad, KeyError).end = KeyError
    BY StopIs
  <2>2. KeyError # Going
    <3>1. KeyError.kind = "answer" /\ Going.kind = "going"
      BY DEF KeyError, Answer, Going
    <3> QED BY <3>1
  <2>3. rule.on /\ BadKey(d, rule) => bd = Stop(ad, KeyError)
    BY <1>1, <1>3, Zenon DEF Turn
  <2> QED BY <1>2, <2>1, <2>2, <2>3
<1>7. CASE bc = ac
  BY <1>3, <1>7
<1>8. CASE ac.end = Going /\ rule.on /\ ~BadKey(d, rule) /\ ~Skipped(d, rule)
  <2>1. Tried(ed, rule) /\ Tried(ec, rule) /\ rule.seg \in DOMAIN ed.segs
    <3> HIDE DEF ed, ec
    <3> QED BY <1>4, <1>8 DEF Tried, GoodRule
  <2> HIDE DEF ed, ec
  <2>2. SegmentAsks(ec, rule) \subseteq SegmentAsks(ed, rule) /\ TargetingAsks(ec, rule) \subseteq SegmentAsks(ed, rule)
    <3> DEFINE none == {}
    <3>1. Agree(none, ec, ec) /\ Table(ed.segs) /\ SelfFree(ed.segs)
      BY <1>4 DEF Agree
    <3> HIDE DEF none
    <3>2. Halves(ed, ec, ec, none, rule.seg)
      BY <1>4, <2>1, <3>1, HalvesAgree
    <3> QED BY <3>2 DEF Halves, Pair, SegmentAsks, TargetingAsks
  <2>3. CASE Reads(rule)
    <3>1. bd = ByMaterialization(ed, flag, ad, rule) /\ bc = ByMaterialization(ec, flag, ac, rule)
      BY <1>1, <1>3, <1>5, <1>8, <2>3 DEF Turn, ed, ec
    <3>2. LookupTurn(ed, flag, ad, rule, bd) /\ LookupTurn(ec, flag, ac, rule, bc)
      BY <1>3, <1>8, <2>1, <3>1, ByMaterializationIs
    <3>3. bd.asked = ad.asked \cup {key} \cup SegmentAsks(ed, rule)
      BY <1>4, <3>2 DEF LookupTurn, Matching
    <3>4. bc.asked \subseteq ac.asked \cup {key} \cup SegmentAsks(ec, rule) \cup TargetingAsks(ec, rule)
      BY <1>4, <3>2 DEF LookupTurn
    <3> HIDE DEF key
    <3> QED BY <1>3, <2>2, <3>3, <3>4
  <2>4. CASE ~Reads(rule)
    <3>1. bd = BySegment(ed, flag, ad, rule) /\ bc = BySegment(ec, flag, ac, rule)
      BY <1>1, <1>3, <1>5, <1>8, <2>4 DEF Turn, ed, ec
    <3>2. bd.asked = ad.asked \cup SegmentAsks(ed, rule) /\ bc.asked = ac.asked \cup SegmentAsks(ec, rule)
      BY <1>3, <1>8, <2>1, <3>1, BySegmentIs
    <3> QED BY <1>3, <2>2, <3>2
  <2> QED BY <2>3, <2>4
<1> QED BY <1>1, <1>3, <1>5, <1>6, <1>7, <1>8 DEF Turn

\* As long as a discovery goes on, it has asked for all that the resumed
\* resolve looks up.
LEMMA TurnsAsk ==
  ASSUME NEW d, NEW c, Matching(d, c), Table(d.segs), SelfFree(d.segs), Recognizing,
         NEW flag, GoodFlag(d.segs, flag), NEW wd, NEW wc,
         NEW fd, Turns(d, flag, wd, Len(flag.rules), fd), NEW fc, Turns(c, flag, wc, Len(flag.rules), fc)
  PROVE  \A i \in 0 .. Len(flag.rules) : fd[i].end = Going => fc[i].asked \subseteq fd[i].asked
<1> DEFINE n == Len(flag.rules)
           P(i) == fd[i].end = Going => fc[i].asked \subseteq fd[i].asked
           Wrong == {i \in 0 .. n : ~P(i)}
<1>0. n \in Nat /\ DOMAIN flag.rules = 1 .. n
  BY DEF GoodFlag
<1>1. /\ fd[0] = Start(wd) /\ fc[0] = Start(wc)
      /\ \A i \in 1 .. n : /\ fd[i] = TryRule(d, flag, fd[i - 1], flag.rules[i])
                           /\ fc[i] = TryRule(c, flag, fc[i - 1], flag.rules[i])
  <2>1. \A i \in 0 .. n : fd[i] = IF i = 0 THEN Start(wd) ELSE TryRule(d, flag, fd[i - 1], flag.rules[i])
    BY DEF Turns
  <2>2. \A i \in 0 .. n : fc[i] = IF i = 0 THEN Start(wc) ELSE TryRule(c, flag, fc[i - 1], flag.rules[i])
    BY DEF Turns
  <2> HIDE DEF n
  <2>3. 0 \in 0 .. n
    BY <1>0
  <2>4. fd[0] = Start(wd) /\ fc[0] = Start(wc)
    BY <2>1, <2>2, <2>3
  <2>5. \A i \in 1 .. n : i # 0 /\ i \in 0 .. n
    BY <1>0
  <2>6. \A i \in 1 .. n : fd[i] = TryRule(d, flag, fd[i - 1], flag.rules[i])
    BY <2>1, <2>5
  <2>7. \A i \in 1 .. n : fc[i] = TryRule(c, flag, fc[i - 1], flag.rules[i])
    BY <2>2, <2>5
  <2> QED BY <2>4, <2>6, <2>7
<1>2. \A i \in 0 .. n : IsAcc(fd[i]) /\ IsAcc(fc[i])
  <2>1. Table(c.segs) /\ GoodFlag(c.segs, flag)
    BY DEF Matching
  <2> QED BY <2>1, TurnsRight
<1> HIDE DEF n
<1>3. P(0)
  BY <1>1 DEF Start
<1>4. ASSUME NEW i \in 1 .. n, P(i - 1) PROVE P(i)
  <2> SUFFICES ASSUME fd[i].end = Going PROVE fc[i].asked \subseteq fd[i].asked
    OBVIOUS
  <2> DEFINE ad == fd[i - 1]
             ac == fc[i - 1]
             rule == flag.rules[i]
  <2>1. /\ fd[i] = TryRule(d, flag, ad, rule) /\ fc[i] = TryRule(c, flag, ac, rule)
        /\ IsAcc(ad) /\ IsAcc(ac) /\ GoodRule(d.segs, rule)
    <3>1. i - 1 \in 0 .. n
      BY <1>0
    <3> QED BY <1>0, <1>1, <1>2, <3>1 DEF GoodFlag
  <2>2. ad.end = Going
    <3>1. RuleDone(d, flag, ad, rule, TryRule(d, flag, ad, rule))
      BY <2>1, TryRuleIs
    <3> HIDE DEF ad
    <3> QED BY <2>1, <3>1 DEF RuleDone
  <2>3. ac.asked \subseteq ad.asked
    BY <1>4, <2>2
  <2> HIDE DEF ad, ac, rule
  <2>4. TryRule(d, flag, ad, rule).end = Going
    BY <2>1
  <2>5. TryRule(c, flag, ac, rule).asked \subseteq TryRule(d, flag, ad, rule).asked
    BY <2>1, <2>3, <2>4, RuleAsks
  <2> QED BY <2>1, <2>5
<1>5. Wrong = {}
  <2> SUFFICES ASSUME Wrong # {} PROVE FALSE
    OBVIOUS
  <2>1. Wrong \in SUBSET Nat
    OBVIOUS
  <2>2. PICK i \in Wrong : \A k \in Wrong : i <= k
    <3> HIDE DEF Wrong
    <3> QED BY <2>1, LeastNumber
  <2> HIDE DEF P
  <2>3. i \in 1 .. n /\ i - 1 \in 0 .. n /\ P(i - 1)
    BY <1>0, <1>3, <2>2
  <2> QED BY <1>4, <2>2, <2>3
<1> QED BY <1>5 DEF n

LEMMA EndedIs ==
  ASSUME NEW a, IsAcc(a)
  PROVE  /\ IsAcc(Ended(a)) /\ Ended(a).asked = a.asked /\ Ended(a).writes = a.writes
         /\ a.end = Fail(Unsupported) => /\ Ended(a).end = Answer("unsupported", NoRule, Blank)
                                         /\ Ended(a).fall = <<>>
         /\ a.end = Going =>
              Ended(a).end = IF a.missing THEN Fail("missing") ELSE Answer("no match", NoRule, Blank)
         /\ a.end \notin {Going, Fail(Unsupported)} => Ended(a) = a
         /\ a.end # Fail(Unsupported) => Ended(a).fall = a.fall
<1>0. Going # Fail(Unsupported)
  BY EndsDiffer
<1>1. \A e : /\ IsAcc(Stop(a, e)) /\ Stop(a, e).end = e /\ Stop(a, e).asked = a.asked
             /\ Stop(a, e).writes = a.writes /\ Stop(a, e).fall = a.fall
  BY DEF IsAcc, Stop
<1>2. \A x : LET b == [a EXCEPT !.fall = x]
             IN  IsAcc(b) /\ b.asked = a.asked /\ b.writes = a.writes /\ b.fall = x
  BY DEF IsAcc
<1>3. CASE a.end = Fail(Unsupported)
  <2> DEFINE e == Answer("unsupported", NoRule, Blank)
             x == <<>>
             c == [a EXCEPT !.fall = x]
             b == Stop(c, e)
  <2>1. Ended(a) = b
    <3>1. Ended(a) = [a EXCEPT !.end = e, !.fall = x]
      BY <1>0, <1>3 DEF Ended
    <3> HIDE DEF e, x
    <3>2. [a EXCEPT !.end = e, !.fall = x] = [[a EXCEPT !.fall = x] EXCEPT !.end = e]
      BY DEF IsAcc
    <3> QED BY <3>1, <3>2 DEF Stop
  <2>2. IsAcc(c) /\ c.asked = a.asked /\ c.writes = a.writes /\ c.fall = x
    <3> HIDE DEF x
    <3> QED BY <1>2
  <2> HIDE DEF c
  <2>3. IsAcc(b) /\ b.end = e /\ b.asked = c.asked /\ b.writes = c.writes /\ b.fall = c.fall
    <3> HIDE DEF e
    <3> QED BY <2>2 DEF IsAcc, Stop
  <2> HIDE DEF b
  <2>4. /\ IsAcc(b) /\ b.asked = a.asked /\ b.writes = a.writes
        /\ b.end = Answer("unsupported", NoRule, Blank) /\ b.fall = <<>>
    BY <2>2, <2>3
  <2> QED BY <1>0, <1>3, <2>1, <2>4
<1>4. CASE a.end = Going /\ a.missing
  <2>1. Ended(a) = Stop(a, Fail("missing"))
    BY <1>0, <1>4 DEF Ended
  <2> QED BY <1>0, <1>1, <1>4, <2>1
<1>5. CASE a.end = Going /\ ~a.missing
  <2>1. Ended(a) = Stop(a, Answer("no match", NoRule, Blank))
    BY <1>0, <1>5 DEF Ended
  <2> QED BY <1>0, <1>1, <1>5, <2>1
<1>6. CASE a.end \notin {Going, Fail(Unsupported)}
  <2>1. Ended(a) = a
    BY <1>6 DEF Ended
  <2> QED BY <1>6, <2>1
<1> QED BY <1>3, <1>4, <1>5, <1>6

\* Only a loop that ran to its end leaves a flag open.
LEMMA OpenIs ==
  ASSUME NEW base, NEW flag, NEW n, NEW a, IsAcc(a), a.end = Going \/ EndRight(base, flag, n, a.end),
         Ended(a).end = Fail("missing")
  PROVE  a.end = Going
<1>1. \A why, rule, variant : Answer(why, rule, variant) # Fail("missing")
  BY EndsDiffer
<1>2. Fail("internal") # Fail("missing") /\ Fail(Unsupported) # Fail("missing")
  BY EndsDiffer DEF Unsupported
<1>3. ~EndRight(base, flag, n, Fail("missing"))
  BY <1>1, <1>2 DEF EndRight, Failure, Neutral, Credited
<1>4. a.end \in {Going, Fail(Unsupported)}
  BY <1>3, EndedIs
<1>5. ASSUME a.end = Fail(Unsupported) PROVE FALSE
  <2>1. Ended(a).end = Answer("unsupported", NoRule, Blank)
    BY <1>5, EndedIs
  <2> QED BY <1>1, <2>1
<1> QED BY <1>4, <1>5

\* A flag that lacks materializations has asked for all that it looks up
\* when it is resumed.
LEMMA FlagAsks ==
  ASSUME NEW d, NEW c, Matching(d, c), Table(d.segs), SelfFree(d.segs), Recognizing,
         NEW flag, GoodFlag(d.segs, flag), NEW wd, NEW wc,
         ResolveFlag(d, flag, wd).end = Fail("missing")
  PROVE  ResolveFlag(c, flag, wc).asked \subseteq ResolveFlag(d, flag, wd).asked
<1> DEFINE n == Len(flag.rules)
<1>1. n \in Nat /\ n \in 0 .. n
  BY DEF GoodFlag
<1>2. PICK fd : Turns(d, flag, wd, n, fd) /\ ResolveFlag(d, flag, wd) = Ended(fd[n])
  BY <1>1, ResolveFlagIs
<1>3. PICK fc : Turns(c, flag, wc, n, fc) /\ ResolveFlag(c, flag, wc) = Ended(fc[n])
  BY <1>1, ResolveFlagIs
<1>4. /\ IsAcc(fd[n]) /\ (fd[n].end = Going \/ EndRight(d, flag, n, fd[n].end))
      /\ IsAcc(fc[n])
  <2>1. Table(c.segs) /\ GoodFlag(c.segs, flag)
    BY DEF Matching
  <2>2. \A i \in 0 .. Len(flag.rules) :
          IsAcc(fd[i]) /\ (fd[i].end = Going \/ EndRight(d, flag, i, fd[i].end))
    BY <1>2, TurnsRight
  <2>3. \A i \in 0 .. Len(flag.rules) :
          IsAcc(fc[i]) /\ (fc[i].end = Going \/ EndRight(c, flag, i, fc[i].end))
    BY <1>3, <2>1, TurnsRight
  <2> QED BY <1>1, <2>2, <2>3
<1>5. \A i \in 0 .. Len(flag.rules) : fd[i].end = Going => fc[i].asked \subseteq fd[i].asked
  BY <1>2, <1>3, TurnsAsk
<1> HIDE DEF n
<1>6. fd[n].end = Going
  BY <1>2, <1>4, OpenIs
<1>7. fc[n].asked \subseteq fd[n].asked
  BY <1>1, <1>5, <1>6 DEF n
<1> QED BY <1>2, <1>3, <1>4, <1>7, EndedIs

LEMMA HalfAsks ==
  ASSUME NEW c, GoodConf(c), SelfFree(c.segs), Recognizing, NEW g, NEW w
  PROVE  LET first == ResolveFlags(c, "discovery", {}, << >>, {})
         IN  ResolveFlags(c, "complete", g, first.resolved, w).asked \subseteq first.to_read
<1> DEFINE none == << >>
           empty == {}
           first == ResolveFlags(c, "discovery", empty, none, empty)
           done == first.resolved
           d == Base(c, "discovery", empty)
           e == Base(c, "complete", g)
           out == [f \in Active(c) \ DOMAIN none |-> ResolveFlag(d, c.flags[f], empty)]
           open == {f \in DOMAIN out : out[f].end = Fail("missing")}
           asked == UNION {out[f].asked : f \in DOMAIN out}
           out2 == [f \in Active(c) \ DOMAIN done |-> ResolveFlag(e, c.flags[f], w)]
           open2 == {f \in DOMAIN out2 : out2[f].end = Fail("missing")}
           asked2 == UNION {out2[f].asked : f \in DOMAIN out2}
<1>0. DOMAIN none = {}
  OBVIOUS
<1>1. first = Gathered(c, "discovery", none, empty, out, open, asked)
  <2> HIDE DEF none, empty
  <2> QED BY DEF ResolveFlags, Gather
<1>2. ResolveFlags(c, "complete", g, done, w).asked = asked2
  <2> HIDE DEF done
  <2>1. ResolveFlags(c, "complete", g, done, w) = Gathered(c, "complete", done, w, out2, open2, asked2)
    BY DEF ResolveFlags, Gather
  <2> HIDE DEF out2, open2, asked2
  <2> QED BY <2>1 DEF Gathered
<1> HIDE DEF none, empty
<1>3. first.to_read = asked /\ DOMAIN done = (DOMAIN out \ open) \cup DOMAIN none
  <2> HIDE DEF out, open, asked, first
  <2> QED BY <1>1 DEF Gathered
<1>4. DOMAIN out = Active(c) /\ open \subseteq Active(c) /\ DOMAIN done = Active(c) \ open
  <2>1. DOMAIN out = Active(c)
    BY <1>0
  <2> HIDE DEF out, done
  <2> QED BY <1>0, <1>3, <2>1
<1>5. ASSUME NEW f \in DOMAIN out2
      PROVE  f \in DOMAIN out /\ out2[f].asked \subseteq out[f].asked
  <2>1. f \in open /\ f \in DOMAIN c.flags
    <3> HIDE DEF out, done, open
    <3> QED BY <1>4 DEF Active
  <2>2. out2[f] = ResolveFlag(e, c.flags[f], w)
    <3> HIDE DEF done, e
    <3> QED OBVIOUS
  <2>3. out[f] = ResolveFlag(d, c.flags[f], empty) /\ out[f].end = Fail("missing") /\ f \in DOMAIN out
    <3> HIDE DEF done, e, d
    <3> QED BY <2>1
  <2>4. Matching(d, e) /\ Table(d.segs) /\ SelfFree(d.segs) /\ GoodFlag(d.segs, c.flags[f])
    BY <2>1 DEF Base, Matching, GoodConf
  <2> HIDE DEF d, e, out, out2
  <2> QED BY <2>2, <2>3, <2>4, FlagAsks
<1>6. asked2 \subseteq asked
  <2> HIDE DEF out, out2
  <2> QED BY <1>5
<1> HIDE DEF first, asked, asked2
<1> QED BY <1>2, <1>3, <1>6 DEF none, empty, first

\* What the resolve that is under way began with.
FirstHalf == ResolveFlags(began.conf, "discovery", {}, << >>, {})

\* The inductive invariant: what is suspended is what a discovery leaves.
AskedInv ==
  /\ conf \in Confs
  /\ pc = "suspended" => resolved = FirstHalf.resolved /\ to_read = FirstHalf.to_read

LEMMA FirstHalfStays ==
  ASSUME NEW c, keys' = keys, began'.conf = c
  PROVE  FirstHalf' = ResolveFlags(c, "discovery", {}, << >>, {})
BY DEF FirstHalf, ResolveFlags, Base

LEMMA AskedStep == AskedInv /\ [Next]_vars => AskedInv'
<1> SUFFICES ASSUME AskedInv, [Next]_vars PROVE AskedInv'
  OBVIOUS
<1>1. CASE pc' = "suspended" /\ ResolveDeferred
  <2>1. /\ resolved' = ResolveFlags(conf, "discovery", {}, << >>, {}).resolved
        /\ to_read' = ResolveFlags(conf, "discovery", {}, << >>, {}).to_read
        /\ began'.conf = conf /\ keys' = keys /\ conf' = conf
    BY <1>1 DEF ResolveDeferred, Begin, Becomes
  <2>2. FirstHalf' = ResolveFlags(conf, "discovery", {}, << >>, {})
    BY <2>1, FirstHalfStays
  <2> QED BY <2>1, <2>2 DEF AskedInv
<1>2. ASSUME NEW mode \in {"complete", "unsupported"}, NEW records, Begin(mode, records)
      PROVE  AskedInv'
  <2>1. pc' = ResolveFlags(conf, mode, records, << >>, {}).pc /\ conf' = conf
    BY <1>2 DEF Begin, Becomes
  <2>2. GoodConf(conf)
    BY ConfsGood DEF AskedInv
  <2>3. ResolvedRight(conf, mode, records, << >>, ResolveFlags(conf, mode, records, << >>, {}))
    BY <2>2, ResolveFlagsRight
  <2>4. pc' # "suspended"
    BY <2>1, <2>3 DEF ResolvedRight
  <2> QED BY <2>1, <2>4 DEF AskedInv
<1>3. CASE Resume
  <2>1. pc' = ResolveFlags(conf, "complete", got, resolved, writes).pc /\ conf' = conf
    BY <1>3 DEF Resume, Becomes
  <2>2. GoodConf(conf)
    BY ConfsGood DEF AskedInv
  <2>3. ResolvedRight(conf, "complete", got, resolved, ResolveFlags(conf, "complete", got, resolved, writes))
    BY <2>2, ResolveFlagsRight
  <2>4. pc' # "suspended"
    BY <2>1, <2>3 DEF ResolvedRight
  <2> QED BY <2>1, <2>4 DEF AskedInv
<1>4. ASSUME /\ conf' \in Confs
             /\ pc' = "suspended" => /\ pc = "suspended" /\ resolved' = resolved /\ to_read' = to_read
                                     /\ began' = began /\ keys' = keys
      PROVE  AskedInv'
  <2>1. ASSUME pc' = "suspended" PROVE FirstHalf' = FirstHalf
    <3>1. keys' = keys /\ began'.conf = began.conf
      BY <1>4, <2>1
    <3>2. FirstHalf' = ResolveFlags(began.conf, "discovery", {}, << >>, {})
      BY <3>1, FirstHalfStays
    <3> QED BY <3>2 DEF FirstHalf
  <2> QED BY <1>4, <2>1 DEF AskedInv
<1>5. ASSUME NEW k \in left, Read(k) PROVE AskedInv'
  BY <1>4, <1>5 DEF Read, AskedInv
<1>6. ASSUME NEW w \in writes, Write(w) PROVE AskedInv'
  BY <1>4, <1>6 DEF Write, AskedInv
<1>7. CASE Done
  BY <1>4, <1>7 DEF Done, AskedInv
<1>8. ASSUME NEW c \in Confs, SetResolverState(c) PROVE AskedInv'
  BY <1>4, <1>8 DEF SetResolverState, AskedInv
<1>9. CASE UNCHANGED vars
  BY <1>4, <1>9 DEF vars, AskedInv
<1>10. CASE ResolveDeferred /\ pc' # "suspended"
  BY <1>10 DEF ResolveDeferred, Begin, AskedInv
<1>11. CASE ResolveStatic
  BY <1>2, <1>11 DEF ResolveStatic
<1>12. CASE ResolveWithout
  BY <1>2, <1>12 DEF ResolveWithout
<1> QED BY <1>1, <1>3, <1>5, <1>6, <1>7, <1>8, <1>9, <1>10, <1>11, <1>12 DEF Next

\* No segment comes back to itself through the segments it refers to.
Acyclic == \A c \in Confs : SelfFree(c.segs)

LEMMA ResumeAsks ==
  ASSUME Recognizing, Acyclic, AskedInv, Resume, conf = began.conf
  PROVE  looked' \subseteq to_read
<1>1. /\ pc = "suspended"
      /\ looked' = ResolveFlags(conf, "complete", got, resolved, writes).asked
  BY DEF Resume
<1>2. /\ FirstHalf = ResolveFlags(conf, "discovery", {}, << >>, {})
      /\ resolved = FirstHalf.resolved /\ to_read = FirstHalf.to_read
  BY <1>1 DEF AskedInv, FirstHalf
<1>3. GoodConf(conf) /\ SelfFree(conf.segs)
  BY ConfsGood DEF AskedInv, Acyclic
<1>4. LET first == ResolveFlags(conf, "discovery", {}, << >>, {})
      IN  ResolveFlags(conf, "complete", got, first.resolved, writes).asked \subseteq first.to_read
  BY <1>3, HalfAsks
<1> QED BY <1>1, <1>2, <1>4

(* A resumed resolve takes a record that was not read for one that does    *)
(* not exist.  It looks up only what was asked for, provided the resolver  *)
(* state is the same, recognises every criterion, and has no segment that  *)
(* refers back to itself: the evaluation of an operand (evaluate_expression)*)
(* stops at one that fails, and a criterion that fails only once a         *)
(* materialization is there, or that is not reached for a cycle, hides     *)
(* what the resumed half then looks up.                                    *)
THEOREM ResumeComplete == Recognizing /\ Acyclic => (Spec => ResumeIsComplete)
<1> SUFFICES ASSUME Recognizing, Acyclic PROVE Spec => ResumeIsComplete
  OBVIOUS
<1> DEFINE Step == Resume /\ conf = began.conf => looked' \subseteq to_read
<1>1. Init => AskedInv
  BY DEF Init, AskedInv
<1>2. AskedInv /\ [Next]_vars => [Step]_vars
  BY ResumeAsks
<1>3. Spec => [][Step]_vars
  BY <1>1, <1>2, AskedStep, PTL DEF Spec
<1> QED BY <1>3 DEF ResumeIsComplete

-----------------------------------------------------------------------------
(* Suspending and resuming: accumulators that go the same way.             *)

\* Two accumulators that differ in what they asked for, and in the records w
\* that only the second found written already.
Same(a, b, w) ==
  /\ IsAcc(a) /\ IsAcc(b)
  /\ b.end = a.end /\ b.missing = a.missing /\ b.fall = a.fall
  /\ b.writes = w \cup a.writes

\* None of the records w is of this rule.
Apart(w, rule) == \A x \in w : x.rule # rule.name

\* Evaluations of one unit that may write.
Peers(e1, e2) ==
  e2.unit = e1.unit /\ e1.ctx.mode # "unsupported" /\ e2.ctx.mode # "unsupported"

LEMMA StopSame ==
  ASSUME NEW a, NEW b, NEW w, Same(a, b, w), NEW e
  PROVE  Same(Stop(a, e), Stop(b, e), w)
<1>1. \A x : IsAcc(x) => /\ IsAcc(Stop(x, e)) /\ Stop(x, e).end = e /\ Stop(x, e).missing = x.missing
                         /\ Stop(x, e).fall = x.fall /\ Stop(x, e).writes = x.writes
  BY DEF IsAcc, Stop
<1> QED BY <1>1 DEF Same

LEMMA AskedIs ==
  ASSUME NEW a, IsAcc(a), NEW s
  PROVE  LET b == [a EXCEPT !.asked = s]
         IN  /\ IsAcc(b) /\ b.end = a.end /\ b.missing = a.missing /\ b.fall = a.fall
             /\ b.writes = a.writes /\ b.asked = s
BY DEF IsAcc

LEMMA FallIs ==
  ASSUME NEW a, IsAcc(a), NEW s
  PROVE  LET b == [a EXCEPT !.fall = s]
         IN  /\ IsAcc(b) /\ b.end = a.end /\ b.missing = a.missing /\ b.fall = s
             /\ b.writes = a.writes /\ b.asked = a.asked
BY DEF IsAcc

LEMMA WritesIs ==
  ASSUME NEW a, IsAcc(a), NEW s
  PROVE  LET b == [a EXCEPT !.writes = s]
         IN  /\ IsAcc(b) /\ b.end = a.end /\ b.missing = a.missing /\ b.fall = a.fall
             /\ b.writes = s /\ b.asked = a.asked
BY DEF IsAcc

LEMMA AskedSame ==
  ASSUME NEW a, NEW b, NEW w, Same(a, b, w), NEW s, NEW t
  PROVE  Same([a EXCEPT !.asked = s], [b EXCEPT !.asked = t], w)
<1> DEFINE c == [a EXCEPT !.asked = s]
           d == [b EXCEPT !.asked = t]
<1>1. IsAcc(c) /\ c.end = a.end /\ c.missing = a.missing /\ c.fall = a.fall /\ c.writes = a.writes
  BY AskedIs DEF Same
<1>2. IsAcc(d) /\ d.end = b.end /\ d.missing = b.missing /\ d.fall = b.fall /\ d.writes = b.writes
  BY AskedIs DEF Same
<1> HIDE DEF c, d
<1>3. Same(c, d, w)
  BY <1>1, <1>2 DEF Same
<1> QED BY <1>3 DEF c, d

LEMMA FallSame ==
  ASSUME NEW a, NEW b, NEW w, Same(a, b, w), NEW s
  PROVE  Same([a EXCEPT !.fall = s], [b EXCEPT !.fall = s], w)
<1> DEFINE c == [a EXCEPT !.fall = s]
           d == [b EXCEPT !.fall = s]
<1>1. IsAcc(c) /\ c.end = a.end /\ c.missing = a.missing /\ c.fall = s /\ c.writes = a.writes
  BY FallIs DEF Same
<1>2. IsAcc(d) /\ d.end = b.end /\ d.missing = b.missing /\ d.fall = s /\ d.writes = b.writes
  BY FallIs DEF Same
<1> HIDE DEF c, d
<1>3. Same(c, d, w)
  BY <1>1, <1>2 DEF Same
<1> QED BY <1>3 DEF c, d

LEMMA AskingSame ==
  ASSUME NEW a, NEW b, NEW w, Same(a, b, w), NEW o, NEW p
  PROVE  Same(Asking(a, o), Asking(b, p), w)
<1>1. /\ Asking(a, o) = [a EXCEPT !.asked = a.asked \cup o.asked]
      /\ Asking(b, p) = [b EXCEPT !.asked = b.asked \cup p.asked]
  BY DEF Asking
<1> QED BY <1>1, AskedSame

LEMMA MissingSame ==
  ASSUME NEW a, NEW b, NEW w, Same(a, b, w)
  PROVE  \A m : Same([a EXCEPT !.missing = m], [b EXCEPT !.missing = m], w)
<1>1. \A x, m : IsAcc(x) =>
        LET y == [x EXCEPT !.missing = m]
        IN  IsAcc(y) /\ y.end = x.end /\ y.missing = m /\ y.fall = x.fall /\ y.writes = x.writes
  BY DEF IsAcc
<1> QED BY <1>1 DEF Same

LEMMA AddToWriteSame ==
  ASSUME NEW e1, NEW e2, Peers(e1, e2), NEW a, NEW b, NEW w, Same(a, b, w),
         NEW rule, Apart(w, rule), NEW variant
  PROVE  Same(AddToWrite(e1, a, rule, variant), AddToWrite(e2, b, rule, variant), w)
<1> DEFINE same(x) == x.unit = e1.unit /\ x.mat = rule.mat.write /\ x.rule = rule.name
           new == [unit |-> e1.unit, mat |-> rule.mat.write, rule |-> rule.name, variant |-> variant]
<1>1. CASE e1.unit = NoUnit \/ rule.mat = NoSpec
  BY <1>1 DEF AddToWrite, Peers
<1>2. CASE ~(e1.unit = NoUnit \/ rule.mat = NoSpec) /\ \E x \in a.writes : same(x)
  <2>1. \E x \in b.writes : same(x)
    BY <1>2 DEF Same
  <2>2. AddToWrite(e1, a, rule, variant) = Stop(a, Fail("internal"))
    BY <1>2 DEF AddToWrite, Peers
  <2>3. AddToWrite(e2, b, rule, variant) = Stop(b, Fail("internal"))
    BY <1>2, <2>1 DEF AddToWrite, Peers
  <2> QED BY <2>2, <2>3, StopSame
<1>3. CASE ~(e1.unit = NoUnit \/ rule.mat = NoSpec) /\ ~\E x \in a.writes : same(x)
  <2>1. ~\E x \in b.writes : same(x)
    BY <1>3 DEF Same, Apart
  <2>2. AddToWrite(e1, a, rule, variant) = [a EXCEPT !.writes = @ \cup {new}]
    BY <1>3 DEF AddToWrite, Peers
  <2>3. AddToWrite(e2, b, rule, variant) = [b EXCEPT !.writes = @ \cup {new}]
    BY <1>3, <2>1 DEF AddToWrite, Peers
  <2>4. \A x, s : IsAcc(x) =>
          LET y == [x EXCEPT !.writes = @ \cup s]
          IN  IsAcc(y) /\ y.end = x.end /\ y.missing = x.missing /\ y.fall = x.fall /\ y.writes = x.writes \cup s
    BY SMTT(30) DEF IsAcc
  <2> HIDE DEF new
  <2> DEFINE y == [a EXCEPT !.writes = @ \cup {new}]
             z == [b EXCEPT !.writes = @ \cup {new}]
  <2>5. IsAcc(y) /\ y.end = a.end /\ y.missing = a.missing /\ y.fall = a.fall /\ y.writes = a.writes \cup {new}
    BY <2>4 DEF Same
  <2>6. IsAcc(z) /\ z.end = b.end /\ z.missing = b.missing /\ z.fall = b.fall /\ z.writes = b.writes \cup {new}
    BY <2>4 DEF Same
  <2> HIDE DEF y, z
  <2>7. Same(y, z, w)
    BY <2>5, <2>6 DEF Same
  <2> QED BY <2>2, <2>3, <2>7 DEF y, z
<1> QED BY <1>1, <1>2, <1>3

LEMMA VariantMatchSame ==
  ASSUME NEW a, NEW b, NEW w, Same(a, b, w), NEW flag, NEW rule, NEW variant
  PROVE  Same(VariantMatch(flag, a, rule, variant), VariantMatch(flag, b, rule, variant), w)
BY StopSame DEF VariantMatch

LEMMA AssignSame ==
  ASSUME NEW e1, NEW e2, Peers(e1, e2), NEW a, NEW b, NEW w, Same(a, b, w),
         NEW flag, NEW rule, Apart(w, rule), NEW x, x.kind \in Kinds
  PROVE  Same(Assign(e1, flag, a, rule, x), Assign(e2, flag, b, rule, x), w)
<1>1. CASE x.kind = "none"
  BY <1>1 DEF Assign
<1>2. CASE x.kind # "none"
  <2> DEFINE v == IF x.kind = "variant" THEN x.variant ELSE Blank
             c == AddToWrite(e1, a, rule, v)
             d == AddToWrite(e2, b, rule, v)
  <2>1. Same(c, d, w)
    <3> HIDE DEF v
    <3> QED BY AddToWriteSame
  <2>2. /\ Assign(e1, flag, a, rule, x) = Credit(flag, c, rule, x)
        /\ Assign(e2, flag, b, rule, x) = Credit(flag, d, rule, x)
    BY <1>2 DEF Assign
  <2> HIDE DEF c, d
  <2>3. d.end = c.end
    BY <2>1 DEF Same
  <2>4. Same(Credit(flag, c, rule, x), Credit(flag, d, rule, x), w)
    <3>1. CASE c.end # Going
      BY <2>1, <2>3, <3>1 DEF Credit
    <3>2. CASE c.end = Going /\ x.kind = "fallthrough"
      <4>1. /\ Credit(flag, c, rule, x) = [c EXCEPT !.fall = Append(@, rule.name)]
            /\ Credit(flag, d, rule, x) = [d EXCEPT !.fall = Append(@, rule.name)]
        BY <2>3, <3>2 DEF Credit
      <4>2. d.fall = c.fall
        BY <2>1 DEF Same
      <4>3. /\ Credit(flag, c, rule, x) = [c EXCEPT !.fall = Append(c.fall, rule.name)]
            /\ Credit(flag, d, rule, x) = [d EXCEPT !.fall = Append(c.fall, rule.name)]
        BY <4>1, <4>2
      <4>4. \A l : Same([c EXCEPT !.fall = l], [d EXCEPT !.fall = l], w)
        BY <2>1, FallSame
      <4> QED BY <4>3, <4>4
    <3>3. CASE c.end = Going /\ x.kind = "default"
      <4>1. /\ Credit(flag, c, rule, x) = Stop(c, Answer("match", rule.name, Blank))
            /\ Credit(flag, d, rule, x) = Stop(d, Answer("match", rule.name, Blank))
        BY <2>3, <3>3 DEF Credit
      <4> QED BY <2>1, <4>1, StopSame
    <3>4. CASE c.end = Going /\ x.kind = "variant"
      <4>1. /\ Credit(flag, c, rule, x) = VariantMatch(flag, c, rule, x.variant)
            /\ Credit(flag, d, rule, x) = VariantMatch(flag, d, rule, x.variant)
        BY <2>3, <3>4 DEF Credit
      <4> QED BY <2>1, <4>1, VariantMatchSame
    <3> QED BY <1>2, <3>1, <3>2, <3>3, <3>4 DEF Kinds
  <2> QED BY <2>2, <2>4
<1> QED BY <1>1, <1>2

LEMMA ConcludeSame ==
  ASSUME NEW e1, NEW e2, Peers(e1, e2), NEW a, NEW b, NEW w, Same(a, b, w),
         NEW flag, NEW ss, NEW rule, GoodRule(ss, rule), Apart(w, rule), NEW val \in Verdicts
  PROVE  Same(Conclude(e1, flag, a, rule, val), Conclude(e2, flag, b, rule, val), w)
<1>0. val \in {T, F, U, Unrecognized, Unsupported} /\ T \notin {F, U, Unrecognized, Unsupported}
      /\ F \notin {U, Unrecognized, Unsupported} /\ U \notin {Unrecognized, Unsupported} /\ Unrecognized # Unsupported
  BY DEF Verdicts, Errors, T, F, U, Unrecognized, Unsupported
<1>1. CASE val = Unsupported
  <2>1. /\ Conclude(e1, flag, a, rule, val) = Stop(a, Fail(Unsupported))
        /\ Conclude(e2, flag, b, rule, val) = Stop(b, Fail(Unsupported))
    BY <1>0, <1>1 DEF Conclude
  <2> QED BY <2>1, StopSame
<1>2. CASE val \in {F, Unrecognized}
  <2>1. Conclude(e1, flag, a, rule, val) = a /\ Conclude(e2, flag, b, rule, val) = b
    BY <1>0, <1>2 DEF Conclude
  <2> QED BY <2>1
<1>3. CASE val = U
  <2>1. /\ Conclude(e1, flag, a, rule, val) = [a EXCEPT !.missing = TRUE]
        /\ Conclude(e2, flag, b, rule, val) = [b EXCEPT !.missing = TRUE]
    BY <1>0, <1>3 DEF Conclude
  <2>2. \A m : Same([a EXCEPT !.missing = m], [b EXCEPT !.missing = m], w)
    BY MissingSame
  <2> QED BY <2>1, <2>2, Zenon
<1>4. CASE val = T
  <2> DEFINE x == MatchedAssignment(rule, e1.unit)
  <2>1. /\ Conclude(e1, flag, a, rule, val) = IF a.missing THEN a ELSE Assign(e1, flag, a, rule, x)
        /\ Conclude(e2, flag, b, rule, val) = IF b.missing THEN b ELSE Assign(e2, flag, b, rule, x)
    BY <1>0, <1>4 DEF Conclude, Peers
  <2>2. x.kind \in Kinds
    BY MatchedKind
  <2> HIDE DEF x
  <2>3. Same(Assign(e1, flag, a, rule, x), Assign(e2, flag, b, rule, x), w)
    BY <2>2, AssignSame
  <2>4. b.missing = a.missing
    BY DEF Same
  <2> QED BY <2>1, <2>3, <2>4
<1> QED BY <1>0, <1>1, <1>2, <1>3, <1>4

LEMMA BySegmentSame ==
  ASSUME NEW e1, NEW e2, Peers(e1, e2), NEW a, NEW b, NEW w, Same(a, b, w),
         NEW flag, NEW rule, Tried(e1, rule), Apart(w, rule),
         SegmentMatch(e2, {}, rule.seg).val = SegmentMatch(e1, {}, rule.seg).val
  PROVE  Same(BySegment(e1, flag, a, rule), BySegment(e2, flag, b, rule), w)
<1> DEFINE o == SegmentMatch(e1, {}, rule.seg)
           p == SegmentMatch(e2, {}, rule.seg)
           c == Asking(a, o)
           d == Asking(b, p)
<1>1. o.val \in Verdicts /\ GoodRule(e1.segs, rule) /\ p.val = o.val
  BY SegmentVerdict DEF Tried
<1>2. /\ BySegment(e1, flag, a, rule) = Conclude(e1, flag, c, rule, o.val)
      /\ BySegment(e2, flag, b, rule) = Conclude(e2, flag, d, rule, p.val)
  BY DEF BySegment, ConcludeWith
<1> HIDE DEF o, p
<1>3. Same(c, d, w)
  BY AskingSame
<1> HIDE DEF c, d
<1> QED BY <1>1, <1>2, <1>3, ConcludeSame

LEMMA ByRecordSame ==
  ASSUME NEW e1, NEW e2, Peers(e1, e2), NEW a, NEW b, NEW w, Same(a, b, w),
         NEW flag, NEW rule, Tried(e1, rule), Apart(w, rule),
         SegmentMatch(e2, {}, rule.seg).val = SegmentMatch(e1, {}, rule.seg).val,
         NEW val \in Verdicts, NEW x
  PROVE  Same(ByRecord(e1, flag, a, rule, val, x), ByRecord(e2, flag, b, rule, val, x), w)
<1>0. /\ val \in {T, F, U} \cup Errors /\ T \notin {F, U} \cup Errors
      /\ F \notin {U} \cup Errors /\ U \notin Errors
  BY DEF Verdicts, Errors, T, F, U, Unrecognized, Unsupported
<1>1. CASE val \in {F, U}
  <2>1. /\ ByRecord(e1, flag, a, rule, val, x) = BySegment(e1, flag, a, rule)
        /\ ByRecord(e2, flag, b, rule, val, x) = BySegment(e2, flag, b, rule)
    BY <1>0, <1>1 DEF ByRecord
  <2> QED BY <2>1, BySegmentSame
<1>2. CASE val = T /\ x.kind # "none"
  <2>1. /\ ByRecord(e1, flag, a, rule, val, x) = VariantMatch(flag, a, rule, x.variant)
        /\ ByRecord(e2, flag, b, rule, val, x) = VariantMatch(flag, b, rule, x.variant)
    BY <1>0, <1>2 DEF ByRecord
  <2> QED BY <2>1, VariantMatchSame
<1>3. CASE val \in Errors \/ (val = T /\ x.kind = "none")
  <2>1. /\ ByRecord(e1, flag, a, rule, val, x) = Conclude(e1, flag, a, rule, val)
        /\ ByRecord(e2, flag, b, rule, val, x) = Conclude(e2, flag, b, rule, val)
    BY <1>0, <1>3 DEF ByRecord
  <2>2. GoodRule(e1.segs, rule)
    BY DEF Tried
  <2> QED BY <2>1, <2>2, ConcludeSame
<1> QED BY <1>0, <1>1, <1>2, <1>3

\* Two evaluations with records that say the same of the rule.
LEMMA ByMaterializationSame ==
  ASSUME NEW e1, NEW e2, Peers(e1, e2), e1.ctx.mode = "complete", e2.ctx.mode = "complete",
         NEW a, NEW b, NEW w, Same(a, b, w), NEW flag, NEW rule, Tried(e1, rule), Apart(w, rule),
         SegmentMatch(e2, {}, rule.seg).val = SegmentMatch(e1, {}, rule.seg).val,
         TargetingMatch(e2, {}, rule.seg).val = TargetingMatch(e1, {}, rule.seg).val,
         RecordsOf(e2, rule) = RecordsOf(e1, rule)
  PROVE  Same(ByMaterialization(e1, flag, a, rule), ByMaterialization(e2, flag, b, rule), w)
<1> DEFINE k1 == Key(e1.unit, rule.mat.read, rule.name)
           k2 == Key(e2.unit, rule.mat.read, rule.name)
           found == RecordsOf(e1, rule)
           val == Lookup(e1.ctx, found # {})
           c == [a EXCEPT !.asked = a.asked \cup {k1}]
           d == [b EXCEPT !.asked = b.asked \cup {k2}]
<1>0. T # F /\ T # U /\ F # U /\ T # Unsupported /\ F # Unsupported /\ T \in Verdicts
  BY DEF T, F, U, Unsupported, Verdicts
<1>1. val \in {T, F} /\ Lookup(e2.ctx, found # {}) = val
  BY DEF Lookup
<1>2. Same(c, d, w)
  BY AskedSame
<1>3. /\ ByMaterialization(e1, flag, a, rule) = Looked(e1, flag, c, rule, found, val)
      /\ ByMaterialization(e2, flag, b, rule) = Looked(e2, flag, d, rule, found, val)
  <2>1. /\ ByMaterialization(e1, flag, a, rule)
             = Looked(e1, flag, [a EXCEPT !.asked = @ \cup {k1}], rule, RecordsOf(e1, rule),
                      Lookup(e1.ctx, RecordsOf(e1, rule) # {}))
        /\ ByMaterialization(e2, flag, b, rule)
             = Looked(e2, flag, [b EXCEPT !.asked = @ \cup {k2}], rule, RecordsOf(e2, rule),
                      Lookup(e2.ctx, RecordsOf(e2, rule) # {}))
    BY DEF ByMaterialization
  <2> HIDE DEF k1, k2, val
  <2> QED BY <1>1, <2>1 DEF val
<1> HIDE DEF c, d, val
<1>4. CASE val = T
  <2> DEFINE record == CHOOSE r \in found : TRUE
             o == IF rule.mat.ignore THEN Value(T) ELSE TargetingMatch(e1, {}, rule.seg)
             p == IF rule.mat.ignore THEN Value(T) ELSE TargetingMatch(e2, {}, rule.seg)
             x == SelectAssignment(rule, record)
  <2>1. /\ Looked(e1, flag, c, rule, found, val) = ByRecord(e1, flag, Asking(c, o), rule, o.val, x)
        /\ Looked(e2, flag, d, rule, found, val) = ByRecord(e2, flag, Asking(d, p), rule, p.val, x)
    BY <1>0, <1>4 DEF Looked, BySticky
  <2>2. o.val \in Verdicts /\ p.val = o.val
    BY <1>0, SegmentVerdict DEF Value
  <2> HIDE DEF o, p, x, record
  <2>3. Same(Asking(c, o), Asking(d, p), w)
    BY <1>2, AskingSame
  <2>4. Same(ByRecord(e1, flag, Asking(c, o), rule, o.val, x),
             ByRecord(e2, flag, Asking(d, p), rule, o.val, x), w)
    <3> DEFINE y == Asking(c, o)
               z == Asking(d, p)
    <3>1. Same(y, z, w)
      BY <2>3
    <3> HIDE DEF y, z
    <3>2. Same(ByRecord(e1, flag, y, rule, o.val, x), ByRecord(e2, flag, z, rule, o.val, x), w)
      BY <2>2, <3>1, ByRecordSame
    <3> QED BY <3>2 DEF y, z
  <2> QED BY <1>3, <2>1, <2>2, <2>4
<1>5. CASE val = F /\ rule.mat.must
  <2>1. Looked(e1, flag, c, rule, found, val) = c /\ Looked(e2, flag, d, rule, found, val) = d
    BY <1>0, <1>5 DEF Looked
  <2> QED BY <1>2, <1>3, <2>1
<1>6. CASE val = F /\ ~rule.mat.must
  <2>1. /\ Looked(e1, flag, c, rule, found, val) = BySegment(e1, flag, [c EXCEPT !.missing = @ \/ val = U], rule)
        /\ Looked(e2, flag, d, rule, found, val) = BySegment(e2, flag, [d EXCEPT !.missing = @ \/ val = U], rule)
    BY <1>0, <1>6 DEF Looked
  <2> DEFINE y == [c EXCEPT !.missing = c.missing \/ val = U]
             z == [d EXCEPT !.missing = d.missing \/ val = U]
  <2>2. Same(y, z, w)
    <3>1. \A m : Same([c EXCEPT !.missing = m], [d EXCEPT !.missing = m], w)
      BY <1>2, MissingSame
    <3>2. d.missing = c.missing
      BY <1>2 DEF Same
    <3>3. (d.missing \/ val = U) = (c.missing \/ val = U)
      BY <3>2
    <3> QED BY <3>1, <3>3, Zenon
  <2>3. /\ Looked(e1, flag, c, rule, found, val) = BySegment(e1, flag, y, rule)
        /\ Looked(e2, flag, d, rule, found, val) = BySegment(e2, flag, z, rule)
    BY <2>1
  <2> HIDE DEF y, z
  <2>4. Same(BySegment(e1, flag, y, rule), BySegment(e2, flag, z, rule), w)
    BY <2>2, BySegmentSame
  <2> QED BY <1>3, <2>3, <2>4
<1> QED BY <1>1, <1>4, <1>5, <1>6

-----------------------------------------------------------------------------
(* What a discovery leaves behind.                                         *)

\* A rule that only writes its materialization has no fallthrough assignment.
NoFallWrites(rule) ==
  rule.mat # NoSpec /\ rule.mat.read = Blank => \A k \in DOMAIN rule.assigns : rule.assigns[k].kind # "fallthrough"

\* b: what one rule makes of acc.  missing: the rule is undecided, or an
\* earlier one was.
Fate(flag, rule, acc, missing, b) ==
  /\ IsAcc(b)
  /\ b.missing <=> missing
  /\ missing => b.end = Going /\ b.writes = acc.writes
  /\ \A x \in b.writes : x \in acc.writes \/ x.rule = rule.name
  /\ b.end = Going \/ b.end.kind = "error" \/ b.end.variant \in flag.variants \cup {Blank}
  /\ b.end = Going /\ NoFallWrites(rule) => b.writes = acc.writes

\* Crediting a rule without a materialization that was read.
LEMMA AssignFate ==
  ASSUME NEW ss, NEW env, NEW flag, NEW rule, GoodRule(ss, rule), ~Reads(rule),
         NEW acc, IsAcc(acc), acc.end = Going, ~acc.missing,
         NEW x, x = NoAssignment \/ \E k \in DOMAIN rule.assigns : x = rule.assigns[k]
  PROVE  Fate(flag, rule, acc, FALSE, Assign(env, flag, acc, rule, x))
<1>0. x.kind \in Kinds
  BY DEF GoodRule, Kinds, NoAssignment
<1>1. CASE x.kind = "none"
  BY <1>1 DEF Assign, Fate
<1>2. CASE x.kind # "none"
  <2> DEFINE v == IF x.kind = "variant" THEN x.variant ELSE Blank
             w == AddToWrite(env, acc, rule, v)
             new == [unit |-> env.unit, mat |-> rule.mat.write, rule |-> rule.name, variant |-> v]
  <2>1. /\ IsAcc(w) /\ w.missing = acc.missing
        /\ w.end = Going \/ w.end.kind = "error"
        /\ \A y \in w.writes : y \in acc.writes \/ y.rule = rule.name
        /\ rule.mat = NoSpec => w = acc
    <3>1. \/ w = acc \/ w = Stop(acc, Fail(Unsupported)) \/ w = Stop(acc, Fail("internal"))
          \/ rule.mat # NoSpec /\ w = [acc EXCEPT !.writes = acc.writes \cup {new}]
      BY DEF AddToWrite
    <3>2. rule.mat = NoSpec => w = acc
      BY DEF AddToWrite
    <3>3. new.rule = rule.name
      OBVIOUS
    <3> HIDE DEF w, new
    <3>4. CASE w = acc
      BY <3>4
    <3>5. ASSUME NEW e, w = Stop(acc, Fail(e)) PROVE <2>1!1 /\ <2>1!2 /\ <2>1!3
      BY <3>5 DEF IsAcc, Stop, Fail
    <3>6. CASE rule.mat # NoSpec /\ w = [acc EXCEPT !.writes = acc.writes \cup {new}]
      <4>1. IsAcc(w) /\ w.missing = acc.missing /\ w.end = acc.end /\ w.writes = acc.writes \cup {new}
        BY <3>6, WritesIs
      <4> QED BY <3>3, <3>6, <4>1
    <3> QED BY <3>1, <3>2, <3>4, <3>5, <3>6
  <2>2. Assign(env, flag, acc, rule, x) = Credit(flag, w, rule, x)
    BY <1>2 DEF Assign
  <2> HIDE DEF w
  <2>3. CASE w.end # Going
    <3>1. Credit(flag, w, rule, x) = w
      BY <2>3 DEF Credit
    <3> QED BY <2>1, <2>2, <2>3, <3>1 DEF Fate
  <2>4. CASE w.end = Going /\ x.kind = "fallthrough"
    <3>1. Credit(flag, w, rule, x) = [w EXCEPT !.fall = Append(w.fall, rule.name)]
      BY <2>4 DEF Credit
    <3> DEFINE c == [w EXCEPT !.fall = Append(w.fall, rule.name)]
    <3>2. IsAcc(c) /\ c.missing = w.missing /\ c.end = w.end /\ c.writes = w.writes
      BY <2>1, FallIs
    <3>3. NoFallWrites(rule) => rule.mat = NoSpec
      <4>1. x # NoAssignment
        BY <2>4 DEF NoAssignment
      <4> QED BY <2>4, <4>1 DEF NoFallWrites, Reads
    <3> HIDE DEF c
    <3>4. Fate(flag, rule, acc, FALSE, c)
      BY <2>1, <2>4, <3>2, <3>3 DEF Fate
    <3> QED BY <2>2, <3>1, <3>4 DEF c
  <2>5. ASSUME w.end = Going, NEW e, Credit(flag, w, rule, x) = Stop(w, e), e # Going,
               e.kind = "error" \/ e.variant \in flag.variants \cup {Blank}
        PROVE  Fate(flag, rule, acc, FALSE, Assign(env, flag, acc, rule, x))
    <3> DEFINE c == Stop(w, e)
    <3>1. IsAcc(c) /\ c.missing = w.missing /\ c.end = e /\ c.writes = w.writes
      BY <2>1 DEF IsAcc, Stop
    <3> HIDE DEF c
    <3>2. Fate(flag, rule, acc, FALSE, c)
      BY <2>1, <2>5, <3>1 DEF Fate
    <3> QED BY <2>2, <2>5, <3>2 DEF c
  <2>6. CASE w.end = Going /\ x.kind = "default"
    <3>1. Credit(flag, w, rule, x) = Stop(w, Answer("match", rule.name, Blank))
      BY <2>6 DEF Credit
    <3>2. Answer("match", rule.name, Blank) # Going /\ Answer("match", rule.name, Blank).variant = Blank
      BY EndsDiffer
    <3> QED BY <2>5, <2>6, <3>1, <3>2
  <2>7. CASE w.end = Going /\ x.kind = "variant"
    <3>1. Credit(flag, w, rule, x) = VariantMatch(flag, w, rule, x.variant)
      BY <2>7 DEF Credit
    <3>2. CASE x.variant \in flag.variants
      <4>1. Credit(flag, w, rule, x) = Stop(w, Answer("match", rule.name, x.variant))
        BY <3>1, <3>2 DEF VariantMatch
      <4>2. /\ Answer("match", rule.name, x.variant) # Going
            /\ Answer("match", rule.name, x.variant).variant = x.variant
        BY EndsDiffer
      <4> QED BY <2>5, <2>7, <3>2, <4>1, <4>2
    <3>3. CASE x.variant \notin flag.variants
      <4>1. Credit(flag, w, rule, x) = Stop(w, Fail("internal"))
        BY <3>1, <3>3 DEF VariantMatch
      <4> QED BY <2>5, <2>7, <4>1, EndsDiffer
    <3> QED BY <3>2, <3>3
  <2> QED BY <1>0, <1>2, <2>3, <2>4, <2>6, <2>7 DEF Kinds
<1> QED BY <1>1, <1>2

LEMMA ConcludeFate ==
  ASSUME NEW ss, NEW env, NEW flag, NEW rule, GoodRule(ss, rule),
         NEW acc, IsAcc(acc), acc.end = Going, Reads(rule) => acc.missing, NEW val \in {T, F, U}
  PROVE  Fate(flag, rule, acc, acc.missing \/ val = U, Conclude(env, flag, acc, rule, val))
<1>0. /\ T \notin {F, U, Unrecognized, Unsupported} /\ F \notin {U, Unrecognized, Unsupported}
      /\ U \notin {Unrecognized, Unsupported}
  BY DEF T, F, U, Unrecognized, Unsupported
<1>1. CASE val = F
  <2>1. Conclude(env, flag, acc, rule, val) = acc
    BY <1>0, <1>1 DEF Conclude
  <2> QED BY <1>0, <1>1, <2>1 DEF Fate
<1>2. CASE val = U
  <2>1. Conclude(env, flag, acc, rule, val) = [acc EXCEPT !.missing = TRUE]
    BY <1>0, <1>2 DEF Conclude
  <2>2. \A m : LET b == [acc EXCEPT !.missing = m]
               IN  IsAcc(b) /\ b.end = acc.end /\ b.missing = m /\ b.writes = acc.writes
    BY DEF IsAcc
  <2> DEFINE b == Conclude(env, flag, acc, rule, val)
  <2>3. IsAcc(b) /\ b.end = acc.end /\ b.missing = TRUE /\ b.writes = acc.writes
    BY <2>1, <2>2, Zenon
  <2> HIDE DEF b
  <2>4. Fate(flag, rule, acc, acc.missing \/ val = U, b)
    BY <1>2, <2>3 DEF Fate
  <2> QED BY <2>4 DEF b
<1>3. CASE val = T /\ acc.missing
  <2>1. Conclude(env, flag, acc, rule, val) = acc
    BY <1>0, <1>3 DEF Conclude
  <2> QED BY <1>0, <1>3, <2>1 DEF Fate
<1>4. CASE val = T /\ ~acc.missing
  <2> DEFINE x == MatchedAssignment(rule, env.unit)
  <2>1. Conclude(env, flag, acc, rule, val) = Assign(env, flag, acc, rule, x)
    BY <1>0, <1>4 DEF Conclude
  <2>2. x = NoAssignment \/ \E k \in DOMAIN rule.assigns : x = rule.assigns[k]
    BY MatchedIs
  <2> HIDE DEF x
  <2>3. Fate(flag, rule, acc, FALSE, Assign(env, flag, acc, rule, x))
    BY <1>4, <2>2, AssignFate
  <2>4. ~(acc.missing \/ val = U)
    BY <1>0, <1>4
  <2> QED BY <2>1, <2>3, <2>4 DEF Fate
<1> QED BY <1>1, <1>2, <1>3, <1>4

\* A rule of a discovery is undecided if it needs a lookup, and only then;
\* once a rule is undecided, nothing is credited or written any more.
DiscoveryTurn(d, c, flag, rule, acc, b) ==
  LET ed  == EnvOf(d, rule)
      val == SegmentMatch(ed, {}, rule.seg).val
  IN  /\ Reads(rule) => Fate(flag, rule, acc, TRUE, b) /\ ed.unit # NoUnit
      /\ ~Reads(rule) => /\ Fate(flag, rule, acc, acc.missing \/ val = U, b)
                         /\ val \in {T, F, U} /\ (val = U => ed.unit # NoUnit)
                         /\ val # U => SegmentMatch(EnvOf(c, rule), {}, rule.seg).val = val

LEMMA DiscoveryFate ==
  ASSUME NEW d, NEW c, Matching(d, c), Table(d.segs), SelfFree(d.segs), Recognizing,
         NEW flag, NEW rule, GoodRule(d.segs, rule), rule.on, ~BadKey(d, rule), ~Skipped(d, rule),
         NEW acc, IsAcc(acc), acc.end = Going
  PROVE  DiscoveryTurn(d, c, flag, rule, acc, TryRule(d, flag, acc, rule))
<1> DEFINE b == TryRule(d, flag, acc, rule)
           ed == EnvOf(d, rule)
           ec == EnvOf(c, rule)
           out == SegmentMatch(ed, {}, rule.seg)
<1>1. Turn(d, flag, acc, rule, b)
  BY TryRuleCases
<1>2. /\ Kin(ed, ec) /\ ed.segs = d.segs /\ ed.ctx.mode = "discovery" /\ ed.unit = UnitOf(d, rule)
      /\ rule.seg \in DOMAIN d.segs
  BY DEF Matching, EnvOf, UnitOf, Kin, GoodRule
<1> HIDE DEF b
<1> SUFFICES DiscoveryTurn(d, c, flag, rule, acc, b)
  BY DEF b
<1>3. /\ out.val \in {T, F, U} /\ (out.val = U => ed.unit # NoUnit)
      /\ out.val # U => SegmentMatch(ec, {}, rule.seg).val = out.val
  <2> DEFINE none == {}
  <2>1. Agree(none, ec, ec) /\ Table(ed.segs) /\ SelfFree(ed.segs) /\ rule.seg \in DOMAIN ed.segs
    <3> HIDE DEF ed, ec
    <3> QED BY <1>2 DEF Agree
  <2> HIDE DEF none, ed, ec
  <2>2. Halves(ed, ec, ec, none, rule.seg)
    BY <1>2, <2>1, HalvesAgree
  <2> QED BY <2>2 DEF Halves, Pair
<1>4. CASE Reads(rule)
  <2>1. b = ByMaterialization(ed, flag, acc, rule)
    BY <1>1, <1>4 DEF Turn
  <2>2. ed.unit # NoUnit
    BY <1>2, <1>4 DEF Skipped
  <2> DEFINE a == [acc EXCEPT !.asked = acc.asked \cup {Key(ed.unit, rule.mat.read, rule.name)}]
             m == [a EXCEPT !.missing = TRUE]
             n == Asking(m, out)
  <2>3. b = Conclude(ed, flag, n, rule, out.val)
    <3>1. U \notin {T, F, Unsupported}
      BY DEF T, F, U, Unsupported
    <3>2. Lookup(ed.ctx, RecordsOf(ed, rule) # {}) = U
      BY <1>2 DEF Lookup
    <3>3. b = Looked(ed, flag, a, rule, RecordsOf(ed, rule), U)
      BY <2>1, <3>2 DEF ByMaterialization
    <3>4. b = BySegment(ed, flag, [a EXCEPT !.missing = @ \/ U = U], rule)
      <4> HIDE DEF a
      <4> QED BY <3>1, <3>3 DEF Looked
    <3>5. [a EXCEPT !.missing = @ \/ U = U] = m
      <4> HIDE DEF a
      <4> QED OBVIOUS
    <3>6. b = BySegment(ed, flag, m, rule)
      <4> HIDE DEF m
      <4> QED BY <3>4, <3>5
    <3> QED BY <3>6 DEF BySegment, ConcludeWith
  <2>4. IsAcc(n) /\ n.end = Going /\ n.missing = TRUE /\ n.writes = acc.writes
    <3>1. IsAcc(a) /\ a.end = Going /\ a.writes = acc.writes
      BY AskedIs
    <3> HIDE DEF a
    <3>2. \A t : LET x == [a EXCEPT !.missing = t]
                 IN  IsAcc(x) /\ x.end = a.end /\ x.missing = t /\ x.writes = a.writes
      BY <3>1 DEF IsAcc
    <3>3. IsAcc(m) /\ m.end = a.end /\ m.missing = TRUE /\ m.writes = a.writes
      BY <3>2, Zenon
    <3> HIDE DEF m
    <3>5. IsAcc(n) /\ n.end = m.end /\ n.missing = m.missing /\ n.writes = m.writes
      <4> HIDE DEF out
      <4> QED BY <3>3, AskingIs
    <3> HIDE DEF n
    <3> QED BY <3>1, <3>3, <3>5
  <2> HIDE DEF n, ed
  <2>5. Fate(flag, rule, n, n.missing \/ out.val = U, b)
    BY <1>3, <2>3, <2>4, ConcludeFate
  <2>6. Fate(flag, rule, acc, TRUE, b)
    BY <2>4, <2>5 DEF Fate
  <2> QED BY <1>4, <2>2, <2>6 DEF DiscoveryTurn, ed
<1>5. CASE ~Reads(rule)
  <2>1. b = BySegment(ed, flag, acc, rule)
    BY <1>1, <1>5 DEF Turn
  <2> DEFINE n == Asking(acc, out)
  <2>2. b = Conclude(ed, flag, n, rule, out.val)
    BY <2>1 DEF BySegment, ConcludeWith
  <2>3. IsAcc(n) /\ n.end = Going /\ n.missing = acc.missing /\ n.writes = acc.writes
    <3> HIDE DEF out
    <3> QED BY AskingIs
  <2> HIDE DEF n, ed
  <2>4. Fate(flag, rule, n, n.missing \/ out.val = U, b)
    BY <1>3, <1>5, <2>2, <2>3, ConcludeFate
  <2>5. Fate(flag, rule, acc, acc.missing \/ out.val = U, b)
    BY <2>3, <2>4 DEF Fate
  <2> QED BY <1>3, <1>5, <2>5 DEF DiscoveryTurn, ed
<1> QED BY <1>4, <1>5

\* What trying a rule of a discovery makes of acc.
RuleFate(d, flag, rule, acc, b) ==
  /\ IsAcc(b)
  /\ acc.end # Going => b = acc
  /\ acc.end = Going /\ acc.missing =>
       b.missing /\ (b.end = Going \/ d.keys[rule.selector] = Bad)
  /\ acc.end = Going /\ b.missing => acc.missing \/ (b.end = Going /\ UnitOf(d, rule) # NoUnit)
  /\ \A x \in b.writes : x \in acc.writes \/ x.rule = rule.name
  /\ acc.end = Going =>
       b.end = Going \/ b.end.kind = "error" \/ b.end.variant \in flag.variants \cup {Blank}
  /\ b.end = Going /\ NoFallWrites(rule) => b.writes = acc.writes

LEMMA RuleFateIs ==
  ASSUME NEW d, NEW c, Matching(d, c), Table(d.segs), SelfFree(d.segs), Recognizing,
         NEW flag, NEW rule, GoodRule(d.segs, rule), NEW acc, IsAcc(acc)
  PROVE  RuleFate(d, flag, rule, acc, TryRule(d, flag, acc, rule))
<1> DEFINE b == TryRule(d, flag, acc, rule)
           ed == EnvOf(d, rule)
<1>1. Turn(d, flag, acc, rule, b)
  BY TryRuleCases
<1>2. acc.end = Going /\ rule.on /\ ~BadKey(d, rule) /\ ~Skipped(d, rule) => DiscoveryTurn(d, c, flag, rule, acc, b)
  BY DiscoveryFate
<1>3. ed.unit = UnitOf(d, rule)
  BY DEF EnvOf
<1> HIDE DEF b
<1> SUFFICES RuleFate(d, flag, rule, acc, b)
  BY DEF b
<1>4. CASE b = acc
  BY <1>4 DEF RuleFate
<1>5. CASE acc.end = Going /\ rule.on /\ BadKey(d, rule)
  <2>1. b = Stop(acc, KeyError)
    BY <1>1, <1>5, Zenon DEF Turn
  <2>2. KeyError.variant = Blank /\ KeyError # Going
    <3>1. KeyError.kind = "answer" /\ Going.kind = "going" /\ KeyError.variant = Blank
      BY DEF KeyError, Answer, Going
    <3> QED BY <3>1
  <2>3. IsAcc(b) /\ b.end = KeyError /\ b.missing = acc.missing /\ b.writes = acc.writes
    BY <2>1 DEF IsAcc, Stop
  <2>4. d.keys[rule.selector] = Bad
    BY <1>5 DEF BadKey
  <2> QED BY <1>5, <2>2, <2>3, <2>4 DEF RuleFate
<1>6. CASE acc.end = Going /\ rule.on /\ ~BadKey(d, rule) /\ ~Skipped(d, rule)
  <2>1. DiscoveryTurn(d, c, flag, rule, acc, b)
    BY <1>2, <1>6, Zenon
  <2> HIDE DEF ed
  <2>2. CASE Reads(rule)
    <3>1. Fate(flag, rule, acc, TRUE, b) /\ ed.unit # NoUnit
      BY <2>1, <2>2 DEF DiscoveryTurn, ed
    <3> QED BY <1>3, <1>6, <3>1 DEF Fate, RuleFate
  <2>3. CASE ~Reads(rule)
    <3> DEFINE val == SegmentMatch(EnvOf(d, rule), {}, rule.seg).val
    <3>1. Fate(flag, rule, acc, acc.missing \/ val = U, b) /\ (val = U => ed.unit # NoUnit)
      BY <2>1, <2>3 DEF DiscoveryTurn, ed
    <3> HIDE DEF val
    <3> QED BY <1>3, <1>6, <3>1 DEF Fate, RuleFate
  <2> QED BY <2>2, <2>3
<1> QED BY <1>1, <1>4, <1>5, <1>6, Zenon DEF Turn

\* A rule that is decided in a discovery is decided the same with records.
LEMMA DecidedSame ==
  ASSUME NEW d, NEW a, Matching(d, a), Table(d.segs), SelfFree(d.segs), Recognizing,
         NEW flag, NEW rule, GoodRule(d.segs, rule), NEW none, none = {},
         NEW ad, NEW aa, Same(ad, aa, none), ~TryRule(d, flag, ad, rule).missing
  PROVE  Same(TryRule(d, flag, ad, rule), TryRule(a, flag, aa, rule), none)
<1> DEFINE bd == TryRule(d, flag, ad, rule)
           ba == TryRule(a, flag, aa, rule)
           ed == EnvOf(d, rule)
           ea == EnvOf(a, rule)
<1>1. Turn(d, flag, ad, rule, bd) /\ Turn(a, flag, aa, rule, ba)
  BY TryRuleCases
<1>2. /\ IsAcc(ad) /\ aa.end = ad.end
      /\ BadKey(a, rule) <=> BadKey(d, rule)
      /\ Skipped(a, rule) <=> Skipped(d, rule)
  BY DEF Matching, BadKey, Skipped, UnitOf, Same
<1>3. ad.end = Going /\ rule.on /\ ~BadKey(d, rule) /\ ~Skipped(d, rule) => DiscoveryTurn(d, a, flag, rule, ad, bd)
  BY <1>2, DiscoveryFate
<1>4. ~bd.missing
  OBVIOUS
<1> HIDE DEF bd, ba
<1> SUFFICES Same(bd, ba, none)
  BY DEF bd, ba
<1>5. CASE bd = ad /\ ba = aa
  BY <1>5
<1>6. CASE bd = Stop(ad, KeyError) /\ ba = Stop(aa, KeyError)
  BY <1>6, StopSame
<1>7. CASE ad.end = Going /\ rule.on /\ ~BadKey(d, rule) /\ ~Skipped(d, rule)
  <2>1. DiscoveryTurn(d, a, flag, rule, ad, bd)
    BY <1>3, <1>7, Zenon
  <2>2. ~Reads(rule)
    BY <1>4, <2>1 DEF DiscoveryTurn, Fate
  <2>3. SegmentMatch(ea, {}, rule.seg).val = SegmentMatch(ed, {}, rule.seg).val
    BY <1>4, <2>1, <2>2 DEF DiscoveryTurn, Fate
  <2>4. bd = BySegment(ed, flag, ad, rule) /\ ba = BySegment(ea, flag, aa, rule)
    BY <1>1, <1>2, <1>7, <2>2, Zenon DEF Turn
  <2>5. Tried(ed, rule) /\ Peers(ed, ea) /\ Apart(none, rule)
    BY <1>7 DEF Tried, Peers, Apart, EnvOf, UnitOf, Matching, GoodRule
  <2> HIDE DEF ed, ea
  <2> QED BY <2>3, <2>4, <2>5, BySegmentSame
<1>8. \/ bd = ad /\ ba = aa
      \/ bd = Stop(ad, KeyError) /\ ba = Stop(aa, KeyError)
      \/ ad.end = Going /\ rule.on /\ ~BadKey(d, rule) /\ ~Skipped(d, rule)
  BY <1>1, <1>2, Zenon DEF Turn
<1> QED BY <1>5, <1>6, <1>7, <1>8

\* The records agree on the keys of rules in K.
AgreeRules(K, e1, e2) ==
  \A u, m, n : n # NoRule /\ Key(u, m, n) \in K =>
    {r \in e1.ctx.records : r.unit = u /\ r.mat = m /\ r.rule = n}
      = {r \in e2.ctx.records : r.unit = u /\ r.mat = m /\ r.rule = n}

\* A rule for which the discovery asked is tried the same with the records
\* of all it asked for as with all records.
LEMMA AskedForSame ==
  ASSUME NEW d, NEW a, NEW s, Matching(d, a), Matching(d, s), Table(d.segs), SelfFree(d.segs), Recognizing,
         NEW flag, NEW rule, GoodRule(d.segs, rule),
         NEW ad, IsAcc(ad), TryRule(d, flag, ad, rule).end = Going,
         NEW K, Agree(K, a, s), AgreeRules(K, a, s), TryRule(d, flag, ad, rule).asked \subseteq K,
         NEW w, Apart(w, rule), NEW aa, NEW as, Same(aa, as, w)
  PROVE  Same(TryRule(a, flag, aa, rule), TryRule(s, flag, as, rule), w)
<1> DEFINE bd == TryRule(d, flag, ad, rule)
           ba == TryRule(a, flag, aa, rule)
           bs == TryRule(s, flag, as, rule)
           ed == EnvOf(d, rule)
           ea == EnvOf(a, rule)
           es == EnvOf(s, rule)
<1>1. Turn(d, flag, ad, rule, bd) /\ Turn(a, flag, aa, rule, ba) /\ Turn(s, flag, as, rule, bs)
  BY TryRuleCases
<1>2. /\ IsAcc(aa) /\ as.end = aa.end
      /\ BadKey(a, rule) <=> BadKey(d, rule)
      /\ Skipped(a, rule) <=> Skipped(d, rule)
      /\ BadKey(s, rule) <=> BadKey(d, rule)
      /\ Skipped(s, rule) <=> Skipped(d, rule)
  BY DEF Matching, BadKey, Skipped, UnitOf, Same
<1>3. RuleDone(d, flag, ad, rule, bd)
  BY TryRuleIs
<1>4. ad.end = Going /\ bd.asked \subseteq K
  BY <1>3 DEF RuleDone
<1> HIDE DEF bd, ba, bs
<1> SUFFICES Same(ba, bs, w)
  BY DEF ba, bs
<1>5. CASE ba = aa /\ bs = as
  BY <1>5
<1>6. CASE ba = Stop(aa, KeyError) /\ bs = Stop(as, KeyError)
  BY <1>6, StopSame
<1>7. CASE aa.end = Going /\ rule.on /\ ~BadKey(d, rule) /\ ~Skipped(d, rule)
  <2>1. /\ Tried(ed, rule) /\ Tried(ea, rule) /\ Peers(ea, es) /\ Kin(ed, ea) /\ Kin(ed, es)
        /\ ed.segs = d.segs /\ rule.seg \in DOMAIN d.segs /\ Agree(K, ea, es) /\ ed.ctx.mode = "discovery"
        /\ ea.ctx.mode = "complete" /\ es.ctx.mode = "complete" /\ ea.unit = ed.unit /\ es.unit = ed.unit
        /\ ea.ctx = a.ctx /\ es.ctx = s.ctx
    BY <1>7 DEF Tried, Peers, EnvOf, UnitOf, Matching, GoodRule, Kin, Agree
  <2> HIDE DEF ed, ea, es
  <2>2. SegmentAsks(ed, rule) \subseteq K =>
          /\ SegmentMatch(ea, {}, rule.seg) = SegmentMatch(es, {}, rule.seg)
          /\ TargetingMatch(ea, {}, rule.seg) = TargetingMatch(es, {}, rule.seg)
    <3>1. Table(ed.segs) /\ SelfFree(ed.segs) /\ rule.seg \in DOMAIN ed.segs
      BY <2>1
    <3>2. Halves(ed, ea, es, K, rule.seg)
      BY <2>1, <3>1, HalvesAgree
    <3> QED BY <3>2 DEF Halves, SegmentAsks
  <2>3. CASE Reads(rule)
    <3> DEFINE key == Key(ed.unit, rule.mat.read, rule.name)
    <3>1. /\ bd = ByMaterialization(ed, flag, ad, rule)
          /\ ba = ByMaterialization(ea, flag, aa, rule) /\ bs = ByMaterialization(es, flag, as, rule)
      BY <1>1, <1>2, <1>4, <1>7, <2>3, Zenon DEF Turn, ed, ea, es
    <3>2. LookupTurn(ed, flag, ad, rule, bd)
      BY <1>4, <2>1, <3>1, ByMaterializationIs
    <3>3. key \in K /\ SegmentAsks(ed, rule) \subseteq K
      BY <1>4, <2>1, <3>2 DEF LookupTurn
    <3>4. RecordsOf(es, rule) = RecordsOf(ea, rule)
      <4>1. rule.name # NoRule
        BY DEF GoodRule
      <4>2. {r \in a.ctx.records : r.unit = ed.unit /\ r.mat = rule.mat.read /\ r.rule = rule.name}
              = {r \in s.ctx.records : r.unit = ed.unit /\ r.mat = rule.mat.read /\ r.rule = rule.name}
        BY <3>3, <4>1 DEF AgreeRules
      <4> QED BY <2>1, <4>2 DEF RecordsOf
    <3> HIDE DEF key
    <3>5. /\ SegmentMatch(es, {}, rule.seg).val = SegmentMatch(ea, {}, rule.seg).val
          /\ TargetingMatch(es, {}, rule.seg).val = TargetingMatch(ea, {}, rule.seg).val
      BY <2>2, <3>3
    <3>6. Same(ByMaterialization(ea, flag, aa, rule), ByMaterialization(es, flag, as, rule), w)
      BY <2>1, <3>4, <3>5, ByMaterializationSame
    <3> QED BY <3>1, <3>6
  <2>4. CASE ~Reads(rule)
    <3>1. /\ bd = BySegment(ed, flag, ad, rule)
          /\ ba = BySegment(ea, flag, aa, rule) /\ bs = BySegment(es, flag, as, rule)
      BY <1>1, <1>2, <1>4, <1>7, <2>4, Zenon DEF Turn, ed, ea, es
    <3>2. bd.asked = ad.asked \cup SegmentAsks(ed, rule)
      BY <1>4, <2>1, <3>1, BySegmentIs
    <3>3. SegmentMatch(es, {}, rule.seg).val = SegmentMatch(ea, {}, rule.seg).val
      BY <1>4, <2>2, <3>2
    <3>4. Same(BySegment(ea, flag, aa, rule), BySegment(es, flag, as, rule), w)
      BY <2>1, <3>3, BySegmentSame
    <3> QED BY <3>1, <3>4
  <2> QED BY <2>3, <2>4
<1>8. \/ ba = aa /\ bs = as
      \/ ba = Stop(aa, KeyError) /\ bs = Stop(as, KeyError)
      \/ aa.end = Going /\ rule.on /\ ~BadKey(d, rule) /\ ~Skipped(d, rule)
  BY <1>1, <1>2, Zenon DEF Turn
<1> QED BY <1>5, <1>6, <1>7, <1>8

LEMMA EndedSame ==
  ASSUME NEW a, NEW b, NEW w, Same(a, b, w)
  PROVE  Same(Ended(a), Ended(b), w)
<1>1. IsAcc(a) /\ IsAcc(b) /\ b.end = a.end /\ b.missing = a.missing /\ b.fall = a.fall /\ b.writes = w \cup a.writes
  BY DEF Same
<1>2. CASE a.end = Fail(Unsupported)
  <2>1. /\ IsAcc(Ended(a)) /\ Ended(a).writes = a.writes
        /\ Ended(a).end = Answer("unsupported", NoRule, Blank) /\ Ended(a).fall = <<>>
    BY <1>1, <1>2, EndedIs
  <2>2. /\ IsAcc(Ended(b)) /\ Ended(b).writes = b.writes
        /\ Ended(b).end = Answer("unsupported", NoRule, Blank) /\ Ended(b).fall = <<>>
    BY <1>1, <1>2, EndedIs
  <2>3. Going # Fail(Unsupported)
    BY EndsDiffer
  <2>4. \A x : IsAcc(x) =>
          LET y == [x EXCEPT !.end = Answer("unsupported", NoRule, Blank), !.fall = <<>>] IN y.missing = x.missing
    BY DEF IsAcc
  <2>5. /\ Ended(a) = [a EXCEPT !.end = Answer("unsupported", NoRule, Blank), !.fall = <<>>]
        /\ Ended(b) = [b EXCEPT !.end = Answer("unsupported", NoRule, Blank), !.fall = <<>>]
    BY <1>1, <1>2, <2>3 DEF Ended
  <2>6. Ended(b).missing = Ended(a).missing
    BY <1>1, <2>4, <2>5
  <2> QED BY <1>1, <2>1, <2>2, <2>6 DEF Same
<1>3. CASE a.end = Going /\ a.missing
  <2>1. Ended(a) = Stop(a, Fail("missing")) /\ Ended(b) = Stop(b, Fail("missing"))
    BY <1>1, <1>3, EndsDiffer DEF Ended
  <2> QED BY <2>1, StopSame
<1>4. CASE a.end = Going /\ ~a.missing
  <2>1. Ended(a) = Stop(a, Answer("no match", NoRule, Blank)) /\ Ended(b) = Stop(b, Answer("no match", NoRule, Blank))
    BY <1>1, <1>4, EndsDiffer DEF Ended
  <2> QED BY <2>1, StopSame
<1>5. CASE a.end \notin {Going, Fail(Unsupported)}
  <2>1. Ended(a) = a /\ Ended(b) = b
    BY <1>1, <1>5 DEF Ended
  <2> QED BY <2>1
<1> QED BY <1>2, <1>3, <1>4, <1>5

\* What the proof assumes of the rules of a flag and the context: no record
\* is written for a rule that falls through, and a context with a bad key for
\* one of the rules has no unit for the others.
Orderly(base, flag) ==
  /\ \A i \in DOMAIN flag.rules : NoFallWrites(flag.rules[i])
  /\ \A i, j \in DOMAIN flag.rules :
       base.keys[flag.rules[j].selector] = Bad => UnitOf(base, flag.rules[i]) = NoUnit

\* What the rules so far have made of a discovery, ad, and of a resolve with
\* records, aa.
SoFar(d, flag, ad, aa, none) ==
  /\ IsAcc(ad) /\ IsAcc(aa)
  /\ ~ad.missing => Same(ad, aa, none)
  /\ ad.missing => ad.end = Going /\ \E j \in DOMAIN flag.rules : UnitOf(d, flag.rules[j]) # NoUnit
  /\ \A x \in ad.writes : \E j \in DOMAIN flag.rules : x.rule = flag.rules[j].name
  /\ ad.end = Going \/ ad.end.kind = "error" \/ ad.end.variant \in flag.variants \cup {Blank}
  /\ ad.end = Going => ad.writes = none

LEMMA SoFarStep ==
  ASSUME NEW d, NEW a, Matching(d, a), Table(d.segs), SelfFree(d.segs), Recognizing,
         NEW flag, GoodFlag(d.segs, flag), Orderly(d, flag), NEW i \in DOMAIN flag.rules,
         NEW none, none = {}, NEW ad, NEW aa, SoFar(d, flag, ad, aa, none)
  PROVE  SoFar(d, flag, TryRule(d, flag, ad, flag.rules[i]), TryRule(a, flag, aa, flag.rules[i]), none)
<1> DEFINE rule == flag.rules[i]
           bd == TryRule(d, flag, ad, rule)
           ba == TryRule(a, flag, aa, rule)
<1>1. GoodRule(d.segs, rule) /\ NoFallWrites(rule) /\ IsAcc(ad) /\ IsAcc(aa)
  BY DEF GoodFlag, Orderly, SoFar
<1>2. RuleFate(d, flag, rule, ad, bd)
  <2> HIDE DEF rule
  <2> QED BY <1>1, RuleFateIs
<1>3. ~bd.missing /\ Same(ad, aa, none) => Same(bd, ba, none)
  <2> HIDE DEF rule
  <2> QED BY <1>1, DecidedSame
<1>4. IsAcc(ba)
  <2>1. Table(a.segs) /\ GoodRule(a.segs, rule)
    BY <1>1 DEF Matching
  <2> HIDE DEF rule
  <2>2. RuleDone(a, flag, aa, rule, ba)
    BY <1>1, <2>1, TryRuleIs
  <2> QED BY <2>2 DEF RuleDone
<1>5. rule = flag.rules[i]
  OBVIOUS
<1>6. (\E j \in DOMAIN flag.rules : UnitOf(d, flag.rules[j]) # NoUnit) => d.keys[rule.selector] # Bad
  BY DEF Orderly
<1>7. SoFar(d, flag, ad, aa, none)
  OBVIOUS
<1> HIDE DEF bd, ba, rule
<1> SUFFICES SoFar(d, flag, bd, ba, none)
  BY DEF bd, ba, rule
<1>8. ad.missing => ad.end = Going /\ bd.missing /\ bd.end = Going
  BY <1>2, <1>6, <1>7 DEF RuleFate, SoFar
<1>9. bd.missing => bd.end = Going /\ \E j \in DOMAIN flag.rules : UnitOf(d, flag.rules[j]) # NoUnit
  <2>1. CASE ad.missing
    BY <1>7, <1>8, <2>1 DEF SoFar
  <2>2. CASE ~ad.missing /\ ad.end = Going
    BY <1>2, <1>5, <2>2 DEF RuleFate
  <2>3. CASE ~ad.missing /\ ad.end # Going
    BY <1>2, <2>3 DEF RuleFate
  <2> QED BY <2>1, <2>2, <2>3
<1>10. ~bd.missing => Same(bd, ba, none)
  BY <1>3, <1>7, <1>8 DEF SoFar
<1>11. \A x \in bd.writes : \E j \in DOMAIN flag.rules : x.rule = flag.rules[j].name
  BY <1>2, <1>5, <1>7 DEF RuleFate, SoFar
<1>12. bd.end = Going \/ bd.end.kind = "error" \/ bd.end.variant \in flag.variants \cup {Blank}
  BY <1>2, <1>7 DEF RuleFate, SoFar
<1>13. bd.end = Going => bd.writes = none
  BY <1>1, <1>2, <1>7 DEF RuleFate, SoFar
<1>14. IsAcc(bd)
  BY <1>2 DEF RuleFate
<1> QED BY <1>4, <1>9, <1>10, <1>11, <1>12, <1>13, <1>14 DEF SoFar

LEMMA TurnsSoFar ==
  ASSUME NEW d, NEW a, Matching(d, a), Table(d.segs), SelfFree(d.segs), Recognizing,
         NEW flag, GoodFlag(d.segs, flag), Orderly(d, flag), NEW none, none = {},
         NEW fd, Turns(d, flag, none, Len(flag.rules), fd), NEW fa, Turns(a, flag, none, Len(flag.rules), fa)
  PROVE  \A i \in 0 .. Len(flag.rules) : SoFar(d, flag, fd[i], fa[i], none)
<1> DEFINE n == Len(flag.rules)
           P(i) == SoFar(d, flag, fd[i], fa[i], none)
           Wrong == {i \in 0 .. n : ~P(i)}
<1>0. n \in Nat /\ DOMAIN flag.rules = 1 .. n
  BY DEF GoodFlag
<1>1. /\ fd[0] = Start(none) /\ fa[0] = Start(none)
      /\ \A i \in 1 .. n : /\ fd[i] = TryRule(d, flag, fd[i - 1], flag.rules[i])
                           /\ fa[i] = TryRule(a, flag, fa[i - 1], flag.rules[i])
  <2>1. \A i \in 0 .. n : fd[i] = IF i = 0 THEN Start(none) ELSE TryRule(d, flag, fd[i - 1], flag.rules[i])
    BY DEF Turns
  <2>2. \A i \in 0 .. n : fa[i] = IF i = 0 THEN Start(none) ELSE TryRule(a, flag, fa[i - 1], flag.rules[i])
    BY DEF Turns
  <2> HIDE DEF n
  <2>3. 0 \in 0 .. n /\ \A i \in 1 .. n : i \in 0 .. n /\ i # 0
    BY <1>0
  <2>4. fd[0] = Start(none) /\ fa[0] = Start(none)
    BY <2>1, <2>2, <2>3
  <2> QED BY <2>1, <2>2, <2>3, <2>4
<1> HIDE DEF n
<1>2. P(0)
  BY <1>1 DEF Start, SoFar, Same, IsAcc
<1>3. ASSUME NEW i \in 1 .. n, P(i - 1) PROVE P(i)
  <2>1. SoFar(d, flag, TryRule(d, flag, fd[i - 1], flag.rules[i]), TryRule(a, flag, fa[i - 1], flag.rules[i]), none)
    BY <1>0, <1>3, SoFarStep
  <2> QED BY <1>1, <2>1
<1>4. Wrong = {}
  <2> SUFFICES ASSUME Wrong # {} PROVE FALSE
    OBVIOUS
  <2>1. Wrong \in SUBSET Nat
    OBVIOUS
  <2>2. PICK i \in Wrong : \A k \in Wrong : i <= k
    <3> HIDE DEF Wrong
    <3> QED BY <2>1, LeastNumber
  <2> HIDE DEF P
  <2>3. i \in 1 .. n /\ i - 1 \in 0 .. n /\ P(i - 1)
    BY <1>0, <1>2, <2>2
  <2> QED BY <1>3, <2>2, <2>3
<1> QED BY <1>4 DEF n

LEMMA TurnsSame ==
  ASSUME NEW d, NEW a, NEW s, Matching(d, a), Matching(d, s), Table(d.segs), SelfFree(d.segs), Recognizing,
         NEW flag, GoodFlag(d.segs, flag), NEW K, Agree(K, a, s), AgreeRules(K, a, s),
         NEW w, \A i \in DOMAIN flag.rules : Apart(w, flag.rules[i]), NEW none, none = {},
         NEW fd, Turns(d, flag, none, Len(flag.rules), fd), NEW fa, Turns(a, flag, none, Len(flag.rules), fa),
         NEW fs, Turns(s, flag, w, Len(flag.rules), fs)
  PROVE  \A i \in 0 .. Len(flag.rules) : fd[i].end = Going /\ fd[i].asked \subseteq K => Same(fa[i], fs[i], w)
<1> DEFINE n == Len(flag.rules)
           P(i) == fd[i].end = Going /\ fd[i].asked \subseteq K => Same(fa[i], fs[i], w)
           Wrong == {i \in 0 .. n : ~P(i)}
<1>0. n \in Nat /\ DOMAIN flag.rules = 1 .. n
  BY DEF GoodFlag
<1>1. /\ fd[0] = Start(none) /\ fa[0] = Start(none) /\ fs[0] = Start(w)
      /\ \A i \in 1 .. n : /\ fd[i] = TryRule(d, flag, fd[i - 1], flag.rules[i])
                           /\ fa[i] = TryRule(a, flag, fa[i - 1], flag.rules[i])
                           /\ fs[i] = TryRule(s, flag, fs[i - 1], flag.rules[i])
  <2>1. \A i \in 0 .. n : fd[i] = IF i = 0 THEN Start(none) ELSE TryRule(d, flag, fd[i - 1], flag.rules[i])
    BY DEF Turns
  <2>2. \A i \in 0 .. n : fa[i] = IF i = 0 THEN Start(none) ELSE TryRule(a, flag, fa[i - 1], flag.rules[i])
    BY DEF Turns
  <2>3. \A i \in 0 .. n : fs[i] = IF i = 0 THEN Start(w) ELSE TryRule(s, flag, fs[i - 1], flag.rules[i])
    BY DEF Turns
  <2> HIDE DEF n
  <2> QED BY <1>0, <2>1, <2>2, <2>3
<1>t. \A i \in 0 .. n : IsAcc(fd[i])
  BY TurnsRight
<1> HIDE DEF n
<1>2. P(0)
  BY <1>1 DEF Start, Same, IsAcc
<1>3. ASSUME NEW i \in 1 .. n, P(i - 1) PROVE P(i)
  <2> SUFFICES ASSUME fd[i].end = Going, fd[i].asked \subseteq K PROVE Same(fa[i], fs[i], w)
    OBVIOUS
  <2> DEFINE ad == fd[i - 1]
             rule == flag.rules[i]
  <2>1. /\ fd[i] = TryRule(d, flag, ad, rule) /\ IsAcc(ad) /\ GoodRule(d.segs, rule) /\ Apart(w, rule)
        /\ fa[i] = TryRule(a, flag, fa[i - 1], rule) /\ fs[i] = TryRule(s, flag, fs[i - 1], rule)
    <3>1. i - 1 \in 0 .. n
      BY <1>0
    <3> QED BY <1>0, <1>1, <1>t, <3>1 DEF GoodFlag
  <2>2. ad.end = Going /\ ad.asked \subseteq fd[i].asked
    <3>1. RuleDone(d, flag, ad, rule, TryRule(d, flag, ad, rule))
      <4> HIDE DEF ad, rule
      <4> QED BY <2>1, TryRuleIs
    <3> HIDE DEF ad
    <3> QED BY <2>1, <3>1 DEF RuleDone
  <2>3. Same(fa[i - 1], fs[i - 1], w)
    BY <1>3, <2>2
  <2> HIDE DEF ad, rule
  <2>4. TryRule(d, flag, ad, rule).end = Going /\ TryRule(d, flag, ad, rule).asked \subseteq K
    BY <2>1
  <2>5. Same(TryRule(a, flag, fa[i - 1], rule), TryRule(s, flag, fs[i - 1], rule), w)
    BY <2>1, <2>3, <2>4, AskedForSame
  <2> QED BY <2>1, <2>5
<1>4. Wrong = {}
  <2> SUFFICES ASSUME Wrong # {} PROVE FALSE
    OBVIOUS
  <2>1. Wrong \in SUBSET Nat
    OBVIOUS
  <2>2. PICK i \in Wrong : \A k \in Wrong : i <= k
    <3> HIDE DEF Wrong
    <3> QED BY <2>1, LeastNumber
  <2> HIDE DEF P
  <2>3. i \in 1 .. n /\ i - 1 \in 0 .. n /\ P(i - 1)
    BY <1>0, <1>2, <2>2
  <2> QED BY <1>3, <2>2, <2>3
<1> QED BY <1>4 DEF n

\* What the discovery D and the resolve in one go, A, make of a flag: a flag
\* that is not left open gets the same answer.
FirstSame(flag, none, D, A) ==
  /\ D.end # Fail("missing") =>
       /\ A.end = D.end /\ A.fall = D.fall /\ A.writes = D.writes
       /\ D.end.kind = "error" \/ D.end.variant \in flag.variants \cup {Blank}
  /\ D.end = Fail("missing") => D.writes = none
  /\ \A x \in D.writes : \E j \in DOMAIN flag.rules : x.rule = flag.rules[j].name

LEMMA FlagFirst ==
  ASSUME NEW d, NEW a, Matching(d, a), Table(d.segs), SelfFree(d.segs), Recognizing,
         NEW flag, GoodFlag(d.segs, flag), Orderly(d, flag), NEW none, none = {}
  PROVE  FirstSame(flag, none, ResolveFlag(d, flag, none), ResolveFlag(a, flag, none))
<1> DEFINE n == Len(flag.rules)
           D == ResolveFlag(d, flag, none)
           A == ResolveFlag(a, flag, none)
<1>1. n \in Nat /\ n \in 0 .. n
  BY DEF GoodFlag
<1>2. PICK fd : Turns(d, flag, none, n, fd) /\ D = Ended(fd[n])
  BY <1>1, ResolveFlagIs
<1>3. PICK fa : Turns(a, flag, none, n, fa) /\ A = Ended(fa[n])
  BY <1>1, ResolveFlagIs
<1>4. SoFar(d, flag, fd[n], fa[n], none)
  <2>1. \A i \in 0 .. Len(flag.rules) : SoFar(d, flag, fd[i], fa[i], none)
    BY <1>2, <1>3, TurnsSoFar
  <2> QED BY <1>1, <2>1
<1> DEFINE ad == fd[n]
           aa == fa[n]
<1>5. /\ D = Ended(ad) /\ A = Ended(aa) /\ SoFar(d, flag, ad, aa, none)
      /\ ad.end = Going \/ EndRight(d, flag, n, ad.end)
  <2>1. \A i \in 0 .. Len(flag.rules) :
          IsAcc(fd[i]) /\ (fd[i].end = Going \/ EndRight(d, flag, i, fd[i].end))
    BY <1>2, TurnsRight
  <2> QED BY <1>1, <1>2, <1>3, <1>4, <2>1
<1> HIDE DEF D, A, ad, aa, n
<1>6. IsAcc(ad) /\ D.writes = ad.writes
  BY <1>5, EndedIs DEF SoFar
<1>7. D.end = Fail("missing") => ad.end = Going
  BY <1>5, <1>6, OpenIs
<1>8. ASSUME D.end # Fail("missing") PROVE ~ad.missing
  <2>1. ad.missing => ad.end = Going
    BY <1>5 DEF SoFar
  <2>2. ad.end = Going /\ ad.missing => D.end = Fail("missing")
    BY <1>5, <1>6, EndedIs
  <2> QED BY <1>8, <2>1, <2>2
<1>9. ASSUME D.end # Fail("missing") PROVE A.end = D.end /\ A.fall = D.fall /\ A.writes = D.writes
  <2>1. Same(ad, aa, none)
    BY <1>5, <1>8, <1>9 DEF SoFar
  <2>2. Same(D, A, none)
    BY <1>5, <2>1, EndedSame
  <2> QED BY <2>2 DEF Same
<1>10. ASSUME D.end # Fail("missing") PROVE D.end.kind = "error" \/ D.end.variant \in flag.variants \cup {Blank}
  <2>0. /\ Answer("unsupported", NoRule, Blank).variant = Blank
        /\ Answer("no match", NoRule, Blank).variant = Blank
    BY DEF Answer
  <2>1. CASE ad.end = Fail(Unsupported)
    <3>1. D.end = Answer("unsupported", NoRule, Blank)
      BY <1>5, <1>6, <2>1, EndedIs
    <3> QED BY <2>0, <3>1
  <2>2. CASE ad.end = Going
    <3>1. ~ad.missing
      BY <1>8, <1>10
    <3>2. D.end = Answer("no match", NoRule, Blank)
      BY <1>5, <1>6, <2>2, <3>1, EndedIs
    <3> QED BY <2>0, <3>2
  <2>3. CASE ad.end \notin {Going, Fail(Unsupported)}
    <3>1. D.end = ad.end
      BY <1>5, <1>6, <2>3, EndedIs
    <3> QED BY <1>5, <2>3, <3>1 DEF SoFar
  <2> QED BY <2>1, <2>2, <2>3
<1>11. D.end = Fail("missing") => D.writes = none
  BY <1>5, <1>6, <1>7 DEF SoFar
<1>12. \A x \in D.writes : \E j \in DOMAIN flag.rules : x.rule = flag.rules[j].name
  BY <1>5, <1>6 DEF SoFar
<1> QED BY <1>9, <1>10, <1>11, <1>12 DEF FirstSame, D, A

\* An open flag is resolved from the records of all it asked for, S, as it is
\* from all records, A.
SecondSame(w, A, S) == S.end = A.end /\ S.fall = A.fall /\ S.writes = w \cup A.writes

LEMMA FlagSecond ==
  ASSUME NEW d, NEW a, NEW s, Matching(d, a), Matching(d, s), Table(d.segs), SelfFree(d.segs), Recognizing,
         NEW flag, GoodFlag(d.segs, flag), NEW K, Agree(K, a, s), AgreeRules(K, a, s),
         NEW w, \A i \in DOMAIN flag.rules : Apart(w, flag.rules[i]), NEW none, none = {},
         ResolveFlag(d, flag, none).end = Fail("missing"), ResolveFlag(d, flag, none).asked \subseteq K
  PROVE  SecondSame(w, ResolveFlag(a, flag, none), ResolveFlag(s, flag, w))
<1> DEFINE n == Len(flag.rules)
           D == ResolveFlag(d, flag, none)
           A == ResolveFlag(a, flag, none)
           S == ResolveFlag(s, flag, w)
<1>1. n \in Nat /\ n \in 0 .. n
  BY DEF GoodFlag
<1>2. PICK fd : Turns(d, flag, none, n, fd) /\ D = Ended(fd[n])
  BY <1>1, ResolveFlagIs
<1>3. PICK fa : Turns(a, flag, none, n, fa) /\ A = Ended(fa[n])
  BY <1>1, ResolveFlagIs
<1>4. PICK fs : Turns(s, flag, w, n, fs) /\ S = Ended(fs[n])
  BY <1>1, ResolveFlagIs
<1>5. IsAcc(fd[n]) /\ (fd[n].end = Going \/ EndRight(d, flag, n, fd[n].end))
  <2>1. \A i \in 0 .. Len(flag.rules) :
          IsAcc(fd[i]) /\ (fd[i].end = Going \/ EndRight(d, flag, i, fd[i].end))
    BY <1>2, TurnsRight
  <2> QED BY <1>1, <2>1
<1>6. \A i \in 0 .. Len(flag.rules) : fd[i].end = Going /\ fd[i].asked \subseteq K => Same(fa[i], fs[i], w)
  BY <1>2, <1>3, <1>4, TurnsSame
<1>7. D.end = Fail("missing") /\ D.asked \subseteq K
  OBVIOUS
<1> HIDE DEF D, A, S
<1>8. fd[n].asked \subseteq K
  BY <1>2, <1>5, <1>7, EndedIs
<1>9. fd[n].end = Going
  BY <1>2, <1>5, <1>7, OpenIs
<1>10. Same(fa[n], fs[n], w)
  BY <1>1, <1>6, <1>8, <1>9
<1>11. Same(A, S, w)
  BY <1>3, <1>4, <1>10, EndedSame
<1> QED BY <1>11 DEF SecondSame, Same, A, S

-----------------------------------------------------------------------------
(* The two halves of a request.                                            *)

\* What the caller sees is the same.
Alike(x, y) == x.pc = y.pc /\ x.resolved = y.resolved /\ x.writes = y.writes

\* The answers to a request in two halves, oD and oS, and in one go, oA.
LEMMA GatheredSame ==
  ASSUME NEW c, GoodConf(c), NEW none, none = {}, NEW nil, DOMAIN nil = {},
         NEW oD, NEW oA, NEW oS, DOMAIN oD = Active(c), DOMAIN oA = Active(c),
         NEW openD, openD = {f \in DOMAIN oD : oD[f].end = Fail("missing")}, DOMAIN oS = openD,
         NEW openA, openA = {f \in DOMAIN oA : oA[f].end = Fail("missing")},
         NEW openS, openS = {f \in DOMAIN oS : oS[f].end = Fail("missing")},
         NEW asked, NEW askedA, NEW askedS,
         NEW first, first = Gathered(c, "discovery", nil, none, oD, openD, asked), first.pc = "suspended",
         \A f \in Active(c) : FirstSame(c.flags[f], none, oD[f], oA[f]),
         \A f \in openD : SecondSame(first.writes, oA[f], oS[f])
  PROVE  Alike(Gathered(c, "complete", first.resolved, first.writes, oS, openS, askedS),
               Gathered(c, "complete", nil, none, oA, openA, askedA))
<1> DEFINE one == Gathered(c, "complete", nil, none, oA, openA, askedA)
           second == Gathered(c, "complete", first.resolved, first.writes, oS, openS, askedS)
           Wrong(out, open) == \/ Cardinality(DOMAIN out) > MAX_FLAGS
                               \/ \E f \in DOMAIN out \ open : out[f].end.kind = "error"
<1>1. /\ first.pc = IF Wrong(oD, openD) THEN "failed"
                    ELSE IF asked # {} THEN "suspended" ELSE IF Gone(c, nil) # {} THEN "failed" ELSE "answered"
      /\ first.resolved = [f \in (DOMAIN oD \ openD) \cup DOMAIN nil |->
                             IF f \in DOMAIN nil THEN nil[f] ELSE Result(oD[f])]
      /\ first.writes = none \cup UNION {oD[f].writes : f \in DOMAIN oD}
  BY DEF Gathered
<1>2. /\ one.pc = IF Wrong(oA, openA) THEN "failed" ELSE IF Gone(c, nil) # {} THEN "failed" ELSE "answered"
      /\ one.resolved = [f \in (DOMAIN oA \ openA) \cup DOMAIN nil |->
                             IF f \in DOMAIN nil THEN nil[f] ELSE Result(oA[f])]
      /\ one.writes = none \cup UNION {oA[f].writes : f \in DOMAIN oA}
  BY DEF Gathered
<1>3. /\ second.pc = IF Wrong(oS, openS) THEN "failed"
                     ELSE IF Gone(c, first.resolved) # {} THEN "failed" ELSE "answered"
      /\ second.resolved = [f \in (DOMAIN oS \ openS) \cup DOMAIN first.resolved |->
                              IF f \in DOMAIN first.resolved THEN first.resolved[f] ELSE Result(oS[f])]
      /\ second.writes = first.writes \cup UNION {oS[f].writes : f \in DOMAIN oS}
  BY DEF Gathered
<1> HIDE DEF one, second
<1>4. \A f \in Active(c) \ openD :
        /\ oA[f].end = oD[f].end /\ oA[f].fall = oD[f].fall /\ oA[f].writes = oD[f].writes
        /\ oD[f].end # Fail("missing")
        /\ oD[f].end.kind = "error" \/ oD[f].end.variant \in c.flags[f].variants \cup {Blank}
  BY DEF FirstSame
<1>5. \A f \in openD : /\ f \in Active(c) /\ oD[f].writes = none
                       /\ oS[f].end = oA[f].end /\ oS[f].fall = oA[f].fall
                       /\ oS[f].writes = first.writes \cup oA[f].writes
  BY DEF FirstSame, SecondSame
<1>6. openA = openS
  BY <1>4, <1>5
<1>7. ~Wrong(oD, openD)
  <2> HIDE DEF Wrong
  <2> QED BY <1>1
<1>8. Cardinality(openD) <= Cardinality(Active(c)) /\ Cardinality(openD) \in Nat /\ Cardinality(Active(c)) \in Nat
  <2>1. Active(c) \subseteq DOMAIN c.flags /\ IsFiniteSet(DOMAIN c.flags)
    BY DEF Active, GoodConf
  <2>2. IsFiniteSet(Active(c)) /\ openD \subseteq Active(c)
    BY <2>1, FS_Subset
  <2> QED BY <2>2, FS_Subset, FS_CardinalityType
<1>9. Wrong(oS, openS) <=> Wrong(oA, openA)
  <2>1. ~(Cardinality(DOMAIN oS) > MAX_FLAGS) /\ ~(Cardinality(DOMAIN oA) > MAX_FLAGS)
    BY <1>7, <1>8, ResolverAssumption
  <2>2. (\E f \in DOMAIN oS \ openS : oS[f].end.kind = "error")
          <=> (\E f \in DOMAIN oA \ openA : oA[f].end.kind = "error")
    BY <1>4, <1>5, <1>6, <1>7
  <2> QED BY <2>1, <2>2
<1>10. DOMAIN first.resolved = Active(c) \ openD
  BY <1>1
<1>11. \A f \in Active(c) \ openD : first.resolved[f] = Result(oD[f])
  BY <1>1
<1>12. Gone(c, first.resolved) = {} /\ Gone(c, nil) = {}
  <2>1. Gone(c, nil) = {}
    BY DEF Gone
  <2>2. ASSUME NEW f \in Active(c) \ openD
        PROVE  f \in DOMAIN c.flags /\ first.resolved[f].end.variant \in c.flags[f].variants \cup {Blank}
    <3>1. oD[f].end.kind # "error"
      BY <1>7
    <3>2. first.resolved[f] = Result(oD[f])
      BY <1>11
    <3>3. first.resolved[f].end = oD[f].end
      BY <3>2 DEF Result
    <3> QED BY <1>4, <3>1, <3>3 DEF Active
  <2>3. Gone(c, first.resolved) = {}
    BY <1>10, <2>2 DEF Gone
  <2> QED BY <2>1, <2>3
<1>13. second.pc = one.pc
  <2> HIDE DEF Wrong
  <2> QED BY <1>2, <1>3, <1>9, <1>12
<1>14. second.resolved = one.resolved
  <2>1. DOMAIN oA \ openA = (DOMAIN oS \ openS) \cup DOMAIN first.resolved
    BY <1>4, <1>5, <1>6, <1>10
  <2>2. ASSUME NEW f \in DOMAIN oA \ openA
        PROVE  (IF f \in DOMAIN first.resolved THEN first.resolved[f] ELSE Result(oS[f])) = Result(oA[f])
    <3>1. CASE f \in DOMAIN first.resolved
      BY <1>4, <1>10, <1>11, <3>1 DEF Result
    <3>2. CASE f \notin DOMAIN first.resolved
      BY <1>5, <1>10, <3>2 DEF Result
    <3> QED BY <3>1, <3>2
  <2>3. second.resolved = [f \in DOMAIN oA \ openA |->
                             IF f \in DOMAIN first.resolved THEN first.resolved[f] ELSE Result(oS[f])]
    BY <1>3, <2>1
  <2>4. one.resolved = [f \in DOMAIN oA \ openA |-> Result(oA[f])]
    BY <1>2
  <2> QED BY <2>2, <2>3, <2>4, Zenon
<1>15. second.writes = one.writes
  <2>1. first.writes = UNION {oD[f].writes : f \in DOMAIN oD} /\ one.writes = UNION {oA[f].writes : f \in DOMAIN oA}
    BY <1>1, <1>2
  <2>2. ASSUME NEW x PROVE x \in second.writes <=> x \in one.writes
    <3>1. x \in first.writes <=> \E f \in Active(c) \ openD : x \in oA[f].writes
      <4>1. x \in first.writes <=> \E f \in Active(c) : x \in oD[f].writes
        BY <2>1
      <4> QED BY <1>4, <1>5, <4>1
    <3>2. x \in one.writes <=> \E f \in Active(c) : x \in oA[f].writes
      BY <2>1
    <3>3. x \in second.writes <=> x \in first.writes \/ \E f \in openD : x \in oS[f].writes
      BY <1>3
    <3>4. x \in second.writes <=> x \in first.writes \/ \E f \in openD : x \in oA[f].writes
      BY <1>5, <3>3
    <3> QED BY <1>5, <3>1, <3>2, <3>4
  <2> QED BY <1>2, <1>3, <2>2
<1> QED BY <1>13, <1>14, <1>15 DEF Alike, one, second

LEMMA HalvesAlike ==
  ASSUME NEW c, GoodConf(c), SelfFree(c.segs), Recognizing, NEW st, NEW g,
         \A f \in DOMAIN c.flags : Orderly(Base(c, "discovery", {}), c.flags[f]),
         ResolveFlags(c, "discovery", {}, << >>, {}).pc = "suspended",
         Agree(ResolveFlags(c, "discovery", {}, << >>, {}).to_read,
               Base(c, "complete", st), Base(c, "complete", g)),
         AgreeRules(ResolveFlags(c, "discovery", {}, << >>, {}).to_read,
                    Base(c, "complete", st), Base(c, "complete", g))
  PROVE  LET first == ResolveFlags(c, "discovery", {}, << >>, {})
         IN  Alike(ResolveFlags(c, "complete", g, first.resolved, first.writes),
                   ResolveFlags(c, "complete", st, << >>, {}))
<1> DEFINE nil == << >>
           none == {}
           first == ResolveFlags(c, "discovery", none, nil, none)
           done == first.resolved
           w == first.writes
           d == Base(c, "discovery", none)
           a == Base(c, "complete", st)
           s == Base(c, "complete", g)
           oD == [f \in Active(c) \ DOMAIN nil |-> ResolveFlag(d, c.flags[f], none)]
           oA == [f \in Active(c) \ DOMAIN nil |-> ResolveFlag(a, c.flags[f], none)]
           oS == [f \in Active(c) \ DOMAIN done |-> ResolveFlag(s, c.flags[f], w)]
           openD == {f \in DOMAIN oD : oD[f].end = Fail("missing")}
           openA == {f \in DOMAIN oA : oA[f].end = Fail("missing")}
           openS == {f \in DOMAIN oS : oS[f].end = Fail("missing")}
           asked == UNION {oD[f].asked : f \in DOMAIN oD}
           askedA == UNION {oA[f].asked : f \in DOMAIN oA}
           askedS == UNION {oS[f].asked : f \in DOMAIN oS}
<1>0. DOMAIN nil = {} /\ none = {}
  OBVIOUS
<1>1. first = Gathered(c, "discovery", nil, none, oD, openD, asked)
  <2> HIDE DEF nil, none
  <2> QED BY DEF ResolveFlags, Gather
<1>2. ResolveFlags(c, "complete", st, nil, none) = Gathered(c, "complete", nil, none, oA, openA, askedA)
  <2> HIDE DEF nil, none
  <2> QED BY DEF ResolveFlags, Gather
<1>3. ResolveFlags(c, "complete", g, done, w) = Gathered(c, "complete", done, w, oS, openS, askedS)
  <2> HIDE DEF done, w
  <2> QED BY DEF ResolveFlags, Gather
<1>4. /\ first.pc = "suspended"
      /\ Agree(first.to_read, a, s) /\ AgreeRules(first.to_read, a, s)
      /\ \A f \in DOMAIN c.flags : Orderly(d, c.flags[f])
  OBVIOUS
<1>5. Matching(d, a) /\ Matching(d, s) /\ d.segs = c.segs
  BY DEF Matching, Base
<1> HIDE DEF nil, none
<1>6. /\ first.to_read = asked
      /\ DOMAIN done = (DOMAIN oD \ openD) \cup DOMAIN nil
      /\ w = none \cup UNION {oD[f].writes : f \in DOMAIN oD}
  <2> HIDE DEF first, oD, openD, asked
  <2> QED BY <1>1 DEF Gathered, done, w
<1> HIDE DEF first, done, w, d, a, s
<1>7. DOMAIN oD = Active(c) /\ DOMAIN oA = Active(c)
  BY <1>0
<1>8. DOMAIN oS = openD
  <2>1. DOMAIN oS = Active(c) \ DOMAIN done
    OBVIOUS
  <2> HIDE DEF oD, oS
  <2> QED BY <1>0, <1>6, <1>7, <2>1
<1>9. ASSUME NEW f \in Active(c)
      PROVE  /\ f \in DOMAIN c.flags /\ GoodFlag(d.segs, c.flags[f])
             /\ oD[f] = ResolveFlag(d, c.flags[f], none) /\ oA[f] = ResolveFlag(a, c.flags[f], none)
             /\ FirstSame(c.flags[f], none, oD[f], oA[f])
  <2>1. f \in DOMAIN c.flags /\ GoodFlag(d.segs, c.flags[f]) /\ Orderly(d, c.flags[f]) /\ Table(d.segs)
        /\ SelfFree(d.segs)
    BY <1>4, <1>5 DEF GoodConf, Active
  <2>2. oD[f] = ResolveFlag(d, c.flags[f], none) /\ oA[f] = ResolveFlag(a, c.flags[f], none)
    BY <1>0
  <2>3. FirstSame(c.flags[f], none, ResolveFlag(d, c.flags[f], none), ResolveFlag(a, c.flags[f], none))
    BY <1>0, <1>5, <2>1, FlagFirst
  <2> HIDE DEF oD, oA
  <2> QED BY <2>1, <2>2, <2>3
<1>10. ASSUME NEW f \in openD PROVE SecondSame(w, oA[f], oS[f])
  <2>0. f \in Active(c) /\ oD[f].end = Fail("missing") /\ oD[f].asked \subseteq first.to_read
    <3> HIDE DEF oD, oA
    <3> QED BY <1>6, <1>7
  <2>1. oS[f] = ResolveFlag(s, c.flags[f], w)
    <3>1. f \in DOMAIN oS
      BY <1>8
    <3> QED BY <3>1
  <2>2. ASSUME NEW i \in DOMAIN c.flags[f].rules PROVE Apart(w, c.flags[f].rules[i])
    <3>1. SUFFICES ASSUME NEW x \in w PROVE x.rule # c.flags[f].rules[i].name
      BY DEF Apart
    <3>2. PICK h \in Active(c) : x \in oD[h].writes
      <4> HIDE DEF oD
      <4> QED BY <1>6, <1>7, <1>0
    <3>3. PICK j \in DOMAIN c.flags[h].rules : x.rule = c.flags[h].rules[j].name
      <4> HIDE DEF oD, oA
      <4> QED BY <1>9, <3>2 DEF FirstSame
    <3>4. h # f
      <4> HIDE DEF oD, oA
      <4> QED BY <1>9, <1>0, <2>0, <3>2 DEF FirstSame
    <3>5. h \in DOMAIN c.flags /\ f \in DOMAIN c.flags
      BY <1>9, <2>0
    <3> QED BY <3>3, <3>4, <3>5 DEF GoodConf
  <2>3. GoodFlag(d.segs, c.flags[f]) /\ Table(d.segs) /\ SelfFree(d.segs)
        /\ oA[f] = ResolveFlag(a, c.flags[f], none) /\ oD[f] = ResolveFlag(d, c.flags[f], none)
    BY <1>5, <1>9, <2>0 DEF GoodConf
  <2> HIDE DEF oD, oA, oS, openD
  <2>4. /\ ResolveFlag(d, c.flags[f], none).end = Fail("missing")
        /\ ResolveFlag(d, c.flags[f], none).asked \subseteq first.to_read
    BY <2>0, <2>3
  <2>5. SecondSame(w, ResolveFlag(a, c.flags[f], none), ResolveFlag(s, c.flags[f], w))
    BY <1>4, <1>5, <1>0, <2>2, <2>3, <2>4, FlagSecond
  <2> QED BY <2>1, <2>3, <2>5
<1>11. Alike(Gathered(c, "complete", done, w, oS, openS, askedS),
             Gathered(c, "complete", nil, none, oA, openA, askedA))
  <2>1. /\ openD = {f \in DOMAIN oD : oD[f].end = Fail("missing")}
        /\ openA = {f \in DOMAIN oA : oA[f].end = Fail("missing")}
        /\ openS = {f \in DOMAIN oS : oS[f].end = Fail("missing")}
    OBVIOUS
  <2> HIDE DEF oD, oA, oS, openD, openA, openS, asked, askedA, askedS
  <2>2. \A f \in openD : SecondSame(first.writes, oA[f], oS[f])
    BY <1>10 DEF w
  <2>3. Alike(Gathered(c, "complete", first.resolved, first.writes, oS, openS, askedS),
              Gathered(c, "complete", nil, none, oA, openA, askedA))
    BY <1>0, <1>1, <1>4, <1>7, <1>8, <1>9, <2>1, <2>2, GatheredSame
  <2> QED BY <2>3 DEF done, w
<1> HIDE DEF oD, oA, oS, openD, openA, openS, asked, askedA, askedS
<1>12. Alike(ResolveFlags(c, "complete", g, done, w), ResolveFlags(c, "complete", st, nil, none))
  BY <1>2, <1>3, <1>11
<1> QED BY <1>12 DEF done, w, first, nil, none

\* What was read of the keys K is what the store says of them.
LEMMA StoredAgree ==
  ASSUME NEW K, NEW e1, NEW e2, e1.ctx.records = store, e2.ctx.records = UNION {Stored(k) : k \in K}
  PROVE  Agree(K, e1, e2) /\ AgreeRules(K, e1, e2)
<1> DEFINE read == UNION {Stored(k) : k \in K}
<1>1. ASSUME NEW k, NEW r \in Stored(k)
      PROVE  /\ r.unit = k.unit /\ r.mat = k.mat /\ r.rule = k.rule
             /\ r \in store \/ k.rule = NoRule
             /\ \E x \in store : x.unit = k.unit /\ x.mat = k.mat
  BY DEF Stored
<1>2. ASSUME NEW r \in read
      PROVE  /\ r \in store \/ r.rule = NoRule
             /\ \E x \in store : x.unit = r.unit /\ x.mat = r.mat
  <2>1. PICK k \in K : r \in Stored(k)
    OBVIOUS
  <2> QED BY <1>1, <2>1
<1>3. ASSUME NEW u, NEW m, NEW n
      PROVE  Key(u, m, n).unit = u /\ Key(u, m, n).mat = m /\ Key(u, m, n).rule = n
  BY DEF Key
<1>4. ASSUME NEW u, NEW m, Key(u, m, NoRule) \in K, NEW x \in store, x.unit = u, x.mat = m
      PROVE  \E r \in read : r.unit = u /\ r.mat = m
  <2> DEFINE k == Key(u, m, NoRule)
             r == [unit |-> u, mat |-> m, rule |-> NoRule, variant |-> Blank]
  <2>1. r \in Stored(k)
    <3>1. k.unit = u /\ k.mat = m /\ k.rule = NoRule
      BY <1>3
    <3> HIDE DEF k
    <3> QED BY <1>4, <3>1 DEF Stored
  <2>2. r \in read
    <3>1. k \in K
      BY <1>4
    <3> HIDE DEF k, r
    <3> QED BY <2>1, <3>1
  <2> HIDE DEF read
  <2> QED BY <2>2
<1>5. ASSUME NEW u, NEW m, NEW n, n # NoRule, Key(u, m, n) \in K, NEW x \in store,
             x.unit = u, x.mat = m, x.rule = n
      PROVE  x \in read
  <2> DEFINE k == Key(u, m, n)
  <2>1. k.unit = u /\ k.mat = m /\ k.rule = n /\ k \in K
    BY <1>3, <1>5
  <2> HIDE DEF k
  <2>2. x \in Stored(k)
    BY <1>5, <2>1 DEF Stored
  <2> QED BY <2>1, <2>2
<1>6. e2.ctx.records = read
  OBVIOUS
<1> HIDE DEF read
<1>7. Agree(K, e1, e2)
  BY <1>2, <1>4, <1>6 DEF Agree, Included
<1>8. AgreeRules(K, e1, e2)
  <2> SUFFICES ASSUME NEW u, NEW m, NEW n, n # NoRule, Key(u, m, n) \in K
               PROVE  {r \in store : r.unit = u /\ r.mat = m /\ r.rule = n}
                        = {r \in read : r.unit = u /\ r.mat = m /\ r.rule = n}
    BY <1>6 DEF AgreeRules
  <2> QED BY <1>2, <1>5
<1> QED BY <1>7, <1>8

\* The inductive invariant: a suspended resolve is what a discovery leaves,
\* and unless it was disturbed its records are what the store says of the
\* keys read so far.
CarriedInv ==
  /\ AskedInv
  /\ keys \in Keys
  /\ pc = "suspended" =>
       /\ began.conf \in Confs /\ began.store = store
       /\ FirstHalf.pc = "suspended" /\ writes = FirstHalf.writes
       /\ left \subseteq to_read
       /\ ~disturbed => conf = began.conf /\ got = UNION {Stored(k) : k \in to_read \ left}

LEMMA CarriedInit == Init => CarriedInv
BY DEF Init, CarriedInv, AskedInv

\* A step that leaves what was suspended as it is.
LEMMA CarriedStays ==
  ASSUME CarriedInv, AskedInv', keys' = keys,
         pc' = "suspended" =>
           /\ pc = "suspended" /\ began' = began /\ store' = store
           /\ writes' = writes /\ to_read' = to_read /\ left' \subseteq left
           /\ ~disturbed' => /\ ~disturbed /\ conf' = conf
                             /\ got' = UNION {Stored(k) : k \in to_read \ left'}
  PROVE  CarriedInv'
<1>1. keys' \in Keys
  BY DEF CarriedInv
<1>2. ASSUME pc' = "suspended"
      PROVE  /\ began'.conf \in Confs /\ began'.store = store'
             /\ FirstHalf'.pc = "suspended" /\ writes' = FirstHalf'.writes
             /\ left' \subseteq to_read'
             /\ ~disturbed' => conf' = began'.conf /\ got' = UNION {Stored(k)' : k \in to_read' \ left'}
  <2>1. FirstHalf' = FirstHalf
    <3>1. began'.conf = began.conf
      BY <1>2
    <3>2. FirstHalf' = ResolveFlags(began.conf, "discovery", {}, << >>, {})
      BY <3>1, FirstHalfStays
    <3> QED BY <3>2 DEF FirstHalf
  <2>2. \A k : Stored(k)' = Stored(k)
    BY <1>2 DEF Stored
  <2> QED BY <1>2, <2>1, <2>2 DEF CarriedInv
<1> QED BY <1>1, <1>2 DEF CarriedInv

LEMMA CarriedStep == CarriedInv /\ [Next]_vars => CarriedInv'
<1> SUFFICES ASSUME CarriedInv, [Next]_vars PROVE CarriedInv'
  OBVIOUS
<1>1. AskedInv /\ AskedInv'
  BY AskedStep DEF CarriedInv
<1>2. CASE ResolveDeferred
  <2>1. /\ pc' = ResolveFlags(conf, "discovery", {}, << >>, {}).pc
        /\ writes' = ResolveFlags(conf, "discovery", {}, << >>, {}).writes
        /\ to_read' = left' /\ got' = {}
        /\ began'.conf = conf /\ began'.store = store /\ keys' = keys /\ conf' = conf /\ store' = store
    BY <1>2 DEF ResolveDeferred, Begin, Becomes
  <2>2. FirstHalf' = ResolveFlags(conf, "discovery", {}, << >>, {})
    BY <2>1, FirstHalfStays
  <2>3. {} = UNION {Stored(k)' : k \in {}}
    OBVIOUS
  <2>4. to_read' \ left' = {}
    BY <2>1
  <2>5. got' = UNION {Stored(k)' : k \in to_read' \ left'}
    BY <2>1, <2>3, <2>4
  <2> QED BY <1>1, <2>1, <2>2, <2>5 DEF CarriedInv, AskedInv
<1>3. ASSUME NEW mode \in {"complete", "unsupported"}, NEW records, Begin(mode, records)
      PROVE  CarriedInv'
  <2>1. pc' = ResolveFlags(conf, mode, records, << >>, {}).pc /\ conf' = conf /\ keys' = keys
    BY <1>3 DEF Begin, Becomes
  <2>2. GoodConf(conf)
    BY <1>1, ConfsGood DEF AskedInv
  <2>3. ResolvedRight(conf, mode, records, << >>, ResolveFlags(conf, mode, records, << >>, {}))
    BY <2>2, ResolveFlagsRight
  <2>4. pc' # "suspended"
    BY <2>1, <2>3 DEF ResolvedRight
  <2> QED BY <1>1, <2>1, <2>4, CarriedStays
<1>4. CASE Resume
  <2>1. pc' = ResolveFlags(conf, "complete", got, resolved, writes).pc /\ keys' = keys
    BY <1>4 DEF Resume, Becomes
  <2>2. GoodConf(conf)
    BY <1>1, ConfsGood DEF AskedInv
  <2>3. ResolvedRight(conf, "complete", got, resolved, ResolveFlags(conf, "complete", got, resolved, writes))
    BY <2>2, ResolveFlagsRight
  <2>4. pc' # "suspended"
    BY <2>1, <2>3 DEF ResolvedRight
  <2> QED BY <1>1, <2>1, <2>4, CarriedStays
<1>5. ASSUME NEW k \in left, Read(k) PROVE CarriedInv'
  <2>1. /\ keys' = keys /\ pc = "suspended" /\ began' = began /\ store' = store /\ writes' = writes
        /\ to_read' = to_read /\ left' = left \ {k} /\ conf' = conf
    BY <1>5 DEF Read
  <2>2. ASSUME ~disturbed' PROVE ~disturbed /\ got' = UNION {Stored(h) : h \in to_read \ left'}
    <3>1. got' = got \cup Stored(k) /\ ~disturbed
      BY <1>5, <2>2 DEF Read
    <3>2. got = UNION {Stored(h) : h \in to_read \ left} /\ left \subseteq to_read
      BY <2>1, <3>1 DEF CarriedInv
    <3>3. to_read \ left' = (to_read \ left) \cup {k}
      BY <2>1, <3>2
    <3> QED BY <3>1, <3>2, <3>3
  <2> QED BY <1>1, <2>1, <2>2, CarriedStays
<1>6. ASSUME NEW w \in writes, Write(w) PROVE CarriedInv'
  <2>1. pc' # "suspended" /\ keys' = keys
    BY <1>6 DEF Write
  <2> QED BY <1>1, <2>1, CarriedStays
<1>7. CASE Done
  <2>1. pc' # "suspended" /\ keys' = keys
    BY <1>7 DEF Done
  <2> QED BY <1>1, <2>1, CarriedStays
<1>8. ASSUME NEW c \in Confs, SetResolverState(c) PROVE CarriedInv'
  <2>1. /\ keys' = keys /\ pc' = pc /\ began' = began /\ store' = store /\ writes' = writes
        /\ to_read' = to_read /\ left' = left /\ (pc = "suspended" => disturbed')
    BY <1>8 DEF SetResolverState
  <2> QED BY <1>1, <2>1, CarriedStays
<1>9. CASE UNCHANGED vars
  <2>1. /\ keys' = keys /\ pc' = pc /\ began' = began /\ store' = store /\ writes' = writes
        /\ to_read' = to_read /\ left' = left /\ conf' = conf /\ got' = got /\ disturbed' = disturbed
    BY <1>9 DEF vars
  <2>2. pc = "suspended" /\ ~disturbed => got = UNION {Stored(k) : k \in to_read \ left}
    BY DEF CarriedInv
  <2> QED BY <1>1, <2>1, <2>2, CarriedStays
<1>10. CASE ResolveStatic
  BY <1>3, <1>10 DEF ResolveStatic
<1>11. CASE ResolveWithout
  BY <1>3, <1>11 DEF ResolveWithout
<1> QED BY <1>2, <1>4, <1>5, <1>6, <1>7, <1>8, <1>9, <1>10, <1>11 DEF Next

\* No rule that only writes its materialization falls through.
FallsUnwritten ==
  \A c \in Confs : \A f \in DOMAIN c.flags : \A i \in DOMAIN c.flags[f].rules : NoFallWrites(c.flags[f].rules[i])

\* A context with a bad key for one of a flag's rules has no unit for another.
KeysAlike ==
  \A ks \in Keys, c \in Confs : \A f \in DOMAIN c.flags : \A i, j \in DOMAIN c.flags[f].rules :
    ks[c.flags[f].rules[j].selector] = Bad => ks[c.flags[f].rules[i].selector] \in {Bad, NoUnit}

LEMMA ResumeAlike ==
  ASSUME Recognizing, Acyclic, FallsUnwritten, KeysAlike, CarriedInv, Resume, ~disturbed
  PROVE  \E one \in {OneGo} : pc' = one.pc /\ resolved' = one.resolved /\ writes' = one.writes
<1> DEFINE c == began.conf
           base == Base(c, "discovery", {})
           a == Base(c, "complete", store)
           s == Base(c, "complete", got)
<1>1. /\ pc = "suspended" /\ left = {}
      /\ pc' = ResolveFlags(conf, "complete", got, resolved, writes).pc
      /\ resolved' = ResolveFlags(conf, "complete", got, resolved, writes).resolved
      /\ writes' = ResolveFlags(conf, "complete", got, resolved, writes).writes
  BY DEF Resume, Becomes
<1>2. /\ c \in Confs /\ keys \in Keys /\ conf = c /\ began.store = store
      /\ FirstHalf.pc = "suspended" /\ writes = FirstHalf.writes
      /\ resolved = FirstHalf.resolved /\ to_read = FirstHalf.to_read
      /\ got = UNION {Stored(k) : k \in to_read \ left}
  BY <1>1 DEF CarriedInv, AskedInv
<1>3. FirstHalf = ResolveFlags(c, "discovery", {}, << >>, {})
  BY DEF FirstHalf
<1>4. OneGo = ResolveFlags(c, "complete", store, << >>, {})
  BY <1>2 DEF OneGo
<1>5. base.keys = keys
  BY DEF Base
<1>6. a.ctx.records = store /\ s.ctx.records = got /\ got = UNION {Stored(k) : k \in to_read}
  BY <1>1, <1>2 DEF Base
<1> HIDE DEF c
<1>7. GoodConf(c) /\ SelfFree(c.segs)
  BY <1>2, ConfsGood DEF Acyclic
<1> HIDE DEF base, a, s
<1>8. ASSUME NEW f \in DOMAIN c.flags PROVE Orderly(base, c.flags[f])
  <2>1. \A i \in DOMAIN c.flags[f].rules : NoFallWrites(c.flags[f].rules[i])
    BY <1>2 DEF FallsUnwritten
  <2>2. ASSUME NEW i \in DOMAIN c.flags[f].rules, NEW j \in DOMAIN c.flags[f].rules,
               keys[c.flags[f].rules[j].selector] = Bad
        PROVE  keys[c.flags[f].rules[i].selector] \in {Bad, NoUnit}
    BY <1>2, <2>2 DEF KeysAlike
  <2> QED BY <1>5, <2>1, <2>2 DEF Orderly, UnitOf
<1>9. Agree(to_read, a, s) /\ AgreeRules(to_read, a, s)
  BY <1>6, StoredAgree
<1>10. LET first == ResolveFlags(c, "discovery", {}, << >>, {})
       IN  Alike(ResolveFlags(c, "complete", got, first.resolved, first.writes),
                 ResolveFlags(c, "complete", store, << >>, {}))
  BY <1>2, <1>3, <1>7, <1>8, <1>9, HalvesAlike DEF base, a, s
<1>11. Alike(ResolveFlags(c, "complete", got, resolved, writes), OneGo)
  BY <1>2, <1>3, <1>4, <1>10
<1> QED BY <1>1, <1>2, <1>11 DEF Alike

(* Suspending and resuming changes nothing: unless the state was replaced  *)
(* or a read failed, a resumed resolve (resolve_flags) ends, answers and   *)
(* writes as one resolve with the whole store would have.  Two hypotheses  *)
(* are those of ResumeComplete, two say where the code does differ.  A     *)
(* write-only rule that falls through before the resolve suspends is       *)
(* written again by the resumed half, which add_to_write refuses           *)
(* (ResumeFailsOnlyLikeOneGo).  A rule whose key is bad ends the flag with *)
(* a key error in the first half, though an earlier rule, for another      *)
(* unit, may yet answer it once its materialization is read.               *)
THEOREM ResumeMatches ==
  Recognizing /\ Acyclic /\ FallsUnwritten /\ KeysAlike => (Spec => ResumeMatchesOneGo)
<1> SUFFICES ASSUME Recognizing, Acyclic, FallsUnwritten, KeysAlike PROVE Spec => ResumeMatchesOneGo
  OBVIOUS
<1> DEFINE Step == Resume /\ ~disturbed =>
                     \E one \in {OneGo} : pc' = one.pc /\ resolved' = one.resolved /\ writes' = one.writes
<1>1. CarriedInv /\ [Next]_vars => [Step]_vars
  BY ResumeAlike
<1>2. Spec => [][Step]_vars
  BY <1>1, CarriedInit, CarriedStep, PTL DEF Spec
<1> QED BY <1>2 DEF ResumeMatchesOneGo

(* And so a resumed resolve fails only if it would have failed in one go   *)
(* (add_to_write), where the four hypotheses hold: the run that violates   *)
(* this has a rule that is written and falls through.                      *)
THEOREM ResumeFailsLikeOneGo ==
  Recognizing /\ Acyclic /\ FallsUnwritten /\ KeysAlike => (Spec => ResumeFailsOnlyLikeOneGo)
<1> SUFFICES ASSUME Recognizing, Acyclic, FallsUnwritten, KeysAlike PROVE Spec => ResumeFailsOnlyLikeOneGo
  OBVIOUS
<1> DEFINE Step == Resume /\ ~disturbed /\ pc' = "failed" => OneGo.pc = "failed"
<1>1. CarriedInv /\ [Next]_vars => [Step]_vars
  BY ResumeAlike
<1>2. Spec => [][Step]_vars
  BY <1>1, CarriedInit, CarriedStep, PTL DEF Spec
<1> QED BY <1>2 DEF ResumeFailsOnlyLikeOneGo

=============================================================================
