----------------------------- MODULE FoldProofs -----------------------------
(***************************************************************************)
(* What the folds of the community modules compute, for every sequence and *)
(* for every finite set.                                                   *)
(*                                                                         *)
(* An induction is written as a minimal counterexample: a nonempty set of  *)
(* natural numbers has a least element (LeastNumber).  A fold is defined   *)
(* by a recursive function on the subsets of the sequence's domain; that   *)
(* the function exists is FoldExists, and what it computes along the       *)
(* prefixes of the sequence is the trace of the fold.                      *)
(***************************************************************************)
EXTENDS Integers, Sequences, FiniteSets, SequencesExt, FiniteSetsExt,
        FiniteSetTheorems, SequenceTheorems, WellFoundedInduction, TLAPS

(* A nonempty set of natural numbers has a least element.                  *)
LEMMA LeastNumber ==
  ASSUME NEW T \in SUBSET Nat, T # {}
  PROVE  \E n \in T : \A m \in T : n <= m
<1>1. PICK t \in T : \A u \in T : ~(<<u, t>> \in OpToRel(<, Nat))
  BY NatLessThanWellFounded, WFMin
<1>2. ASSUME NEW m \in T PROVE t <= m
  <2>1. ~(m < t)
    BY <1>1 DEF OpToRel
  <2>2. QED
    BY <2>1
<1>3. QED
  BY <1>2

(* A set of natural numbers with 0 and the successors of its members.      *)
LEMMA NatInduct ==
  ASSUME NEW T \in SUBSET Nat, 0 \in T, \A n \in T : n + 1 \in T
  PROVE  T = Nat
<1> SUFFICES ASSUME Nat \ T # {} PROVE FALSE
  OBVIOUS
<1>1. PICK n \in Nat \ T : \A m \in Nat \ T : n <= m
  BY LeastNumber
<1>2. n # 0 /\ n - 1 \in Nat
  OBVIOUS
<1>3. n - 1 \in T
  BY <1>1, <1>2
<1>4. n - 1 + 1 \in T
  BY <1>3
<1> QED BY <1>1, <1>4

LEMMA RangeInduct ==
  ASSUME NEW N \in Nat, NEW T, 0 \in T, \A n \in 0 .. N - 1 : n \in T => n + 1 \in T
  PROVE  0 .. N \subseteq T
<1> SUFFICES ASSUME (0 .. N) \ T # {} PROVE FALSE
  OBVIOUS
<1>1. PICK n \in (0 .. N) \ T : \A m \in (0 .. N) \ T : n <= m
  <2>1. (0 .. N) \ T \in SUBSET Nat
    OBVIOUS
  <2> QED BY <2>1, LeastNumber
<1>2. n - 1 \in 0 .. N - 1
  OBVIOUS
<1>3. n - 1 \in T
  BY <1>1, <1>2
<1>4. n - 1 + 1 \in T
  BY <1>2, <1>3
<1> QED BY <1>1, <1>4

LEMMA StrongInduct ==
  ASSUME NEW T, \A n \in Nat : (\A m \in Nat : m < n => m \in T) => n \in T
  PROVE  Nat \subseteq T
<1> SUFFICES ASSUME Nat \ T # {} PROVE FALSE
  OBVIOUS
<1>1. PICK n \in Nat \ T : \A m \in Nat \ T : n <= m
  BY LeastNumber
<1>2. ASSUME NEW m \in Nat, m < n PROVE m \in T
  BY <1>1, <1>2
<1> QED BY <1>1, <1>2

(* g solves the recursion step for all arguments smaller than n.           *)
Solves(g, D, V, size, step, n) ==
  /\ g \in [D -> V]
  /\ \A x \in D : size[x] < n => g[x] = step[<<g, x>>]

(* The value of step depends on the function at smaller arguments only.    *)
Recursion(D, V, size, step) ==
  /\ V # {} /\ size \in [D -> Nat] /\ step \in [[D -> V] \X D -> V]
  /\ \A g, h \in [D -> V], x \in D :
       (\A y \in D : size[y] < size[x] => g[y] = h[y]) => step[<<g, x>>] = step[<<h, x>>]

LEMMA SolvesExists ==
  ASSUME NEW D, NEW V, NEW size, NEW step, Recursion(D, V, size, step), NEW n \in Nat
  PROVE  \E g : Solves(g, D, V, size, step, n)
<1> USE DEF Recursion
<1> DEFINE T == {m \in Nat : \E g : Solves(g, D, V, size, step, m)}
<1>1. 0 \in T
  <2>1. PICK v \in V : TRUE
    OBVIOUS
  <2>2. Solves([x \in D |-> v], D, V, size, step, 0)
    BY DEF Solves
  <2> QED BY <2>2
<1>2. ASSUME NEW m \in T PROVE m + 1 \in T
  <2>1. PICK g : Solves(g, D, V, size, step, m)
    OBVIOUS
  <2> DEFINE h == [x \in D |-> step[<<g, x>>]]
  <2>2. g \in [D -> V] /\ h \in [D -> V]
    BY <2>1 DEF Solves
  <2>3. ASSUME NEW x \in D, size[x] < m + 1 PROVE h[x] = step[<<h, x>>]
    <3>1. ASSUME NEW y \in D, size[y] < size[x] PROVE g[y] = h[y]
      <4>1. size[y] < m
        BY <2>3, <3>1
      <4> QED BY <4>1, <2>1 DEF Solves
    <3>2. step[<<g, x>>] = step[<<h, x>>]
      <4> HIDE DEF h
      <4> QED BY <3>1, <2>2 DEF Recursion
    <3> QED BY <3>2
  <2>4. Solves(h, D, V, size, step, m + 1)
    <3> HIDE DEF h
    <3> QED BY <2>2, <2>3 DEF Solves
  <2> QED BY <2>4
<1>3. T = Nat
  <2> HIDE DEF T
  <2>1. T \in SUBSET Nat
    BY DEF T
  <2> QED BY <1>1, <1>2, <2>1, NatInduct
<1> QED BY <1>3

LEMMA SolvesUnique ==
  ASSUME NEW D, NEW V, NEW size, NEW step, Recursion(D, V, size, step),
         NEW m \in Nat, NEW n \in Nat, NEW g, NEW h,
         Solves(g, D, V, size, step, m), Solves(h, D, V, size, step, n),
         NEW x \in D, size[x] < m, size[x] < n
  PROVE  g[x] = h[x]
<1> USE DEF Recursion
<1> DEFINE Bad == {size[y] : y \in {z \in D : size[z] < m /\ size[z] < n /\ g[z] # h[z]}}
<1> SUFFICES ASSUME Bad # {} PROVE FALSE
  BY ZenonT(30)
<1>1. Bad \in SUBSET Nat
  OBVIOUS
<1>2. PICK s \in Bad : \A u \in Bad : s <= u
  <2> HIDE DEF Bad
  <2> QED BY <1>1, LeastNumber
<1>3. PICK y \in D : s = size[y] /\ size[y] < m /\ size[y] < n /\ g[y] # h[y]
  OBVIOUS
<1>4. ASSUME NEW z \in D, size[z] < size[y] PROVE g[z] = h[z]
  <2>1. size[z] < m /\ size[z] < n
    BY <1>3, <1>4
  <2>2. size[z] \notin Bad
    <3> HIDE DEF Bad
    <3> QED BY <1>2, <1>3, <1>4
  <2> QED BY <2>1, <2>2
<1>5. step[<<g, y>>] = step[<<h, y>>]
  BY <1>4 DEF Recursion, Solves
<1> QED BY <1>3, <1>5 DEF Solves

(* A recursion that descends has a solution.                               *)
LEMMA RecursionExists ==
  ASSUME NEW D, NEW V, NEW size, NEW step, Recursion(D, V, size, step)
  PROVE  \E f \in [D -> V] : \A x \in D : f[x] = step[<<f, x>>]
<1> DEFINE choice == [n \in Nat |-> CHOOSE g : Solves(g, D, V, size, step, n)]
<1>1. PICK sol : \A n \in Nat : Solves(sol[n], D, V, size, step, n)
  <2>1. ASSUME NEW n \in Nat PROVE Solves(choice[n], D, V, size, step, n)
    <3>1. \E g : Solves(g, D, V, size, step, n)
      BY SolvesExists
    <3>2. choice[n] = CHOOSE g : Solves(g, D, V, size, step, n)
      OBVIOUS
    <3> HIDE DEF choice
    <3> QED BY <3>1, <3>2
  <2> HIDE DEF choice
  <2> QED BY <2>1
<1> DEFINE f == [x \in D |-> sol[size[x] + 1][x]]
<1>2. ASSUME NEW x \in D
      PROVE  /\ sol[size[x] + 1] \in [D -> V]
             /\ sol[size[x] + 1][x] = step[<<sol[size[x] + 1], x>>]
  <2>1. size[x] + 1 \in Nat /\ size[x] < size[x] + 1
    BY DEF Recursion
  <2> QED BY <1>1, <2>1 DEF Solves
<1>3. f \in [D -> V]
  <2>1. \A x \in D : sol[size[x] + 1][x] \in V
    BY <1>2
  <2> QED BY <2>1
<1>4. ASSUME NEW x \in D PROVE f[x] = step[<<f, x>>]
  <2> DEFINE g == sol[size[x] + 1]
  <2>1. ASSUME NEW y \in D, size[y] < size[x] PROVE f[y] = g[y]
    <3>1. size[y] + 1 \in Nat /\ size[x] + 1 \in Nat /\ size[y] < size[y] + 1 /\ size[y] < size[x] + 1
      BY <2>1 DEF Recursion
    <3>2. Solves(sol[size[y] + 1], D, V, size, step, size[y] + 1) /\ Solves(g, D, V, size, step, size[x] + 1)
      BY <1>1, <3>1
    <3>3. sol[size[y] + 1][y] = g[y]
      <4> HIDE DEF g
      <4> QED BY <3>1, <3>2, SolvesUnique
    <3> QED BY <3>3
  <2>2. step[<<f, x>>] = step[<<g, x>>]
    <3>1. g \in [D -> V]
      BY <1>2
    <3> HIDE DEF f, g
    <3> QED BY <2>1, <1>3, <3>1 DEF Recursion
  <2> QED BY <2>2, <1>2
<1> QED
  <2> HIDE DEF f
  <2> QED BY <1>3, <1>4

(* A recursion along 0 .. N has a solution.                                *)
Iteration(V, N, base, step) == N \in Nat /\ base \in V /\ step \in [(1 .. N) \X V -> V]

Iterates(h, V, N, base, step) ==
  h \in [0 .. N -> V] /\ \A i \in 0 .. N : h[i] = IF i = 0 THEN base ELSE step[<<i, h[i - 1]>>]

LEMMA IterationExists ==
  ASSUME NEW V, NEW N, NEW base, NEW step, Iteration(V, N, base, step)
  PROVE  \E h : Iterates(h, V, N, base, step)
<1> USE DEF Iteration
<1> DEFINE D == 0 .. N
           size == [i \in D |-> i]
           next == [p \in [D -> V] \X D |-> IF p[2] = 0 THEN base ELSE step[<<p[2], p[1][p[2] - 1]>>]]
<1>1. size \in [D -> Nat]
  OBVIOUS
<1>2. ASSUME NEW g \in [D -> V], NEW i \in D
      PROVE  next[<<g, i>>] = IF i = 0 THEN base ELSE step[<<i, g[i - 1]>>]
  OBVIOUS
<1>3. ASSUME NEW g \in [D -> V], NEW i \in D PROVE next[<<g, i>>] \in V
  <2>1. CASE i = 0
    BY <1>2, <2>1
  <2>2. CASE i # 0
    <3>1. i \in 1 .. N /\ i - 1 \in D
      BY <2>2
    <3>2. g[i - 1] \in V
      BY <3>1
    <3> QED BY <1>2, <2>2, <3>1, <3>2
  <2> QED BY <2>1, <2>2
<1>4. next \in [[D -> V] \X D -> V]
  <2>1. \A p \in [D -> V] \X D : next[p] \in V
    BY <1>3
  <2> QED BY <2>1
<1>5. ASSUME NEW g \in [D -> V], NEW h \in [D -> V], NEW i \in D,
             \A j \in D : size[j] < size[i] => g[j] = h[j]
      PROVE  next[<<g, i>>] = next[<<h, i>>]
  <2>1. i # 0 => i - 1 \in D /\ g[i - 1] = h[i - 1]
    BY <1>5
  <2> QED BY <2>1, <1>2
<1>6. Recursion(D, V, size, next)
  <2>1. V # {}
    OBVIOUS
  <2> HIDE DEF D, size, next
  <2> QED BY <2>1, <1>1, <1>4, <1>5 DEF Recursion
<1>7. PICK f \in [D -> V] : \A i \in D : f[i] = next[<<f, i>>]
  <2> HIDE DEF D, size, next
  <2> QED BY <1>6, RecursionExists
<1> QED BY <1>7, <1>2 DEF Iterates

(* A nonempty set of numbers bounded by N has a maximum.                   *)
LEMMA BoundedMax ==
  ASSUME NEW N \in Nat, NEW S \in SUBSET (0 .. N), S # {}
  PROVE  Max(S) \in S /\ \A y \in S : Max(S) >= y
<1> DEFINE T == {N - x : x \in S}
<1>1. T \in SUBSET Nat /\ T # {}
  <2>1. \A x \in S : N - x \in Nat
    OBVIOUS
  <2>2. PICK x \in S : TRUE
    OBVIOUS
  <2>3. N - x \in T
    OBVIOUS
  <2> QED BY <2>1, <2>3
<1>2. PICK t \in T : \A u \in T : t <= u
  <2> HIDE DEF T
  <2> QED BY <1>1, LeastNumber
<1>3. PICK x \in S : t = N - x
  OBVIOUS
<1>4. ASSUME NEW y \in S PROVE x >= y
  <2>1. N - y \in T
    OBVIOUS
  <2>2. N - x <= N - y
    BY <2>1, <1>2, <1>3
  <2>3. QED
    BY <2>2
<1>5. QED
  BY <1>3, <1>4 DEF Max

LEMMA MaxUpTo ==
  ASSUME NEW m \in Nat, NEW S \in SUBSET (1 .. m), S # {}
  PROVE  /\ Max(S) \in S
         /\ m \in S => Max(S) = m
<1>1. S \in SUBSET (0 .. m)
  OBVIOUS
<1>2. Max(S) \in S /\ \A y \in S : Max(S) >= y
  BY <1>1, BoundedMax
<1>3. m \in S => Max(S) >= m /\ Max(S) \in 1 .. m
  BY <1>2
<1>4. QED
  BY <1>2, <1>3

(* h computes, for every subset of 1..m, the fold of the elements of seq   *)
(* at those indices, in order.                                             *)
FoldFcn(h, A, f, base, seq, m) ==
  /\ h \in [SUBSET (1 .. m) -> A]
  /\ h[{}] = base
  /\ \A S \in SUBSET (1 .. m) :
       S # {} => h[S] = f[<<h[S \ {Max(S)}], seq[Max(S)]>>]

LEMMA FoldExists ==
  ASSUME NEW A, NEW E, NEW base \in A, NEW f \in [A \X E -> A],
         NEW seq \in Seq(E), NEW N \in 0 .. Len(seq)
  PROVE  \E h : FoldFcn(h, A, f, base, seq, N)
<1> DEFINE Bad == {m \in 0 .. Len(seq) : ~ \E h : FoldFcn(h, A, f, base, seq, m)}
<1> SUFFICES ASSUME Bad # {} PROVE FALSE
  OBVIOUS
<1>1. PICK t \in Bad : \A m \in Bad : t <= m
  <2>1. Bad \in SUBSET Nat
    OBVIOUS
  <2> HIDE DEF Bad
  <2> QED BY <2>1, LeastNumber
<1>2. t # 0
  <2> SUFFICES ASSUME t = 0 PROVE FALSE
    OBVIOUS
  <2> DEFINE h == [S \in SUBSET (1 .. 0) |-> base]
  <2>1. 1 .. 0 = {}
    OBVIOUS
  <2>2. FoldFcn(h, A, f, base, seq, 0)
    BY <2>1 DEF FoldFcn
  <2> QED BY <2>2
<1>3. t - 1 \in 0 .. Len(seq) /\ t \in 1 .. Len(seq) /\ t \in Nat
  BY <1>2
<1>4. PICK h : FoldFcn(h, A, f, base, seq, t - 1)
  <2>1. t - 1 \notin Bad
    <3> HIDE DEF Bad
    <3>1. t - 1 \in Bad => t <= t - 1
      BY <1>1
    <3> QED BY <3>1, <1>3
  <2> QED BY <2>1, <1>3
<1>5. seq[t] \in E
  BY <1>3
<1> DEFINE g == [S \in SUBSET (1 .. t) |->
                   IF t \in S THEN f[<<h[S \ {t}], seq[t]>>] ELSE h[S]]
<1>6. \A S \in SUBSET (1 .. t) : S \ {t} \in SUBSET (1 .. t - 1)
  BY <1>3
<1>7. \A S \in SUBSET (1 .. t - 1) : h[S] \in A
  BY <1>4 DEF FoldFcn
<1>8. \A S \in SUBSET (1 .. t) : t \in S => f[<<h[S \ {t}], seq[t]>>] \in A
  BY <1>5, <1>6, <1>7
<1>9. \A S \in SUBSET (1 .. t) : t \notin S => S \in SUBSET (1 .. t - 1)
  BY <1>6
<1>10. g \in [SUBSET (1 .. t) -> A]
  BY <1>7, <1>8, <1>9
<1>11. g[{}] = base
  BY <1>4 DEF FoldFcn
<1>12. ASSUME NEW S \in SUBSET (1 .. t), S # {}
       PROVE  g[S] = f[<<g[S \ {Max(S)}], seq[Max(S)]>>]
  <2>1. Max(S) \in S /\ (t \in S => Max(S) = t)
    BY <1>12, <1>3, MaxUpTo
  <2>2. CASE t \in S
    <3>1. Max(S) = t /\ t \notin S \ {t}
      BY <2>1, <2>2
    <3>2. S \ {t} \in SUBSET (1 .. t)
      OBVIOUS
    <3>3. g[S \ {t}] = h[S \ {t}]
      BY <3>1, <3>2
    <3>4. g[S] = f[<<h[S \ {t}], seq[t]>>]
      BY <2>2
    <3> QED BY <3>1, <3>3, <3>4
  <2>3. CASE t \notin S
    <3>1. S \in SUBSET (1 .. t - 1) /\ S \ {Max(S)} \in SUBSET (1 .. t)
          /\ t \notin S \ {Max(S)}
      BY <2>3, <1>9
    <3>2. g[S] = h[S] /\ g[S \ {Max(S)}] = h[S \ {Max(S)}]
      BY <2>3, <3>1
    <3>3. h[S] = f[<<h[S \ {Max(S)}], seq[Max(S)]>>]
      BY <1>4, <1>12, <3>1 DEF FoldFcn
    <3> QED BY <3>2, <3>3
  <2> QED BY <2>2, <2>3
<1>13. FoldFcn(g, A, f, base, seq, t)
  <2> HIDE DEF g
  <2> QED BY <1>10, <1>11, <1>12 DEF FoldFcn
<1> QED BY <1>13

(* g is the trace of a fold along seq, and the fold's value is X's at the  *)
(* whole domain for every X that follows the same steps.                   *)
Traces(g, A, f, base, seq) ==
  /\ g \in [0 .. Len(seq) -> A]
  /\ g[0] = base
  /\ \A k \in 1 .. Len(seq) : g[k] = f[<<g[k - 1], seq[k]>>]

Traced(h, g, A, f, base, seq) ==
  /\ FoldFcn(h, A, f, base, seq, Len(seq))
  /\ Traces(g, A, f, base, seq) /\ g[Len(seq)] = h[1 .. Len(seq)]

LEMMA TraceExists ==
  ASSUME NEW A, NEW E, NEW base \in A, NEW f \in [A \X E -> A], NEW seq \in Seq(E)
  PROVE  \E h, g : Traced(h, g, A, f, base, seq)
<1>1. Len(seq) \in Nat /\ Len(seq) \in 0 .. Len(seq)
  OBVIOUS
<1>2. PICK h : FoldFcn(h, A, f, base, seq, Len(seq))
  BY <1>1, FoldExists
<1> DEFINE g == [k \in 0 .. Len(seq) |-> h[1 .. k]]
<1>3. ASSUME NEW k \in 1 .. Len(seq)
      PROVE  1 .. k \in SUBSET (1 .. Len(seq)) /\ Max(1 .. k) = k /\ (1 .. k) \ {k} = 1 .. k - 1 /\ 1 .. k # {}
  <2>1. 1 .. k \in SUBSET (1 .. k) /\ k \in 1 .. k /\ k \in Nat
    BY <1>1
  <2>2. Max(1 .. k) = k
    BY <2>1, MaxUpTo
  <2>3. (1 .. k) \ {k} = 1 .. k - 1
    BY <2>1
  <2>4. 1 .. k \in SUBSET (1 .. Len(seq))
    BY <1>1
  <2> QED BY <2>1, <2>2, <2>3, <2>4
<1>4. \A k \in 1 .. Len(seq) : g[k] = f[<<g[k - 1], seq[k]>>]
  <2> TAKE k \in 1 .. Len(seq)
  <2>1. h[1 .. k] = f[<<h[1 .. k - 1], seq[k]>>]
    BY <1>2, <1>3 DEF FoldFcn
  <2>2. g[k] = h[1 .. k] /\ g[k - 1] = h[1 .. k - 1]
    BY <1>1
  <2> QED BY <2>1, <2>2
<1>5. g[0] = base
  <2>1. 1 .. 0 = {} /\ g[0] = h[1 .. 0]
    BY <1>1
  <2> QED BY <2>1, <1>2 DEF FoldFcn
<1>6. g \in [0 .. Len(seq) -> A]
  <2>1. \A k \in 0 .. Len(seq) : 1 .. k \in SUBSET (1 .. Len(seq))
    BY <1>1
  <2> QED BY <2>1, <1>2 DEF FoldFcn
<1>7. g[Len(seq)] = h[1 .. Len(seq)]
  BY <1>1
<1> HIDE DEF g
<1> QED BY <1>2, <1>4, <1>5, <1>6, <1>7 DEF Traces, Traced

LEMMA FoldsAlike ==
  ASSUME NEW n \in Nat, NEW h, NEW X, X[{}] = h[{}],
         \A S \in SUBSET (1 .. n) : S # {} /\ X[S \ {Max(S)}] = h[S \ {Max(S)}] => X[S] = h[S]
  PROVE  X[1 .. n] = h[1 .. n]
<1> DEFINE T == {k \in 0 .. n : X[1 .. k] = h[1 .. k]}
<1>1. 0 \in T
  <2>1. 1 .. 0 = {}
    OBVIOUS
  <2> QED BY <2>1
<1>2. ASSUME NEW k \in 0 .. n - 1, k \in T PROVE k + 1 \in T
  <2>1. 1 .. k + 1 \in SUBSET (1 .. k + 1) /\ k + 1 \in 1 .. k + 1 /\ k + 1 \in Nat /\ 1 .. k + 1 # {}
    OBVIOUS
  <2>2. Max(1 .. k + 1) = k + 1
    BY <2>1, MaxUpTo
  <2>3. (1 .. k + 1) \ {k + 1} = 1 .. k /\ 1 .. k + 1 \in SUBSET (1 .. n)
    OBVIOUS
  <2>4. X[1 .. k] = h[1 .. k]
    BY <1>2
  <2>5. X[1 .. k + 1] = h[1 .. k + 1]
    BY <2>1, <2>2, <2>3, <2>4
  <2> QED BY <2>5
<1>3. 0 .. n \subseteq T
  <2> HIDE DEF T
  <2> QED BY <1>1, <1>2, RangeInduct
<1> QED BY <1>3
-----------------------------------------------------------------------------
(* Sums of lengths: the byte counts of the flag-log buffer and of the      *)
(* event logger's batches.                                                 *)

LenSum(es) == FoldLeft(LAMBDA acc, e : acc + e.len, 0, es)

(* g holds the partial sums of es.                                         *)
PartialSums(g, es) ==
  /\ g \in [0 .. Len(es) -> Nat]
  /\ g[0] = 0
  /\ \A k \in 1 .. Len(es) : g[k] = g[k - 1] + es[k].len

HasLengths(R) == \A r \in R : r.len \in Nat

LEMMA LenSumTrace ==
  ASSUME NEW R, HasLengths(R), NEW es \in Seq(R)
  PROVE  \E g : PartialSums(g, es) /\ g[Len(es)] = LenSum(es)
<1> DEFINE D == DOMAIN es
           f == [p \in Nat \X R |-> p[1] + p[2].len]
           X == CHOOSE it : it = [S \in SUBSET D |->
                  IF S = {} THEN 0 ELSE it[S \ {Max(S)}] + es[Max(S)].len]
<1>1. D = 1 .. Len(es) /\ Len(es) \in Nat /\ \A k \in D : es[k] \in R
  OBVIOUS
<1>2. f \in [Nat \X R -> Nat]
  BY DEF HasLengths
<1>3. PICK h : FoldFcn(h, Nat, f, 0, es, Len(es))
  <2>1. 0 \in Nat /\ Len(es) \in 0 .. Len(es)
    BY <1>1
  <2> HIDE DEF f, D, X
  <2> QED BY <1>2, <2>1, FoldExists
<1>4. h = [S \in SUBSET D |->
             IF S = {} THEN 0 ELSE h[S \ {Max(S)}] + es[Max(S)].len]
  <2>1. ASSUME NEW S \in SUBSET D, S # {}
        PROVE  h[S] = h[S \ {Max(S)}] + es[Max(S)].len
    <3>1. Max(S) \in D
      BY <1>1, <2>1, MaxUpTo
    <3>2. h[S \ {Max(S)}] \in Nat /\ es[Max(S)] \in R
      BY <1>1, <1>3, <3>1 DEF FoldFcn
    <3>3. h[S] = f[<<h[S \ {Max(S)}], es[Max(S)]>>]
      BY <1>1, <1>3, <2>1 DEF FoldFcn
    <3> QED BY <3>2, <3>3
  <2>2. h \in [SUBSET D -> Nat] /\ h[{}] = 0
    BY <1>1, <1>3 DEF FoldFcn
  <2> HIDE DEF f, D
  <2> QED BY <2>1, <2>2
<1>5. X = [S \in SUBSET D |->
             IF S = {} THEN 0 ELSE X[S \ {Max(S)}] + es[Max(S)].len]
  <2> HIDE DEF f, D
  <2> QED BY <1>4
<1>6. LenSum(es) = X[D]
  BY DEF LenSum, FoldLeft, MapThenFoldSet
<1> HIDE DEF X, f
<1> DEFINE g == [k \in 0 .. Len(es) |-> X[1 .. k]]
<1>7. \A k \in 1 .. Len(es) : g[k] = g[k - 1] + es[k].len
  <2> TAKE k \in 1 .. Len(es)
  <2>1. 1 .. k \in SUBSET D /\ 1 .. k # {} /\ k \in 1 .. k
    BY <1>1
  <2>2. Max(1 .. k) = k
    BY <2>1, MaxUpTo
  <2>3. (1 .. k) \ {k} = 1 .. k - 1
    OBVIOUS
  <2>4. X[1 .. k] = X[1 .. k - 1] + es[k].len
    <3> HIDE DEF D
    <3> QED BY <1>5, <2>1, <2>2, <2>3
  <2> QED BY <2>4
<1>8. g[0] = 0
  <2>1. 1 .. 0 = {}
    OBVIOUS
  <2> QED BY <1>5, <2>1
<1>9. g[Len(es)] = LenSum(es)
  BY <1>1, <1>6
<1>10. \A k \in 0 .. Len(es) : g[k] \in Nat
  <2> DEFINE Bad == {k \in 0 .. Len(es) : g[k] \notin Nat}
  <2> SUFFICES ASSUME Bad # {} PROVE FALSE
    OBVIOUS
  <2>1. Bad \in SUBSET Nat
    OBVIOUS
  <2>2. PICK t \in Bad : \A m \in Bad : t <= m
    <3> HIDE DEF Bad
    <3> QED BY <2>1, LeastNumber
  <2>3. t # 0 /\ t \in 1 .. Len(es) /\ t - 1 \in 0 .. Len(es)
    BY <1>8
  <2>4. t - 1 \notin Bad
    <3> HIDE DEF Bad
    <3>1. t - 1 \in Bad => t <= t - 1
      BY <2>2
    <3> QED BY <3>1, <2>3
  <2>5. g[t - 1] \in Nat /\ es[t].len \in Nat
    <3> HIDE DEF g
    <3> QED BY <2>3, <2>4, <1>1 DEF HasLengths
  <2>6. g[t] = g[t - 1] + es[t].len
    BY <1>7, <2>3
  <2> HIDE DEF g
  <2> QED BY <2>5, <2>6
<1>11. PartialSums(g, es)
  <2>1. g \in [0 .. Len(es) -> Nat]
    BY <1>10
  <2> HIDE DEF g
  <2> QED BY <2>1, <1>7, <1>8 DEF PartialSums
<1> QED BY <1>9, <1>11

(* part is what es holds from index m + 1 on, as far as lengths go.        *)
SameLengths(part, es, m) ==
  /\ m + Len(part) <= Len(es)
  /\ \A k \in 1 .. Len(part) : part[k].len = es[m + k].len

SumsFrom(g, m, h, n) == \A k \in 0 .. n : g[m + k] = g[m] + h[k]

(* Partial sums of a sequence and of a part of it that starts after m.     *)
LEMMA SumsShift ==
  ASSUME NEW R, HasLengths(R), NEW es \in Seq(R), NEW part \in Seq(R),
         NEW m \in Nat, SameLengths(part, es, m),
         NEW g, PartialSums(g, es), NEW h, PartialSums(h, part)
  PROVE  SumsFrom(g, m, h, Len(part))
<1> USE DEF SameLengths, SumsFrom
<1> DEFINE Bad == {k \in 0 .. Len(part) : g[m + k] # g[m] + h[k]}
<1> SUFFICES ASSUME Bad # {} PROVE FALSE
  OBVIOUS
<1>1. Bad \in SUBSET Nat
  OBVIOUS
<1>2. PICK t \in Bad : \A k \in Bad : t <= k
  <2> HIDE DEF Bad
  <2> QED BY <1>1, LeastNumber
<1>3. t # 0
  <2>1. m \in 0 .. Len(es)
    OBVIOUS
  <2>2. g[m] \in Nat /\ h[0] = 0
    BY <2>1 DEF PartialSums
  <2>3. g[m + 0] = g[m] + h[0]
    BY <2>2
  <2> QED BY <2>3
<1>4. t \in 1 .. Len(part) /\ t - 1 \in 0 .. Len(part) /\ m + t \in 1 .. Len(es)
      /\ (m + t) - 1 = m + (t - 1) /\ m \in 0 .. Len(es)
      /\ m + (t - 1) \in 0 .. Len(es)
  BY <1>3
<1>5. t - 1 \notin Bad
  <2> HIDE DEF Bad
  <2>1. t - 1 \in Bad => t <= t - 1
    BY <1>2
  <2> QED BY <2>1, <1>4
<1>6. g[m + (t - 1)] = g[m] + h[t - 1]
  BY <1>4, <1>5
<1>7. g[m + t] = g[m + (t - 1)] + es[m + t].len
      /\ h[t] = h[t - 1] + part[t].len
  BY <1>4 DEF PartialSums
<1>8. part[t].len = es[m + t].len /\ part[t].len \in Nat
  <2>1. part[t] \in R
    BY <1>4
  <2> HIDE DEF Bad
  <2> QED BY <1>4, <2>1 DEF HasLengths
<1>9. g[m] \in Nat /\ h[t - 1] \in Nat /\ h[t] \in Nat
  BY <1>4 DEF PartialSums
<1>10. g[m + t] = g[m] + h[t]
  <2> HIDE DEF Bad
  <2>1. g[m + t] = g[m] + h[t - 1] + part[t].len
    BY <1>6, <1>7, <1>8, <1>9
  <2> QED BY <1>7, <1>8, <1>9, <2>1
<1> QED BY <1>10

LEMMA SumsAgree ==
  ASSUME NEW R, HasLengths(R), NEW es \in Seq(R), NEW part \in Seq(R),
         Len(part) <= Len(es), \A k \in 1 .. Len(part) : part[k].len = es[k].len,
         NEW g, PartialSums(g, es), NEW h, PartialSums(h, part)
  PROVE  \A k \in 0 .. Len(part) : g[k] = h[k]
<1>1. SameLengths(part, es, 0) /\ 0 \in Nat
  BY DEF SameLengths
<1>2. SumsFrom(g, 0, h, Len(part))
  BY <1>1, SumsShift
<1>3. g[0] = 0 /\ \A k \in 0 .. Len(part) : h[k] \in Nat
  BY DEF PartialSums
<1> QED BY <1>2, <1>3 DEF SumsFrom

LEMMA LenSumType ==
  ASSUME NEW R, HasLengths(R), NEW es \in Seq(R)
  PROVE  LenSum(es) \in Nat
<1>1. PICK g : PartialSums(g, es) /\ g[Len(es)] = LenSum(es)
  BY LenSumTrace
<1> QED BY <1>1 DEF PartialSums

LEMMA LenSumEmpty ==
  LenSum(<<>>) = 0
<1> DEFINE R == {}
<1>1. HasLengths(R) /\ <<>> \in Seq(R) /\ Len(<<>>) = 0
  BY DEF HasLengths
<1>2. PICK g : PartialSums(g, <<>>) /\ g[Len(<<>>)] = LenSum(<<>>)
  <2> HIDE DEF R
  <2> QED BY <1>1, LenSumTrace
<1> QED BY <1>1, <1>2 DEF PartialSums

(* The sum depends on the lengths only.                                    *)
LEMMA LenSumSame ==
  ASSUME NEW R, HasLengths(R), NEW es \in Seq(R), NEW fs \in Seq(R),
         Len(fs) = Len(es), \A k \in 1 .. Len(es) : fs[k].len = es[k].len
  PROVE  LenSum(fs) = LenSum(es)
<1>1. PICK g : PartialSums(g, es) /\ g[Len(es)] = LenSum(es)
  BY LenSumTrace
<1>2. PICK h : PartialSums(h, fs) /\ h[Len(fs)] = LenSum(fs)
  BY LenSumTrace
<1>3. \A k \in 0 .. Len(fs) : g[k] = h[k]
  BY <1>1, <1>2, SumsAgree
<1>4. Len(fs) \in 0 .. Len(fs)
  OBVIOUS
<1> QED BY <1>1, <1>2, <1>3, <1>4

(* One more element adds its length.                                       *)
LEMMA LenSumAppend ==
  ASSUME NEW R, HasLengths(R), NEW es \in Seq(R), NEW e \in R
  PROVE  LenSum(Append(es, e)) = LenSum(es) + e.len
<1> DEFINE all == Append(es, e)
<1>1. all \in Seq(R) /\ Len(all) = Len(es) + 1 /\ Len(es) \in Nat
      /\ \A k \in 1 .. Len(es) : all[k] = es[k]
      /\ all[Len(es) + 1] = e
  BY AppendProperties
<1> HIDE DEF all
<1>2. PICK g : PartialSums(g, all) /\ g[Len(all)] = LenSum(all)
  BY <1>1, LenSumTrace
<1>3. PICK h : PartialSums(h, es) /\ h[Len(es)] = LenSum(es)
  BY LenSumTrace
<1>4. \A k \in 0 .. Len(es) : g[k] = h[k]
  <2>1. \A k \in 1 .. Len(es) : es[k].len = all[k].len
    BY <1>1
  <2>2. Len(es) <= Len(all)
    BY <1>1
  <2> QED BY <1>1, <1>2, <1>3, <2>1, <2>2, SumsAgree
<1>6. g[Len(es)] = h[Len(es)]
  BY <1>1, <1>4
<1>7. Len(es) + 1 \in 1 .. Len(all) /\ (Len(es) + 1) - 1 = Len(es)
  BY <1>1
<1>8. g[Len(es) + 1] = g[Len(es)] + all[Len(es) + 1].len
  BY <1>2, <1>7 DEF PartialSums
<1> QED BY <1>1, <1>2, <1>3, <1>6, <1>8 DEF all

(* A nonempty sequence sums up to its last length at least.                *)
LEMMA LenSumAtLeast ==
  ASSUME NEW R, HasLengths(R), NEW es \in Seq(R), Len(es) > 0
  PROVE  LenSum(es) >= es[Len(es)].len
<1>1. PICK g : PartialSums(g, es) /\ g[Len(es)] = LenSum(es)
  BY LenSumTrace
<1>2. Len(es) \in 1 .. Len(es) /\ Len(es) - 1 \in 0 .. Len(es) /\ es[Len(es)] \in R
  OBVIOUS
<1>3. g[Len(es)] = g[Len(es) - 1] + es[Len(es)].len /\ g[Len(es) - 1] \in Nat
  BY <1>1, <1>2 DEF PartialSums
<1> QED BY <1>1, <1>2, <1>3 DEF HasLengths

(* Two parts: no length is lost, none counted twice.                       *)
LEMMA LenSumParts ==
  ASSUME NEW R, HasLengths(R), NEW es \in Seq(R),
         NEW front \in Seq(R), NEW back \in Seq(R), NEW m \in Nat,
         m = Len(front), m + Len(back) = Len(es),
         SameLengths(front, es, 0), SameLengths(back, es, m)
  PROVE  LenSum(es) = LenSum(front) + LenSum(back)
<1>1. PICK g : PartialSums(g, es) /\ g[Len(es)] = LenSum(es)
  BY LenSumTrace
<1>2. PICK h : PartialSums(h, front) /\ h[Len(front)] = LenSum(front)
  BY LenSumTrace
<1>3. PICK q : PartialSums(q, back) /\ q[Len(back)] = LenSum(back)
  BY LenSumTrace
<1>4. SumsFrom(g, 0, h, Len(front)) /\ SumsFrom(g, m, q, Len(back))
  <2>1. SumsFrom(g, 0, h, Len(front))
    BY <1>1, <1>2, SumsShift
  <2>2. SumsFrom(g, m, q, Len(back))
    BY <1>1, <1>3, SumsShift
  <2> QED BY <2>1, <2>2
<1>5. g[m] = h[m] /\ g[m + Len(back)] = g[m] + q[Len(back)]
  <2>1. m \in 0 .. Len(front) /\ Len(back) \in 0 .. Len(back) /\ 0 + m = m
    OBVIOUS
  <2>2. g[0 + m] = g[0] + h[m] /\ g[m + Len(back)] = g[m] + q[Len(back)]
    BY <1>4, <2>1 DEF SumsFrom
  <2>3. g[0] = 0 /\ h[m] \in Nat
    BY <1>1, <1>2, <2>1 DEF PartialSums
  <2> QED BY <2>1, <2>2, <2>3
<1> QED BY <1>1, <1>2, <1>3, <1>5

(* A prefix and the rest.                                                  *)
LEMMA LenSumSplit ==
  ASSUME NEW R, HasLengths(R), NEW es \in Seq(R), NEW n \in 0 .. Len(es)
  PROVE  /\ LenSum(es) = LenSum(SubSeq(es, 1, n)) + LenSum(SubSeq(es, n + 1, Len(es)))
         /\ LenSum(SubSeq(es, 1, n)) \in 0 .. LenSum(es)
<1> DEFINE front == SubSeq(es, 1, n)
           back  == SubSeq(es, n + 1, Len(es))
<1>1. Len(es) \in Nat /\ n \in Nat /\ \A k \in 1 .. Len(es) : es[k] \in R
  OBVIOUS
<1>2. front \in Seq(R) /\ Len(front) = n /\ \A k \in 1 .. n : front[k] = es[k]
  <2>1. \A i \in 1 .. n : es[i] \in R
    BY <1>1
  <2> QED BY <1>1, <2>1, SubSeqProperties
<1>3. back \in Seq(R) /\ Len(back) = Len(es) - n
      /\ \A k \in 1 .. Len(es) - n : back[k] = es[n + k]
  <2>1. \A i \in n + 1 .. Len(es) : es[i] \in R
    BY <1>1
  <2> QED BY <1>1, <2>1, SubSeqProperties
<1>4. LenSum(es) = LenSum(front) + LenSum(back)
  <2> HIDE DEF front, back
  <2>1. n = Len(front) /\ n + Len(back) = Len(es)
    BY <1>1, <1>2, <1>3
  <2>2. SameLengths(front, es, 0)
    <3>1. \A k \in 1 .. Len(front) : front[k].len = es[0 + k].len
      BY <1>1, <1>2
    <3> QED BY <1>1, <1>2, <3>1 DEF SameLengths
  <2>5. SameLengths(back, es, n)
    <3>1. \A k \in 1 .. Len(back) : back[k].len = es[n + k].len
      BY <1>1, <1>3
    <3> QED BY <1>1, <1>3, <3>1 DEF SameLengths
  <2>3. front \in Seq(R) /\ back \in Seq(R) /\ n \in Nat
    BY <1>1, <1>2, <1>3
  <2> QED BY <2>1, <2>2, <2>3, <2>5, LenSumParts
<1>5. LenSum(front) \in Nat /\ LenSum(back) \in Nat
  <2> HIDE DEF front, back
  <2> QED BY <1>2, <1>3, LenSumType
<1>6. LenSum(front) \in 0 .. LenSum(es)
  <2> HIDE DEF front, back
  <2> QED BY <1>4, <1>5
<1> QED BY <1>4, <1>6

-----------------------------------------------------------------------------
(* The elements of a finite set of numbers can be put in order.            *)
LEMMA IncreasingExists ==
  ASSUME NEW S \in SUBSET Nat, IsFiniteSet(S)
  PROVE  \E ms \in [1 .. Cardinality(S) -> S] : \A i, k \in DOMAIN ms : i < k => ms[i] < ms[k]
<1> DEFINE Inc(T) == \E ms \in [1 .. Cardinality(T) -> T] : \A i, k \in DOMAIN ms : i < k => ms[i] < ms[k]
           Bad == {c \in Nat : \E T \in SUBSET S : Cardinality(T) = c /\ ~Inc(T)}
<1>0. \A T \in SUBSET S : IsFiniteSet(T) /\ Cardinality(T) \in Nat
  BY FS_Subset, FS_CardinalityType
<1> SUFFICES ASSUME ~Inc(S) PROVE FALSE
  OBVIOUS
<1>1. Bad # {} /\ Bad \in SUBSET Nat
  <2>1. Cardinality(S) \in Bad
    <3> HIDE DEF Inc
    <3> QED BY <1>0
  <2> QED BY <2>1
<1>2. PICK c \in Bad : \A d \in Bad : c <= d
  <2> HIDE DEF Bad
  <2> QED BY <1>1, LeastNumber
<1>3. PICK T \in SUBSET S : Cardinality(T) = c /\ ~Inc(T)
  <2> HIDE DEF Inc
  <2> QED BY <1>2
<1>4. T # {}
  <2> SUFFICES ASSUME T = {} PROVE FALSE
    OBVIOUS
  <2>1. Cardinality(T) = 0
    BY FS_EmptySet
  <2>2. 1 .. 0 = {}
    OBVIOUS
  <2>3. [i \in 1 .. Cardinality(T) |-> 0] \in [1 .. Cardinality(T) -> T]
    BY <2>1, <2>2
  <2>4. Inc(T)
    BY <2>1, <2>2, <2>3
  <2> QED BY <2>4, <1>3
<1>5. PICK t \in T : \A u \in T : t <= u
  BY <1>4, LeastNumber
<1> DEFINE U == T \ {t}
<1>6. /\ U \in SUBSET S /\ U \in SUBSET Nat /\ T \in SUBSET Nat
      /\ c \in Nat /\ Cardinality(U) = c - 1 /\ c - 1 \in Nat
  <2>1. Cardinality(U) = c - 1
    BY <1>0, <1>3, FS_RemoveElement
  <2>2. Cardinality(U) \in Nat
    BY <1>0
  <2> QED BY <2>1, <2>2, <1>2
<1>7. Inc(U)
  <2> HIDE DEF U, Inc
  <2>1. c - 1 \notin Bad
    <3> HIDE DEF Bad
    <3>1. c - 1 \in Bad => c <= c - 1
      BY <1>2
    <3> QED BY <3>1, <1>6
  <2> QED BY <2>1, <1>6
<1>8. PICK ms \in [1 .. c - 1 -> U] : \A i, k \in 1 .. c - 1 : i < k => ms[i] < ms[k]
  <2> HIDE DEF U
  <2> QED BY <1>6, <1>7
<1> DEFINE ns == [i \in 1 .. c |-> IF i = 1 THEN t ELSE ms[i - 1]]
<1>9. \A i \in 1 .. c - 1 : ms[i] \in T /\ t < ms[i]
  <2> TAKE i \in 1 .. c - 1
  <2>1. ms[i] \in U
    <3> HIDE DEF U
    <3> QED BY <1>8
  <2>2. ms[i] \in T /\ ms[i] # t
    BY <2>1
  <2>3. t \in Nat /\ ms[i] \in Nat /\ t <= ms[i]
    <3> HIDE DEF U
    <3> QED BY <2>2, <1>5, <1>6
  <2> QED BY <2>2, <2>3
<1>10. \A i \in 1 .. c : i # 1 => i - 1 \in 1 .. c - 1
  BY <1>6
<1>11. ns \in [1 .. c -> T]
  BY <1>9, <1>10
<1>12. ASSUME NEW i \in 1 .. c, NEW k \in 1 .. c, i < k PROVE ns[i] < ns[k]
  <2>1. k # 1 /\ k - 1 \in 1 .. c - 1 /\ ns[k] = ms[k - 1]
    BY <1>6, <1>10, <1>12
  <2>2. CASE i = 1
    BY <2>1, <2>2, <1>9
  <2>3. CASE i # 1
    <3>1. i - 1 \in 1 .. c - 1 /\ ns[i] = ms[i - 1] /\ i - 1 < k - 1
      BY <2>3, <1>10, <1>12, <1>6
    <3> QED BY <3>1, <2>1, <1>8
  <2> QED BY <2>2, <2>3
<1>13. Inc(T)
  <2> HIDE DEF ns
  <2> QED BY <1>11, <1>12, <1>3
<1> QED BY <1>13, <1>3

-----------------------------------------------------------------------------
\* The element that the folds over a set take first.
FirstOf(T) == CHOOSE x \in T : TRUE

(* h computes the sum of the weights w over every subset of S.             *)
SetSumEq(h, w, S) ==
  /\ h[{}] = 0
  /\ \A T \in SUBSET S : T # {} => h[T] = w[FirstOf(T)] + h[T \ {FirstOf(T)}]

SetSumFcn(h, w, S) == h \in [SUBSET S -> Nat] /\ SetSumEq(h, w, S)

LEMMA FirstIn ==
  ASSUME NEW T, T # {}
  PROVE  FirstOf(T) \in T
BY DEF FirstOf

(* The sum can be computed over every finite set: by a function that is    *)
(* right on the subsets with fewer than d elements.                        *)
LEMMA SetSumExists ==
  ASSUME NEW S, IsFiniteSet(S), NEW w, \A x \in S : w[x] \in Nat
  PROVE  \E h : SetSumFcn(h, w, S)
<1> DEFINE Small(h, d) ==
             /\ h \in [SUBSET S -> Nat]
             /\ h[{}] = 0
             /\ \A T \in SUBSET S : T # {} /\ Cardinality(T) <= d =>
                                      h[T] = w[FirstOf(T)] + h[T \ {FirstOf(T)}]
           Bad == {d \in Nat : ~ \E h : Small(h, d)}
<1>0. /\ \A T \in SUBSET S : IsFiniteSet(T) /\ Cardinality(T) \in Nat /\ Cardinality(T) <= Cardinality(S)
      /\ \A T \in SUBSET S : T # {} => /\ FirstOf(T) \in T
                                       /\ T \ {FirstOf(T)} \in SUBSET S
                                       /\ Cardinality(T \ {FirstOf(T)}) = Cardinality(T) - 1
                                       /\ Cardinality(T) >= 1
  <2>1. \A T \in SUBSET S : IsFiniteSet(T) /\ Cardinality(T) \in Nat /\ Cardinality(T) <= Cardinality(S)
    BY FS_Subset, FS_CardinalityType
  <2>2. ASSUME NEW T \in SUBSET S, T # {}
        PROVE  /\ FirstOf(T) \in T
               /\ T \ {FirstOf(T)} \in SUBSET S
               /\ Cardinality(T \ {FirstOf(T)}) = Cardinality(T) - 1
               /\ Cardinality(T) >= 1
    <3>1. FirstOf(T) \in T
      BY <2>2, FirstIn
    <3>2. Cardinality(T \ {FirstOf(T)}) = Cardinality(T) - 1
      BY <2>1, <3>1, FS_RemoveElement
    <3>3. Cardinality(T) # 0
      BY <2>1, <2>2, FS_EmptySet
    <3> QED BY <2>1, <3>1, <3>2, <3>3
  <2> QED BY <2>1, <2>2
<1>1. ASSUME Bad # {} PROVE FALSE
  <2>1. PICK d \in Bad : \A c \in Bad : d <= c
    <3>1. Bad \in SUBSET Nat
      OBVIOUS
    <3> HIDE DEF Bad
    <3> QED BY <1>1, <3>1, LeastNumber
  <2>2. d # 0
    <3> SUFFICES ASSUME d = 0 PROVE FALSE
      OBVIOUS
    <3> DEFINE z == [T \in SUBSET S |-> 0]
    <3>1. z \in [SUBSET S -> Nat] /\ z[{}] = 0
      OBVIOUS
    <3>2. ASSUME NEW T \in SUBSET S, T # {} PROVE ~(Cardinality(T) <= 0)
      <4>1. Cardinality(T) \in Nat /\ Cardinality(T) >= 1
        BY <1>0, <3>2
      <4> QED BY <4>1
    <3>3. Small(z, 0)
      <4> HIDE DEF z
      <4> QED BY <3>1, <3>2
    <3> QED BY <3>3, <2>1
  <2>3. d \in Nat /\ d - 1 \in Nat
    BY <2>2
  <2>4. d - 1 \notin Bad
    <3> HIDE DEF Bad
    <3>1. d - 1 \in Bad => d <= d - 1
      BY <2>1
    <3> QED BY <3>1, <2>3
  <2>5. PICK h : Small(h, d - 1)
    <3> HIDE DEF Small
    <3> QED BY <2>3, <2>4
  <2> DEFINE g == [T \in SUBSET S |-> IF T = {} THEN 0
                                      ELSE w[FirstOf(T)] + h[T \ {FirstOf(T)}]]
  <2>6. \A T \in SUBSET S : T # {} => w[FirstOf(T)] \in Nat /\ h[T \ {FirstOf(T)}] \in Nat
    BY <1>0, <2>5
  <2>7. g \in [SUBSET S -> Nat] /\ g[{}] = 0
    <3>1. ASSUME NEW T \in SUBSET S PROVE g[T] \in Nat
      <4>1. CASE T = {}
        BY <4>1
      <4>2. CASE T # {}
        <5>1. w[FirstOf(T)] \in Nat /\ h[T \ {FirstOf(T)}] \in Nat
          BY <2>6, <4>2
        <5>2. g[T] = w[FirstOf(T)] + h[T \ {FirstOf(T)}]
          BY <4>2
        <5> HIDE DEF g
        <5> QED BY <5>1, <5>2
      <4> QED BY <4>1, <4>2
    <3>2. g[{}] = 0 /\ g = [T \in SUBSET S |-> g[T]]
      OBVIOUS
    <3> HIDE DEF g
    <3> QED BY <3>1, <3>2
  <2>8. \A T \in SUBSET S : Cardinality(T) <= d - 1 => g[T] = h[T]
    BY <2>5
  <2>9. ASSUME NEW T \in SUBSET S, T # {}, Cardinality(T) <= d
        PROVE  g[T] = w[FirstOf(T)] + g[T \ {FirstOf(T)}]
    <3>1. T \ {FirstOf(T)} \in SUBSET S /\ Cardinality(T \ {FirstOf(T)}) <= d - 1
      <4>1. T \ {FirstOf(T)} \in SUBSET S /\ Cardinality(T \ {FirstOf(T)}) = Cardinality(T) - 1
        BY <2>9, <1>0
      <4>2. Cardinality(T) \in Nat
        BY <1>0
      <4> QED BY <4>1, <4>2, <2>9, <2>3
    <3>2. g[T \ {FirstOf(T)}] = h[T \ {FirstOf(T)}]
      <4> HIDE DEF g
      <4> QED BY <3>1, <2>8
    <3>3. g[T] = w[FirstOf(T)] + h[T \ {FirstOf(T)}]
      BY <2>9
    <3> HIDE DEF g
    <3> QED BY <3>2, <3>3
  <2>10. Small(g, d)
    <3> HIDE DEF g
    <3> QED BY <2>7, <2>9
  <2> QED BY <2>10, <2>1
<1>2. Cardinality(S) \in Nat
  BY FS_CardinalityType
<1>3. PICK h : Small(h, Cardinality(S))
  <2> HIDE DEF Small
  <2> QED BY <1>1, <1>2
<1>4. SetSumFcn(h, w, S)
  <2>1. \A T \in SUBSET S : Cardinality(T) <= Cardinality(S)
    BY <1>0
  <2>2. \A T \in SUBSET S : T # {} => h[T] = w[FirstOf(T)] + h[T \ {FirstOf(T)}]
    BY <1>3, <2>1
  <2> QED BY <1>3, <2>2 DEF SetSumFcn, SetSumEq
<1> QED BY <1>4

(* Two functions that compute sums, over sets that share the elements of   *)
(* T and weigh them alike, agree on T.                                     *)
LEMMA SetSumUnique ==
  ASSUME NEW S, IsFiniteSet(S), NEW T \in SUBSET S, NEW R, T \subseteq R,
         NEW w, NEW v, \A x \in T : w[x] = v[x],
         NEW h, SetSumEq(h, w, S), NEW g, SetSumEq(g, v, R)
  PROVE  h[T] = g[T]
<1> DEFINE Bad == {c \in Nat : \E U \in SUBSET T : Cardinality(U) = c /\ h[U] # g[U]}
<1>0. \A U \in SUBSET T : IsFiniteSet(U) /\ Cardinality(U) \in Nat
  BY FS_Subset, FS_CardinalityType
<1> SUFFICES ASSUME h[T] # g[T] PROVE FALSE
  OBVIOUS
<1>1. Bad # {} /\ Bad \in SUBSET Nat
  <2>1. Cardinality(T) \in Bad
    BY <1>0
  <2> QED BY <2>1
<1>2. PICK c \in Bad : \A d \in Bad : c <= d
  <2> HIDE DEF Bad
  <2> QED BY <1>1, LeastNumber
<1>3. PICK U \in SUBSET T : Cardinality(U) = c /\ h[U] # g[U]
  BY <1>2
<1>4. U # {}
  BY <1>3 DEF SetSumEq
<1> DEFINE x == FirstOf(U)
           V == U \ {x}
<1>5. x \in U /\ w[x] = v[x]
  BY <1>4, FirstIn
<1>6. V \in SUBSET T /\ Cardinality(V) = c - 1 /\ c - 1 \in Nat
  <2>1. Cardinality(V) = c - 1
    BY <1>0, <1>3, <1>5, FS_RemoveElement
  <2>2. Cardinality(V) \in Nat
    BY <1>0
  <2> QED BY <2>1, <2>2
<1>7. h[V] = g[V]
  <2>1. c - 1 \notin Bad
    <3> HIDE DEF Bad
    <3>1. c - 1 \in Bad => c <= c - 1
      BY <1>2
    <3> QED BY <3>1, <1>1, <1>6
  <2> HIDE DEF V
  <2> QED BY <2>1, <1>6
<1>8. h[U] = w[x] + h[V]
  BY <1>4 DEF SetSumEq
<1>9. g[U] = v[x] + g[V]
  <2>1. U \in SUBSET R
    OBVIOUS
  <2> QED BY <2>1, <1>4 DEF SetSumEq
<1> QED BY <1>3, <1>5, <1>7, <1>8, <1>9

(* Any element may be taken first.                                         *)
LEMMA SetSumAny ==
  ASSUME NEW S, IsFiniteSet(S), NEW w, \A x \in S : w[x] \in Nat, NEW h, SetSumFcn(h, w, S),
         NEW T \in SUBSET S, NEW x \in T
  PROVE  h[T] = w[x] + h[T \ {x}]
<1> DEFINE Wrong(U) == \E y \in U : h[U] # w[y] + h[U \ {y}]
           Bad == {c \in Nat : \E U \in SUBSET S : Cardinality(U) = c /\ Wrong(U)}
<1>0. \A U \in SUBSET S : IsFiniteSet(U) /\ Cardinality(U) \in Nat
  BY FS_Subset, FS_CardinalityType
<1> SUFFICES ASSUME h[T] # w[x] + h[T \ {x}] PROVE FALSE
  OBVIOUS
<1>1. Bad # {} /\ Bad \in SUBSET Nat
  <2>1. Wrong(T)
    OBVIOUS
  <2>2. Cardinality(T) \in Bad
    <3> HIDE DEF Wrong
    <3> QED BY <1>0, <2>1
  <2> QED BY <2>2
<1>2. PICK c \in Bad : \A d \in Bad : c <= d
  <2> HIDE DEF Bad
  <2> QED BY <1>1, LeastNumber
<1>3. PICK U \in SUBSET S : Cardinality(U) = c /\ Wrong(U)
  <2> HIDE DEF Wrong
  <2> QED BY <1>2
<1>4. PICK y \in U : h[U] # w[y] + h[U \ {y}]
  BY <1>3
<1> DEFINE z == FirstOf(U)
           V == U \ {z}
           Y == U \ {y}
           X == V \ {y}
<1>5. z \in U /\ h[U] = w[z] + h[V]
  <2>1. U # {}
    OBVIOUS
  <2> QED BY <2>1, FirstIn DEF SetSumFcn, SetSumEq
<1>6. y # z /\ y \in V /\ z \in Y /\ X = Y \ {z}
  BY <1>4, <1>5
<1>7. V \in SUBSET S /\ Cardinality(V) = c - 1 /\ Y \in SUBSET S /\ Cardinality(Y) = c - 1 /\ c - 1 \in Nat
  <2>1. Cardinality(V) = c - 1
    BY <1>0, <1>3, <1>5, FS_RemoveElement
  <2>2. Cardinality(Y) = c - 1
    BY <1>0, <1>3, <1>4, FS_RemoveElement
  <2>3. Cardinality(V) \in Nat
    BY <1>0
  <2> QED BY <2>1, <2>2, <2>3
<1>8. ~Wrong(V) /\ ~Wrong(Y)
  <2>1. c - 1 \notin Bad
    <3> HIDE DEF Bad
    <3>1. c - 1 \in Bad => c <= c - 1
      BY <1>2
    <3> QED BY <3>1, <1>1, <1>7
  <2> HIDE DEF V, Y, Wrong
  <2> QED BY <2>1, <1>7
<1>9. h[V] = w[y] + h[X] /\ h[Y] = w[z] + h[X]
  <2>1. h[V] = w[y] + h[X]
    <3> HIDE DEF V
    <3> QED BY <1>6, <1>8
  <2>2. h[Y] = w[z] + h[Y \ {z}]
    <3> HIDE DEF Y, z
    <3> QED BY <1>6, <1>8
  <2> QED BY <2>1, <2>2, <1>6
<1>10. w[y] \in Nat /\ w[z] \in Nat /\ h[X] \in Nat
  <2>1. X \in SUBSET S /\ y \in S /\ z \in S
    BY <1>5, <1>4
  <2> HIDE DEF X, z
  <2> QED BY <2>1 DEF SetSumFcn
<1>11. h[U] = w[y] + h[Y]
  <2> HIDE DEF V, X, Y, z
  <2> QED BY <1>5, <1>9, <1>10
<1> QED BY <1>4, <1>11

\* The sum of the weights w over S.
SumOver(w, S) == CHOOSE n : \E h : SetSumFcn(h, w, S) /\ n = h[S]

LEMMA TotalIs ==
  ASSUME NEW S, IsFiniteSet(S), NEW w, NEW h, SetSumFcn(h, w, S)
  PROVE  SumOver(w, S) = h[S]
<1>1. \E n : \E g : SetSumFcn(g, w, S) /\ n = g[S]
  OBVIOUS
<1>2. PICK g : SetSumFcn(g, w, S) /\ SumOver(w, S) = g[S]
  BY <1>1 DEF SumOver
<1>3. g[S] = h[S]
  <2>1. S \in SUBSET S /\ S \subseteq S /\ \A x \in S : w[x] = w[x]
    OBVIOUS
  <2> QED BY <1>2, <2>1, SetSumUnique DEF SetSumFcn
<1> QED BY <1>2, <1>3

LEMMA TotalEmpty == \A w : SumOver(w, {}) = 0
<1> TAKE w
<1>1. IsFiniteSet({}) /\ \A x \in {} : w[x] \in Nat
  BY FS_EmptySet
<1>2. PICK h : SetSumFcn(h, w, {})
  BY <1>1, SetSumExists
<1>3. SumOver(w, {}) = h[{}]
  BY <1>1, <1>2, TotalIs
<1> QED BY <1>2, <1>3 DEF SetSumFcn, SetSumEq

LEMMA TotalType ==
  ASSUME NEW S, IsFiniteSet(S), NEW w, \A x \in S : w[x] \in Nat
  PROVE  SumOver(w, S) \in Nat
<1>1. PICK h : SetSumFcn(h, w, S)
  BY SetSumExists
<1>2. SumOver(w, S) = h[S]
  BY <1>1, TotalIs
<1> QED BY <1>1, <1>2 DEF SetSumFcn

LEMMA TotalSame ==
  ASSUME NEW S, IsFiniteSet(S), NEW w, \A x \in S : w[x] \in Nat,
         NEW v, \A x \in S : w[x] = v[x]
  PROVE  SumOver(w, S) = SumOver(v, S)
<1>1. \A x \in S : v[x] \in Nat
  OBVIOUS
<1>2. PICK h : SetSumFcn(h, w, S)
  BY SetSumExists
<1>3. PICK g : SetSumFcn(g, v, S)
  BY <1>1, SetSumExists
<1>4. h[S] = g[S]
  <2>1. S \in SUBSET S /\ S \subseteq S
    OBVIOUS
  <2> QED BY <1>2, <1>3, <2>1, SetSumUnique DEF SetSumFcn
<1>5. SumOver(w, S) = h[S]
  BY <1>2, TotalIs
<1>6. SumOver(v, S) = g[S]
  BY <1>3, TotalIs
<1> QED BY <1>4, <1>5, <1>6

LEMMA TotalTake ==
  ASSUME NEW S, IsFiniteSet(S), NEW w, \A x \in S : w[x] \in Nat, NEW y \in S
  PROVE  SumOver(w, S) = w[y] + SumOver(w, S \ {y})
<1> DEFINE T == S \ {y}
<1>1. IsFiniteSet(T) /\ T \in SUBSET S /\ \A x \in T : w[x] \in Nat
  BY FS_Subset
<1>2. PICK h : SetSumFcn(h, w, S)
  BY SetSumExists
<1>3. PICK g : SetSumFcn(g, w, T)
  <2> HIDE DEF T
  <2> QED BY <1>1, SetSumExists
<1>4. h[T] = g[T]
  <2>1. T \subseteq T /\ \A x \in T : w[x] = w[x]
    OBVIOUS
  <2> HIDE DEF T
  <2> QED BY <1>1, <1>2, <1>3, <2>1, SetSumUnique DEF SetSumFcn
<1>5. SumOver(w, S) = h[S]
  BY <1>2, TotalIs
<1>6. SumOver(w, T) = g[T]
  <2> HIDE DEF T
  <2> QED BY <1>1, <1>3, TotalIs
<1>7. h[S] = w[y] + h[T]
  <2>1. S \in SUBSET S
    OBVIOUS
  <2> QED BY <1>2, <2>1, SetSumAny
<1> QED BY <1>4, <1>5, <1>6, <1>7

(* A weight that is added on a part of the set adds that part's sum.       *)
LEMMA TotalPlus ==
  ASSUME NEW S, IsFiniteSet(S), NEW w, \A x \in S : w[x] \in Nat,
         NEW A \in SUBSET S, NEW v, \A x \in A : v[x] \in Nat,
         NEW u, \A x \in S : u[x] = w[x] + (IF x \in A THEN v[x] ELSE 0)
  PROVE  SumOver(u, S) = SumOver(w, S) + SumOver(v, A)
<1> DEFINE Wrong(U) == SumOver(u, U) # SumOver(w, U) + SumOver(v, A \cap U)
           Bad == {c \in Nat : \E U \in SUBSET S : Cardinality(U) = c /\ Wrong(U)}
<1>0. \A U \in SUBSET S : IsFiniteSet(U) /\ Cardinality(U) \in Nat
  BY FS_Subset, FS_CardinalityType
<1>a. A = A \cap S
  OBVIOUS
<1> SUFFICES ASSUME Wrong(S) PROVE FALSE
  BY <1>a
<1>1. Bad # {} /\ Bad \in SUBSET Nat
  <2>1. Cardinality(S) \in Bad
    <3> HIDE DEF Wrong
    <3> QED BY <1>0
  <2> QED BY <2>1
<1>2. PICK c \in Bad : \A d \in Bad : c <= d
  <2> HIDE DEF Bad
  <2> QED BY <1>1, LeastNumber
<1>3. PICK U \in SUBSET S : Cardinality(U) = c /\ Wrong(U)
  <2> HIDE DEF Wrong
  <2> QED BY <1>2
<1>4. U # {}
  <2> SUFFICES ASSUME U = {} PROVE FALSE
    OBVIOUS
  <2>1. A \cap U = {}
    OBVIOUS
  <2>2. SumOver(u, {}) = 0 /\ SumOver(w, {}) = 0 /\ SumOver(v, {}) = 0
    BY TotalEmpty
  <2> QED BY <1>3, <2>1, <2>2
<1>5. PICK y \in U : TRUE
  BY <1>4
<1> DEFINE V == U \ {y}
<1>6. V \in SUBSET S /\ Cardinality(V) = c - 1 /\ c - 1 \in Nat
  <2>1. Cardinality(V) = c - 1
    BY <1>0, <1>3, <1>5, FS_RemoveElement
  <2>2. Cardinality(V) \in Nat
    BY <1>0
  <2> QED BY <2>1, <2>2
<1>7. ~Wrong(V)
  <2>1. c - 1 \notin Bad
    <3> HIDE DEF Bad
    <3>1. c - 1 \in Bad => c <= c - 1
      BY <1>2
    <3> QED BY <3>1, <1>1, <1>6
  <2> HIDE DEF V, Wrong
  <2> QED BY <2>1, <1>6
<1>8. \A x \in S : u[x] \in Nat
  <2> TAKE x \in S
  <2>1. CASE x \in A
    BY <2>1
  <2>2. CASE x \notin A
    BY <2>2
  <2> QED BY <2>1, <2>2
<1>9. IsFiniteSet(U) /\ IsFiniteSet(V) /\ IsFiniteSet(A \cap U) /\ IsFiniteSet(A \cap V)
  <2>1. A \cap U \in SUBSET S /\ A \cap V \in SUBSET S
    OBVIOUS
  <2> QED BY <2>1, <1>0, <1>6
<1>10. SumOver(u, U) = u[y] + SumOver(u, V)
  <2>1. \A x \in U : u[x] \in Nat
    BY <1>8
  <2> QED BY <2>1, <1>9, TotalTake
<1>11. SumOver(w, U) = w[y] + SumOver(w, V)
  <2>1. \A x \in U : w[x] \in Nat
    OBVIOUS
  <2> QED BY <2>1, <1>9, TotalTake
<1>12. SumOver(w, V) \in Nat /\ SumOver(v, A \cap V) \in Nat /\ w[y] \in Nat
  <2>1. \A x \in V : w[x] \in Nat
    OBVIOUS
  <2>2. \A x \in A \cap V : v[x] \in Nat
    OBVIOUS
  <2> QED BY <2>1, <2>2, <1>9, TotalType
<1>13. CASE y \in A
  <2>1. (A \cap U) \ {y} = A \cap V /\ y \in A \cap U
    BY <1>13
  <2>2. \A x \in A \cap U : v[x] \in Nat
    OBVIOUS
  <2>3. SumOver(v, A \cap U) = v[y] + SumOver(v, A \cap V)
    BY <2>1, <2>2, <1>9, TotalTake
  <2>4. u[y] = w[y] + v[y] /\ v[y] \in Nat
    BY <1>13
  <2>5. SumOver(u, V) = SumOver(w, V) + SumOver(v, A \cap V)
    BY <1>7
  <2> HIDE DEF V
  <2> QED BY <2>3, <2>4, <2>5, <1>10, <1>11, <1>12, <1>3
<1>14. CASE y \notin A
  <2>1. A \cap U = A \cap V
    BY <1>14
  <2>2. u[y] = w[y]
    BY <1>14
  <2>3. SumOver(u, V) = SumOver(w, V) + SumOver(v, A \cap V)
    BY <1>7
  <2>4. SumOver(v, A \cap U) = SumOver(v, A \cap V)
    BY <2>1
  <2> HIDE DEF V
  <2> QED BY <2>2, <2>3, <2>4, <1>10, <1>11, <1>12, <1>3
<1> QED BY <1>13, <1>14

\* The equation of the recursive function behind MapThenSumSet.
SetSumBody(c, w, S) ==
  [T \in SUBSET S |-> IF T = {} THEN 0 ELSE w[FirstOf(T)] + c[T \ {FirstOf(T)}]]

(* MapThenSumSet is the sum: whatever solves its equation computes it.     *)
LEMMA SetSumSolution ==
  ASSUME NEW S, IsFiniteSet(S), NEW w, \A x \in S : w[x] \in Nat
  PROVE  /\ \E c : c = SetSumBody(c, w, S)
         /\ \A c : c = SetSumBody(c, w, S) => SumOver(w, S) = c[S]
<1>1. PICK h : SetSumFcn(h, w, S)
  BY SetSumExists
<1>2. h = SetSumBody(h, w, S)
  <2>1. /\ h = [T \in SUBSET S |-> h[T]]
        /\ \A T \in SUBSET S : h[T] = IF T = {} THEN 0 ELSE w[FirstOf(T)] + h[T \ {FirstOf(T)}]
    BY <1>1 DEF SetSumFcn, SetSumEq
  <2> QED BY <2>1 DEF SetSumBody
<1>3. ASSUME NEW c, c = SetSumBody(c, w, S) PROVE SumOver(w, S) = c[S]
  <2>1. \A T \in SUBSET S : c[T] = IF T = {} THEN 0 ELSE w[FirstOf(T)] + c[T \ {FirstOf(T)}]
    BY <1>3 DEF SetSumBody
  <2>2. SetSumEq(c, w, S)
    BY <2>1 DEF SetSumEq
  <2>3. S \in SUBSET S /\ S \subseteq S /\ \A x \in S : w[x] = w[x]
    OBVIOUS
  <2>4. c[S] = h[S]
    BY <1>1, <2>2, <2>3, SetSumUnique DEF SetSumFcn
  <2>5. SumOver(w, S) = h[S]
    BY <1>1, TotalIs
  <2> QED BY <2>4, <2>5
<1> QED BY <1>2, <1>3

=============================================================================
