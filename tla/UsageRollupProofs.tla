---------------------------- MODULE UsageRollupProofs ----------------------------
(***************************************************************************)
(* The rollup rows and the analytics, for any number of events, days and   *)
(* writers.                                                                *)
(*                                                                         *)
(* Updates are lost when persists overlap, so what holds of every row is   *)
(* little: Agrees, and NoneAhead as long as no event is persisted twice.   *)
(* If nothing overlaps, Serial says more: at most one transaction is open, *)
(* none while the backfill works, and Tracks follows the event that the    *)
(* transaction moves from one bucket to another.                           *)
(***************************************************************************)
EXTENDS UsageRollup, FiniteSetTheorems, TLAPS

-----------------------------------------------------------------------------
(* Folds over finite sets.  FoldSet is a CHOOSE of a function on the subsets*)
(* of its set, so what it computes is known by induction over them.        *)

\* Induction over the subsets of a finite set, for a set of subsets.
LEMMA FiniteInduction ==
  ASSUME NEW S, IsFiniteSet(S), NEW Good,
         \A A \in SUBSET S : (\A B \in SUBSET A : B # A => B \in Good) => A \in Good
  PROVE  \A A \in SUBSET S : A \in Good
<1> DEFINE Bad == (SUBSET S) \ Good
<1> SUFFICES ASSUME Bad # {} PROVE FALSE
  OBVIOUS
<1>1. IsWellFoundedOn(StrictSubsetOrdering(S), SUBSET S)
  <2>1. FiniteSubsetsOf(S) = SUBSET S
    BY FS_FiniteSubsetsOfFinite
  <2>2. IsWellFoundedOn(StrictSubsetOrdering(S), FiniteSubsetsOf(S))
    BY FS_StrictSubsetOrderingWellFounded
  <2> QED
    BY <2>1, <2>2
<1>2. PICK A \in Bad : \A B \in Bad : <<B, A>> \notin StrictSubsetOrdering(S)
  <2>1. Bad \subseteq SUBSET S
    OBVIOUS
  <2> HIDE DEF Bad
  <2> QED
    BY <1>1, <2>1, WFMin
<1>3. \A B \in SUBSET A : B # A => B \in Good
  <2> SUFFICES ASSUME NEW B \in SUBSET A, B # A, B \in Bad PROVE FALSE
    OBVIOUS
  <2>1. <<B, A>> \in StrictSubsetOrdering(S)
    BY DEF StrictSubsetOrdering
  <2> QED
    BY <1>2, <2>1
<1> QED
  BY <1>2, <1>3

Pick(s) == CHOOSE x \in s : TRUE

\* r is the fold of step over the subsets of S, in the order of Pick.
Folds(r, step, base, S) ==
  r = [s \in SUBSET S |-> IF s = {} THEN base ELSE step[Pick(s)][r[s \ {Pick(s)}]]]

LEMMA PickIn == \A s : s # {} => Pick(s) \in s
  BY DEF Pick

LEMMA FoldsUnique ==
  ASSUME NEW S, IsFiniteSet(S), NEW T \in SUBSET S, NEW step, NEW base, NEW r, NEW q,
         Folds(r, step, base, S), Folds(q, step, base, T)
  PROVE  \A s \in SUBSET T : r[s] = q[s]
<1> DEFINE Good == {s \in SUBSET T : r[s] = q[s]}
<1>1. \A A \in SUBSET T : (\A B \in SUBSET A : B # A => B \in Good) => A \in Good
  <2> SUFFICES ASSUME NEW A \in SUBSET T, \A B \in SUBSET A : B # A => B \in Good
               PROVE  A \in Good
    OBVIOUS
  <2>1. CASE A = {}
    BY <2>1 DEF Folds
  <2>2. CASE A # {}
    <3> DEFINE B == A \ {Pick(A)}
    <3>1. Pick(A) \in A /\ B \in SUBSET A /\ B # A
      BY <2>2, PickIn
    <3>2. r[B] = q[B]
      BY <3>1
    <3>3. r[A] = step[Pick(A)][r[B]] /\ q[A] = step[Pick(A)][q[B]]
      BY <2>2 DEF Folds
    <3> QED
      BY <3>2, <3>3
  <2> QED
    BY <2>1, <2>2
<1>2. IsFiniteSet(T)
  BY FS_Subset
<1> HIDE DEF Good
<1>3. \A A \in SUBSET T : A \in Good
  BY <1>1, <1>2, FiniteInduction
<1> QED
  BY <1>3 DEF Good

LEMMA FoldsExist ==
  ASSUME NEW S, IsFiniteSet(S), NEW V, NEW base \in V, NEW step,
         \A x \in S : step[x] \in [V -> V]
  PROVE  \E r \in [SUBSET S -> V] : Folds(r, step, base, S)
<1> DEFINE Good == {A \in SUBSET S : \E r \in [SUBSET A -> V] : Folds(r, step, base, A)}
<1>1. ASSUME NEW A \in SUBSET S, \A B \in SUBSET A : B # A => B \in Good
      PROVE  A \in Good
  <2> DEFINE F(B) == CHOOSE r \in [SUBSET B -> V] : Folds(r, step, base, B)
  <2>1. \A B \in SUBSET A : B # A => F(B) \in [SUBSET B -> V] /\ Folds(F(B), step, base, B)
    BY <1>1
  <2> HIDE DEF F
  <2> DEFINE Less(s) == s \ {Pick(s)}
  <2> DEFINE g == [s \in SUBSET A |-> IF s = {} THEN base ELSE step[Pick(s)][F(Less(s))[Less(s)]]]
  <2>2. \A s \in SUBSET A : s # {} => Pick(s) \in S /\ Less(s) \in SUBSET A /\ Less(s) # A
    BY PickIn
  <2>3. g \in [SUBSET A -> V]
    <3> SUFFICES ASSUME NEW s \in SUBSET A, s # {} PROVE step[Pick(s)][F(Less(s))[Less(s)]] \in V
      OBVIOUS
    <3>1. F(Less(s))[Less(s)] \in V
      <4>1. Less(s) \in SUBSET A /\ Less(s) # A
        BY <2>2
      <4> HIDE DEF Less
      <4>2. F(Less(s)) \in [SUBSET Less(s) -> V]
        BY <2>1, <4>1
      <4> QED
        BY <4>2
    <3> HIDE DEF Less
    <3> QED
      BY <2>2, <3>1
  <2>a. \A s \in SUBSET A : g[s] = IF s = {} THEN base ELSE step[Pick(s)][F(Less(s))[Less(s)]]
    OBVIOUS
  <2> HIDE DEF g
  <2>4. \A s \in SUBSET A : s # {} => g[Less(s)] = F(Less(s))[Less(s)]
    <3> SUFFICES ASSUME NEW s \in SUBSET A, s # {} PROVE g[Less(s)] = F(Less(s))[Less(s)]
      OBVIOUS
    <3> DEFINE u == Less(s)
    <3>1. u \in SUBSET A /\ u # A
      BY <2>2
    <3>2. Folds(F(u), step, base, u)
      BY <2>1, <3>1
    <3> HIDE DEF u
    <3>3. ASSUME u = {} PROVE g[u] = F(u)[u]
      <4>1. F(u)[u] = base
        BY <3>2, <3>3 DEF Folds
      <4> QED
        BY <2>a, <3>1, <3>3, <4>1
    <3>4. ASSUME u # {} PROVE g[u] = F(u)[u]
      <4>1. Less(u) \in SUBSET u /\ Less(u) \in SUBSET A /\ Less(u) # A
        BY <3>1
      <4>2. Folds(F(Less(u)), step, base, Less(u))
        BY <2>1, <4>1
      <4>3. IsFiniteSet(u)
        BY <3>1, FS_Subset
      <4>4. F(u)[Less(u)] = F(Less(u))[Less(u)]
        <5> DEFINE l == Less(u)
        <5>1. \A t \in SUBSET l : F(u)[t] = F(l)[t]
          <6>1. l \in SUBSET u /\ Folds(F(l), step, base, l)
            BY <4>1, <4>2
          <6> HIDE DEF l
          <6> DEFINE a == F(u)
                     b == F(l)
          <6>2. Folds(a, step, base, u) /\ Folds(b, step, base, l)
            BY <3>2, <6>1
          <6> HIDE DEF a, b
          <6>3. \A t \in SUBSET l : a[t] = b[t]
            BY <4>3, <6>1, <6>2, FoldsUnique
          <6> QED
            BY <6>3 DEF a, b
        <5> QED
          BY <5>1
      <4>5. F(u)[u] = step[Pick(u)][F(u)[Less(u)]]
        BY <3>2, <3>4 DEF Folds
      <4>6. g[u] = step[Pick(u)][F(Less(u))[Less(u)]]
        BY <2>a, <3>1, <3>4
      <4> QED
        BY <4>4, <4>5, <4>6
    <3>5. g[u] = F(u)[u]
      BY <3>3, <3>4
    <3> QED
      BY <3>5 DEF u
  <2>5. Folds(g, step, base, A)
    <3>1. \A s \in SUBSET A : g[s] = IF s = {} THEN base ELSE step[Pick(s)][g[Less(s)]]
      BY <2>4, <2>a
    <3>2. g = [s \in SUBSET A |-> g[s]]
      BY <2>3
    <3> QED
      BY <3>1, <3>2 DEF Folds
  <2> QED
    BY <2>3, <2>5
<1>2. \A A \in SUBSET S : (\A B \in SUBSET A : B # A => B \in Good) => A \in Good
  BY <1>1
<1> HIDE DEF Good
<1>3. S \in Good
  BY <1>2, FiniteInduction
<1> QED
  BY <1>3 DEF Good

\* The fold of step over S.
FoldOf(step, base, S) == CHOOSE v : \E r : Folds(r, step, base, S) /\ v = r[S]

\* A fold whose steps commute may begin with any element.
Commute(step, S, V) ==
  /\ \A x \in S : step[x] \in [V -> V]
  /\ \A x, y \in S : \A v \in V : step[x][step[y][v]] = step[y][step[x][v]]

LEMMA FoldRule ==
  ASSUME NEW S, IsFiniteSet(S), NEW V, NEW base \in V, NEW step, Commute(step, S, V)
  PROVE  /\ FoldOf(step, base, {}) = base
         /\ FoldOf(step, base, S) \in V
         /\ \A x \in S : FoldOf(step, base, S) = step[x][FoldOf(step, base, S \ {x})]
<1>0. \A x \in S : step[x] \in [V -> V]
  BY DEF Commute
<1>1. PICK r \in [SUBSET S -> V] : Folds(r, step, base, S)
  BY <1>0, FoldsExist
<1>2. \A A \in SUBSET S : FoldOf(step, base, A) = r[A]
  <2> SUFFICES ASSUME NEW A \in SUBSET S PROVE FoldOf(step, base, A) = r[A]
    OBVIOUS
  <2>1. IsFiniteSet(A)
    BY FS_Subset
  <2>2. PICK q \in [SUBSET A -> V] : Folds(q, step, base, A)
    <3>1. \A x \in A : step[x] \in [V -> V]
      BY <1>0
    <3> QED
      BY <2>1, <3>1, FoldsExist
  <2>3. \A p : Folds(p, step, base, A) => r[A] = p[A]
    <3> SUFFICES ASSUME NEW p, Folds(p, step, base, A) PROVE r[A] = p[A]
      OBVIOUS
    <3>1. \A s \in SUBSET A : r[s] = p[s]
      BY <1>1, FoldsUnique
    <3> QED
      BY <3>1
  <2>4. \E v : \E p : Folds(p, step, base, A) /\ v = p[A]
    BY <2>2
  <2>5. \E p : Folds(p, step, base, A) /\ FoldOf(step, base, A) = p[A]
    BY <2>4 DEF FoldOf
  <2> QED
    BY <2>3, <2>5
<1>3. r[{}] = base
  BY <1>1 DEF Folds
<1>4. \A A \in SUBSET S : A # {} => r[A] = step[Pick(A)][r[A \ {Pick(A)}]]
  BY <1>1 DEF Folds
<1> DEFINE Good == {A \in SUBSET S : \A x \in A : r[A] = step[x][r[A \ {x}]]}
<1>5. ASSUME NEW A \in SUBSET S, \A B \in SUBSET A : B # A => B \in Good
      PROVE  A \in Good
  <2> SUFFICES ASSUME NEW x \in A PROVE r[A] = step[x][r[A \ {x}]]
    OBVIOUS
  <2> DEFINE p == Pick(A)
  <2>1. p \in A
    BY PickIn
  <2>2. r[A] = step[p][r[A \ {p}]]
    BY <1>4
  <2> HIDE DEF p
  <2>3. CASE x = p
    BY <2>2, <2>3
  <2>4. CASE x # p
    <3>1. r[A \ {p}] = step[x][r[(A \ {p}) \ {x}]]
      <4>1. A \ {p} \in Good
        BY <1>5, <2>1
      <4> QED
        BY <2>4, <4>1
    <3>2. r[A \ {x}] = step[p][r[(A \ {x}) \ {p}]]
      <4>1. A \ {x} \in Good
        BY <1>5
      <4> QED
        BY <2>1, <2>4, <4>1
    <3>3. (A \ {p}) \ {x} = (A \ {x}) \ {p}
      OBVIOUS
    <3>4. r[(A \ {p}) \ {x}] \in V
      BY <1>1
    <3> DEFINE w == r[(A \ {p}) \ {x}]
    <3>5. step[p][step[x][w]] = step[x][step[p][w]]
      <4>1. p \in S /\ x \in S
        BY <2>1
      <4> HIDE DEF w
      <4> QED
        BY <3>4, <4>1 DEF w, Commute
    <3>6. r[A] = step[p][step[x][w]]
      BY <2>2, <3>1
    <3>7. step[x][r[A \ {x}]] = step[x][step[p][w]]
      BY <3>2, <3>3
    <3> QED
      BY <3>5, <3>6, <3>7
  <2> QED
    BY <2>3, <2>4
<1>6. S \in Good
  <2> HIDE DEF Good
  <2>1. \A A \in SUBSET S : (\A B \in SUBSET A : B # A => B \in Good) => A \in Good
    BY <1>5
  <2>2. \A A \in SUBSET S : A \in Good
    BY <2>1, FiniteInduction
  <2> QED
    BY <2>2
<1>7. \A x \in S : r[S] = step[x][r[S \ {x}]]
  BY <1>6
<1> QED
  BY <1>1, <1>2, <1>3, <1>7

-----------------------------------------------------------------------------
(* Sums of contributions.                                                  *)

Columns == {"count", "success", "failed", "tokens"}
Vectors == [Columns -> Int]

LEMMA PlusTyped ==
  ASSUME NEW a, NEW v, \A c \in Columns : a[c] \in Int /\ v[c] \in Int
  PROVE  Plus(a, v) \in Vectors /\ \A c \in Columns : Plus(a, v)[c] = a[c] + v[c]
BY DEF Plus, Vectors, Columns

LEMMA ZeroTyped == Zero \in Vectors /\ \A c \in Columns : Zero[c] = 0
BY DEF Zero, Vectors, Columns

LEMMA SameVector ==
  ASSUME NEW a \in Vectors, NEW v \in Vectors, \A c \in Columns : a[c] = v[c]
  PROVE  a = v
BY DEF Vectors

\* The sum of the vectors f[x] for the x in S.
Adding(f) == [x \in DOMAIN f |-> [v \in Vectors |-> Plus(f[x], v)]]
SumOf(f, S) == FoldOf(Adding(f), Zero, S)

Summable(f, S) == S \subseteq DOMAIN f /\ \A x \in S : \A c \in Columns : f[x][c] \in Int

LEMMA AddingTyped ==
  ASSUME NEW f, NEW S, Summable(f, S)
  PROVE  /\ Commute(Adding(f), S, Vectors)
         /\ \A x \in S : \A v \in Vectors : Adding(f)[x][v] = Plus(f[x], v)
<1>1. \A v \in Vectors : \A c \in Columns : v[c] \in Int
  BY DEF Vectors
<1>2. \A x \in S : \A v \in Vectors : Plus(f[x], v) \in Vectors
      /\ \A c \in Columns : Plus(f[x], v)[c] = f[x][c] + v[c]
  BY <1>1, PlusTyped DEF Summable
<1>3. \A x \in S : Adding(f)[x] = [v \in Vectors |-> Plus(f[x], v)]
  BY DEF Adding, Summable
<1>4. \A x \in S : Adding(f)[x] \in [Vectors -> Vectors]
  BY <1>2, <1>3
<1>5. \A x \in S : \A v \in Vectors : Adding(f)[x][v] = Plus(f[x], v)
  BY <1>3
<1>6. ASSUME NEW x \in S, NEW y \in S, NEW v \in Vectors
      PROVE  Adding(f)[x][Adding(f)[y][v]] = Adding(f)[y][Adding(f)[x][v]]
  <2> DEFINE a == Plus(f[x], Plus(f[y], v))
             b == Plus(f[y], Plus(f[x], v))
  <2>1. a \in Vectors /\ \A c \in Columns : a[c] = f[x][c] + (f[y][c] + v[c])
    BY <1>2
  <2>2. b \in Vectors /\ \A c \in Columns : b[c] = f[y][c] + (f[x][c] + v[c])
    BY <1>2
  <2>3. \A c \in Columns : f[x][c] \in Int /\ f[y][c] \in Int /\ v[c] \in Int
    BY <1>1 DEF Summable
  <2> HIDE DEF a, b
  <2>4. \A c \in Columns : a[c] = b[c]
    BY <2>1, <2>2, <2>3
  <2>5. a = b
    BY <2>1, <2>2, <2>4, SameVector
  <2> QED
    BY <1>2, <1>5, <2>5 DEF a, b
<1> QED
  BY <1>4, <1>5, <1>6 DEF Commute

LEMMA SumRule ==
  ASSUME NEW f, NEW S, IsFiniteSet(S), Summable(f, S)
  PROVE  /\ SumOf(f, {}) = Zero
         /\ SumOf(f, S) \in Vectors
         /\ \A x \in S : SumOf(f, S) = Plus(f[x], SumOf(f, S \ {x}))
<1> DEFINE g == Adding(f)
<1>1. Commute(g, S, Vectors) /\ \A x \in S : \A v \in Vectors : g[x][v] = Plus(f[x], v)
  BY AddingTyped
<1>2. Zero \in Vectors
  BY ZeroTyped
<1> HIDE DEF g
<1>3. /\ FoldOf(g, Zero, {}) = Zero
      /\ FoldOf(g, Zero, S) \in Vectors
      /\ \A x \in S : FoldOf(g, Zero, S) = g[x][FoldOf(g, Zero, S \ {x})]
  BY <1>1, <1>2, FoldRule
<1>4. ASSUME NEW x \in S PROVE FoldOf(g, Zero, S \ {x}) \in Vectors
  <2> DEFINE T == S \ {x}
  <2>1. IsFiniteSet(T)
    BY FS_Subset
  <2>2. Commute(g, T, Vectors)
    BY <1>1 DEF Commute
  <2> HIDE DEF T
  <2>3. FoldOf(g, Zero, T) \in Vectors
    BY <1>2, <2>1, <2>2, FoldRule
  <2> QED
    BY <2>3 DEF T
<1> QED
  BY <1>1, <1>3, <1>4 DEF SumOf, g

\* The fold of the community modules is this sum.
Adds(r, f, S) == r = [s \in SUBSET S |-> IF s = {} THEN Zero
  ELSE Plus(f[Pick(s)], r[s \ {Pick(s)}])]

LEMMA AddsIsSum ==
  ASSUME NEW f, NEW S, IsFiniteSet(S), Summable(f, S)
  PROVE  /\ \E r : Adds(r, f, S)
         /\ \A r : Adds(r, f, S) => r[S] = SumOf(f, S)
<1> DEFINE g == Adding(f)
<1>1. /\ \A x \in S : g[x] \in [Vectors -> Vectors]
      /\ \A x \in S : \A v \in Vectors : g[x][v] = Plus(f[x], v)
  BY AddingTyped DEF Commute
<1>2. Zero \in Vectors
  BY ZeroTyped
<1> HIDE DEF g
<1>3. PICK q \in [SUBSET S -> Vectors] : Folds(q, g, Zero, S)
  BY <1>1, <1>2, FoldsExist
<1>4. \A s \in SUBSET S : q[s] = IF s = {} THEN Zero ELSE Plus(f[Pick(s)], q[s \ {Pick(s)}])
  <2> SUFFICES ASSUME NEW s \in SUBSET S
               PROVE q[s] = IF s = {} THEN Zero ELSE Plus(f[Pick(s)], q[s \ {Pick(s)}])
    OBVIOUS
  <2>1. q[s] = IF s = {} THEN Zero ELSE g[Pick(s)][q[s \ {Pick(s)}]]
    BY <1>3 DEF Folds
  <2>2. s # {} => Pick(s) \in S /\ q[s \ {Pick(s)}] \in Vectors
    BY PickIn
  <2> QED
    BY <1>1, <2>1, <2>2
<1>5. Adds(q, f, S)
  BY <1>4 DEF Adds
<1>6. ASSUME NEW r, Adds(r, f, S) PROVE r[S] = q[S]
  <2> DEFINE Good == {s \in SUBSET S : r[s] = q[s]}
  <2>1. ASSUME NEW A \in SUBSET S, \A B \in SUBSET A : B # A => B \in Good
        PROVE  A \in Good
    <3>1. r[A] = IF A = {} THEN Zero ELSE Plus(f[Pick(A)], r[A \ {Pick(A)}])
      BY <1>6 DEF Adds
    <3>2. A # {} => r[A \ {Pick(A)}] = q[A \ {Pick(A)}]
      <4>1. A # {} => Pick(A) \in A
        BY PickIn
      <4> QED
        BY <2>1, <4>1
    <3> QED
      BY <1>4, <3>1, <3>2
  <2> HIDE DEF Good
  <2>2. \A A \in SUBSET S : (\A B \in SUBSET A : B # A => B \in Good) => A \in Good
    BY <2>1
  <2>3. \A A \in SUBSET S : A \in Good
    BY <2>2, FiniteInduction
  <2> QED
    BY <2>3 DEF Good
<1>7. SumOf(f, S) = q[S]
  <2>1. \E v : \E r : Folds(r, g, Zero, S) /\ v = r[S]
    BY <1>3
  <2>2. \E r : Folds(r, g, Zero, S) /\ SumOf(f, S) = r[S]
    BY <2>1 DEF SumOf, FoldOf, g
  <2>3. \A r : Folds(r, g, Zero, S) => q[S] = r[S]
    <3> SUFFICES ASSUME NEW r, Folds(r, g, Zero, S) PROVE q[S] = r[S]
      OBVIOUS
    <3>1. \A s \in SUBSET S : q[s] = r[s]
      BY <1>3, FoldsUnique
    <3> QED
      BY <3>1
  <2> QED
    BY <2>2, <2>3
<1> QED
  BY <1>5, <1>6, <1>7

LEMMA TotalIsSum ==
  ASSUME NEW S, IsFiniteSet(S), S \subseteq Events, NEW ev, \A e \in S : ev[e] \in Rows
  PROVE  /\ Summable([e \in Events |-> Contribution(ev[e])], S)
         /\ Total(S, ev) = SumOf([e \in Events |-> Contribution(ev[e])], S)
<1> DEFINE f == [e \in Events |-> Contribution(ev[e])]
<1>1. Summable(f, S)
  <2> SUFFICES ASSUME NEW e \in S PROVE \A c \in Columns : f[e][c] \in Int
    BY DEF Summable
  <2>1. f[e] = Contribution(ev[e]) /\ ev[e] \in Rows
    OBVIOUS
  <2>2. ev[e].tokens \in Int
    <3> HIDE DEF f
    <3>1. Tokens \subseteq Int
      BY InputAssumption
    <3> QED
      BY <2>1, <3>1 DEF Rows
  <2> HIDE DEF f
  <2> QED
    BY <2>1, <2>2 DEF Contribution, Columns
<1>2. \A s \in SUBSET S : s # {} => f[Pick(s)] = Contribution(ev[Pick(s)])
  BY PickIn
<1> HIDE DEF f
<1>3. /\ \E r : Adds(r, f, S)
      /\ \A r : Adds(r, f, S) => r[S] = SumOf(f, S)
  BY <1>1, AddsIsSum
<1> DEFINE T(r) == r = [s \in SUBSET S |-> IF s = {} THEN Zero
                                           ELSE Plus(Contribution(ev[CHOOSE x \in s : TRUE]),
                                                     r[s \ {CHOOSE x \in s : TRUE}])]
<1>4. \A r : Adds(r, f, S) <=> T(r)
  BY <1>2 DEF Adds, Pick
<1>5. Total(S, ev) = (CHOOSE r : T(r))[S]
  BY DEF Total, FoldSet, MapThenFoldSet
<1> HIDE DEF T
<1>6. \E r : T(r)
  BY <1>3, <1>4
<1>7. T(CHOOSE r : T(r))
  BY <1>6
<1> QED
  BY <1>1, <1>3, <1>4, <1>5, <1>7 DEF f

LEMMA RowsSumIsSum ==
  ASSUME NEW S, IsFiniteSet(S), Summable(rollup, S)
  PROVE  FoldSet(LAMBDA b, acc : Plus(rollup[b], acc), Zero, S) = SumOf(rollup, S)
<1>3. /\ \E r : Adds(r, rollup, S)
      /\ \A r : Adds(r, rollup, S) => r[S] = SumOf(rollup, S)
  BY AddsIsSum
<1> DEFINE T(r) == r = [s \in SUBSET S |-> IF s = {} THEN Zero
                                           ELSE Plus(rollup[CHOOSE x \in s : TRUE],
                                                     r[s \ {CHOOSE x \in s : TRUE}])]
<1>4. \A r : Adds(r, rollup, S) <=> T(r)
  BY DEF Adds, Pick
<1>5. FoldSet(LAMBDA b, acc : Plus(rollup[b], acc), Zero, S) = (CHOOSE r : T(r))[S]
  BY DEF FoldSet, MapThenFoldSet
<1> HIDE DEF T
<1>6. T(CHOOSE r : T(r))
  BY <1>3, <1>4
<1> QED
  BY <1>3, <1>4, <1>5, <1>6

\* Total over a set of events whose rows are known.
LEMMA TotalRule ==
  ASSUME NEW S, IsFiniteSet(S), S \subseteq Events, NEW ev, \A e \in S : ev[e] \in Rows
  PROVE  /\ Total({}, ev) = Zero
         /\ Total(S, ev) \in Vectors
         /\ \A x \in S : Total(S, ev) = Plus(Contribution(ev[x]), Total(S \ {x}, ev))
<1> DEFINE f == [e \in Events |-> Contribution(ev[e])]
<1>1. \A T \in SUBSET S : Summable(f, T) /\ Total(T, ev) = SumOf(f, T)
  <2> SUFFICES ASSUME NEW T \in SUBSET S PROVE Summable(f, T) /\ Total(T, ev) = SumOf(f, T)
    OBVIOUS
  <2>1. IsFiniteSet(T) /\ T \subseteq Events /\ \A e \in T : ev[e] \in Rows
    BY FS_Subset
  <2> QED
    BY <2>1, TotalIsSum
<1>2. \A x \in S : f[x] = Contribution(ev[x])
  OBVIOUS
<1> HIDE DEF f
<1>3. /\ SumOf(f, {}) = Zero
      /\ SumOf(f, S) \in Vectors
      /\ \A x \in S : SumOf(f, S) = Plus(f[x], SumOf(f, S \ {x}))
  BY <1>1, SumRule
<1> QED
  BY <1>1, <1>2, <1>3

LEMMA ContributionIs ==
  ASSUME NEW row \in Rows
  PROVE  LET c == Contribution(row)
         IN  /\ c.count = 1 /\ c.success \in Nat /\ c.failed \in Nat /\ c.tokens \in Nat
             /\ c.count = c.success + c.failed
             /\ IF row.status = "success" THEN c.failed = 0 ELSE c.success = 0
<1>1. row.tokens \in Nat
  <2>1. Tokens \subseteq Nat
    BY InputAssumption
  <2> QED
    BY <2>1 DEF Rows
<1> QED
  BY <1>1 DEF Contribution

LEMMA PlusIs ==
  ASSUME NEW a, NEW v,
         a.count \in Int, a.success \in Int, a.failed \in Int, a.tokens \in Int,
         v.count \in Int, v.success \in Int, v.failed \in Int, v.tokens \in Int
  PROVE  /\ Plus(a, v) \in Vectors
         /\ Plus(a, v).count = a.count + v.count
         /\ Plus(a, v).success = a.success + v.success
         /\ Plus(a, v).failed = a.failed + v.failed
         /\ Plus(a, v).tokens = a.tokens + v.tokens
BY DEF Plus, Vectors, Columns

LEMMA VectorIs ==
  ASSUME NEW v \in Vectors
  PROVE  v.count \in Int /\ v.success \in Int /\ v.failed \in Int /\ v.tokens \in Int
BY DEF Vectors, Columns

LEMMA EqualVectors ==
  ASSUME NEW a \in Vectors, NEW v \in Vectors,
         a.count = v.count, a.success = v.success, a.failed = v.failed, a.tokens = v.tokens
  PROVE  a = v
BY SameVector DEF Columns

\* The sum counts the events and agrees with itself.
LEMMA TotalIs ==
  ASSUME NEW S, IsFiniteSet(S), S \subseteq Events, NEW ev, \A e \in S : ev[e] \in Rows
  PROVE  LET t == Total(S, ev)
         IN  /\ t \in Vectors
             /\ t.count = Cardinality(S)
             /\ t.count \in Nat /\ t.success \in Nat /\ t.failed \in Nat /\ t.tokens \in Nat
             /\ t.count = t.success + t.failed
             /\ (\A e \in S : ev[e].status = "success") => t.failed = 0
             /\ (\A e \in S : ev[e].status # "success") => t.success = 0
<1> DEFINE Fine(T) == LET t == Total(T, ev)
                      IN  /\ t \in Vectors
                          /\ t.count = Cardinality(T)
                          /\ t.count \in Nat /\ t.success \in Nat /\ t.failed \in Nat
                          /\ t.tokens \in Nat
                          /\ t.count = t.success + t.failed
                          /\ (\A e \in T : ev[e].status = "success") => t.failed = 0
                          /\ (\A e \in T : ev[e].status # "success") => t.success = 0
           Good == {T \in SUBSET S : Fine(T)}
<1>1. ASSUME NEW A \in SUBSET S, \A B \in SUBSET A : B # A => B \in Good
      PROVE  A \in Good
  <2>1. IsFiniteSet(A) /\ A \subseteq Events /\ \A e \in A : ev[e] \in Rows
    BY FS_Subset
  <2>2. CASE A = {}
    <3>1. Total(A, ev) = Zero
      BY <2>1, <2>2, TotalRule
    <3>2. Cardinality(A) = 0
      BY <2>2, FS_EmptySet
    <3> QED
      BY <3>1, <3>2, ZeroTyped DEF Zero
  <2>3. CASE A # {}
    <3>1. PICK x \in A : TRUE
      BY <2>3
    <3> DEFINE B == A \ {x}
               b == Total(B, ev)
               c == Contribution(ev[x])
    <3>2. Fine(B)
      BY <1>1
    <3>3. Total(A, ev) = Plus(c, b)
      BY <2>1, TotalRule
    <3>4. Cardinality(A) = Cardinality(B) + 1
      <4>1. IsFiniteSet(B) /\ x \notin B /\ A = B \cup {x}
        BY <2>1, FS_Subset
      <4> QED
        BY <4>1, FS_AddElement
    <3>5. /\ c.count = 1 /\ c.success \in Nat /\ c.failed \in Nat /\ c.tokens \in Nat
          /\ c.count = c.success + c.failed
          /\ IF ev[x].status = "success" THEN c.failed = 0 ELSE c.success = 0
      BY <2>1, ContributionIs
    <3> HIDE DEF c
    <3>6. /\ b \in Vectors
          /\ b.count = Cardinality(B)
          /\ b.count \in Nat /\ b.success \in Nat /\ b.failed \in Nat /\ b.tokens \in Nat
          /\ b.count = b.success + b.failed
          /\ (\A e \in B : ev[e].status = "success") => b.failed = 0
          /\ (\A e \in B : ev[e].status # "success") => b.success = 0
      BY <3>2
    <3> DEFINE a == Total(A, ev)
    <3> HIDE DEF b
    <3>7. /\ a \in Vectors
          /\ a.count = c.count + b.count
          /\ a.success = c.success + b.success
          /\ a.failed = c.failed + b.failed
          /\ a.tokens = c.tokens + b.tokens
      BY <3>3, <3>5, <3>6, PlusIs
    <3> HIDE DEF a
    <3>8. (\A e \in A : ev[e].status = "success") => a.failed = 0
      BY <3>5, <3>6, <3>7
    <3>9. (\A e \in A : ev[e].status # "success") => a.success = 0
      BY <3>5, <3>6, <3>7
    <3>10. a.count = Cardinality(A)
      <4>1. a.count = 1 + Cardinality(B) /\ Cardinality(B) \in Nat
        BY <3>5, <3>6, <3>7
      <4> QED
        BY <3>4, <4>1
    <3>11. a.count \in Nat /\ a.success \in Nat /\ a.failed \in Nat /\ a.tokens \in Nat
      <4>1. \A m, n \in Nat : m + n \in Nat
        OBVIOUS
      <4>2. c.count \in Nat
        BY <3>5
      <4> QED
        BY <3>5, <3>6, <3>7, <4>1, <4>2
    <3>12. a.count = a.success + a.failed
      BY <3>5, <3>6, <3>7
    <3> QED
      BY <3>7, <3>8, <3>9, <3>10, <3>11, <3>12 DEF a
  <2> QED
    BY <2>2, <2>3
<1> HIDE DEF Good
<1>2. \A A \in SUBSET S : (\A B \in SUBSET A : B # A => B \in Good) => A \in Good
  BY <1>1
<1>3. \A A \in SUBSET S : A \in Good
  BY <1>2, FiniteInduction
<1> QED
  BY <1>3 DEF Good

LEMMA TotalSame ==
  ASSUME NEW S, IsFiniteSet(S), S \subseteq Events, NEW ev, NEW fv,
         \A e \in S : ev[e] \in Rows /\ fv[e] = ev[e]
  PROVE  Total(S, fv) = Total(S, ev)
<1> DEFINE Good == {T \in SUBSET S : Total(T, fv) = Total(T, ev)}
<1>1. ASSUME NEW A \in SUBSET S, \A B \in SUBSET A : B # A => B \in Good
      PROVE  A \in Good
  <2>1. IsFiniteSet(A) /\ A \subseteq Events
    BY FS_Subset
  <2>2. \A e \in A : ev[e] \in Rows /\ fv[e] \in Rows
    OBVIOUS
  <2>3. Total({}, ev) = Zero
        /\ \A x \in A : Total(A, ev) = Plus(Contribution(ev[x]), Total(A \ {x}, ev))
    BY <2>1, <2>2, TotalRule
  <2>4. Total({}, fv) = Zero
        /\ \A x \in A : Total(A, fv) = Plus(Contribution(fv[x]), Total(A \ {x}, fv))
    BY <2>1, <2>2, TotalRule
  <2>5. ASSUME NEW x \in A PROVE Total(A \ {x}, fv) = Total(A \ {x}, ev)
    BY <1>1
  <2>6. CASE A = {}
    BY <2>3, <2>4, <2>6
  <2>7. CASE A # {}
    BY <2>3, <2>4, <2>5, <2>7
  <2> QED
    BY <2>6, <2>7
<1> HIDE DEF Good
<1>2. \A A \in SUBSET S : (\A B \in SUBSET A : B # A => B \in Good) => A \in Good
  BY <1>1
<1>3. S \in Good
  BY <1>2, FiniteInduction
<1> QED
  BY <1>3 DEF Good

LEMMA TotalUnion ==
  ASSUME NEW S, IsFiniteSet(S), S \subseteq Events, NEW T, IsFiniteSet(T), T \subseteq Events,
         S \cap T = {}, NEW ev, \A e \in S \cup T : ev[e] \in Rows
  PROVE  Total(S \cup T, ev) = Plus(Total(S, ev), Total(T, ev))
<1> DEFINE Good == {U \in SUBSET S : Total(U \cup T, ev) = Plus(Total(U, ev), Total(T, ev))}
<1>0. \A U \in SUBSET (S \cup T) : IsFiniteSet(U) /\ U \subseteq Events
      /\ \A e \in U : ev[e] \in Rows
  <2>1. IsFiniteSet(S \cup T)
    BY FS_Union
  <2> QED
    BY <2>1, FS_Subset
<1>a. \A U \in SUBSET (S \cup T) : Total(U, ev) \in Vectors
  BY <1>0, TotalRule
<1>1. ASSUME NEW A \in SUBSET S, \A B \in SUBSET A : B # A => B \in Good
      PROVE  A \in Good
  <2> DEFINE t == Total(T, ev)
             a == Total(A, ev)
             u == Total(A \cup T, ev)
  <2>1. t \in Vectors /\ a \in Vectors /\ u \in Vectors
    BY <1>a
  <2>2. CASE A = {}
    <3>1. A \cup T = T /\ a = Zero
      <4>1. A \cup T = T
        BY <2>2
      <4>2. a = Zero
        BY <2>2, <1>0, TotalRule
      <4> QED
        BY <4>1, <4>2
    <3>2. Plus(a, t) \in Vectors /\ \A c \in Columns : Plus(a, t)[c] = a[c] + t[c]
      BY <2>1, PlusTyped DEF Vectors
    <3> HIDE DEF t, a
    <3>3. \A c \in Columns : Plus(a, t)[c] = t[c]
      BY <2>1, <3>1, <3>2, ZeroTyped DEF Vectors
    <3>4. Plus(a, t) = t
      BY <2>1, <3>2, <3>3, SameVector
    <3> QED
      BY <3>1, <3>4 DEF t, a
  <2>3. CASE A # {}
    <3>1. PICK x \in A : TRUE
      BY <2>3
    <3> DEFINE B == A \ {x}
               k == Contribution(ev[x])
               b == Total(B, ev)
               v == Total(B \cup T, ev)
    <3>2. v = Plus(b, t)
      BY <1>1
    <3>3. a = Plus(k, b)
      BY <1>0, TotalRule
    <3>4. u = Plus(k, v)
      <4>1. (A \cup T) \ {x} = B \cup T
        OBVIOUS
      <4>2. Total(A \cup T, ev) = Plus(Contribution(ev[x]), Total((A \cup T) \ {x}, ev))
        <5> DEFINE U == A \cup T
        <5>1. IsFiniteSet(U) /\ U \subseteq Events /\ (\A e \in U : ev[e] \in Rows) /\ x \in U
          BY <1>0
        <5> HIDE DEF U
        <5>2. Total(U, ev) = Plus(Contribution(ev[x]), Total(U \ {x}, ev))
          BY <5>1, TotalRule
        <5> QED
          BY <5>2 DEF U
      <4> QED
        BY <4>1, <4>2
    <3>5. b \in Vectors /\ v \in Vectors
      BY <1>a
    <3>6. \A c \in Columns : k[c] \in Int
      BY ContributionIs DEF Columns
    <3> HIDE DEF t, a, u, k, b, v
    <3>7. \A c \in Columns : /\ t[c] \in Int /\ b[c] \in Int /\ v[c] \in Int /\ a[c] \in Int
      BY <2>1, <3>5 DEF Vectors
    <3>8. \A c \in Columns : v[c] = b[c] + t[c]
      BY <3>2, <3>7, PlusTyped
    <3>9. \A c \in Columns : a[c] = k[c] + b[c]
      BY <3>3, <3>6, <3>7, PlusTyped
    <3>10. \A c \in Columns : u[c] = k[c] + v[c]
      BY <3>4, <3>6, <3>7, PlusTyped
    <3>11. Plus(a, t) \in Vectors /\ \A c \in Columns : Plus(a, t)[c] = a[c] + t[c]
      BY <3>7, PlusTyped
    <3>12. \A c \in Columns : u[c] = Plus(a, t)[c]
      BY <3>6, <3>7, <3>8, <3>9, <3>10, <3>11
    <3>13. u = Plus(a, t)
      BY <2>1, <3>11, <3>12, SameVector
    <3> QED
      BY <3>13 DEF u, a, t
  <2> QED
    BY <2>2, <2>3
<1> HIDE DEF Good
<1>2. \A A \in SUBSET S : (\A B \in SUBSET A : B # A => B \in Good) => A \in Good
  BY <1>1
<1>3. S \in Good
  BY <1>2, FiniteInduction
<1> QED
  BY <1>3 DEF Good

-----------------------------------------------------------------------------
(* Types.  A transaction has what its next statement needs.                *)

Pcs == {"idle", "read", "upsert", "minus_read", "minus_write", "plus_read", "plus_write",
        "commit"}

\* Rows that a transaction has written.
PartialRollups == UNION {[D -> Sums] : D \in SUBSET Buckets}

Transactions ==
  [pc : Pcs, ev : Events \cup {NoRow}, row : Rows \cup {NoRow}, prev : Rows \cup {NoRow},
   seen : Sums \cup {NoRow}, made : PartialRollups]

\* What a transaction knows at each of its statements.
Shaped(t) ==
  /\ t \in Transactions
  /\ t.pc # "idle" => t.row \in Rows /\ t.ev \in Events \ Legacy
  /\ t.pc \in {"minus_read", "minus_write"} => t.prev # NoRow
  /\ t.pc \in {"idle", "read", "upsert", "minus_read", "minus_write"} => t.made = <<>>
  /\ t.pc \in {"plus_read", "plus_write"} /\ t.prev = NoRow => t.made = <<>>

NatVectors == {v \in Vectors : \A c \in Columns : v[c] \in Nat}

RebuildTyped ==
  /\ rebuild = [pc |-> rebuild.pc, sums |-> rebuild.sums]
  /\ rebuild.pc \in {"ready", "read", "write", "complete", "failed"}
  /\ rebuild.pc = "ready" => births = 0
  /\ rebuild.pc = "write" => /\ DOMAIN rebuild.sums \subseteq Buckets
                             /\ \A b \in DOMAIN rebuild.sums : rebuild.sums[b] \in NatVectors

AskedTyped ==
  /\ asked \in [Events -> SUBSET {"proxy", "upload"}]
  /\ \A e \in Legacy : asked[e] = {}
  /\ \A e \in Stored : e \in Legacy \/ asked[e] # {}
  /\ \A w \in Writers : Open(w) => asked[tx[w].ev] # {}

Typed ==
  /\ event \in [Events -> Rows \cup {NoRow}]
  /\ rollup \in [Buckets -> Sums \cup {NoRow}]
  /\ tx \in [Writers -> Transactions] /\ \A w \in Writers : Shaped(tx[w])
  /\ AskedTyped
  /\ RebuildTyped
  /\ births \in 0 .. 1
  /\ overlap \in BOOLEAN

LEMMA PartialIs ==
  ASSUME NEW m
  PROVE  m \in PartialRollups <=> /\ DOMAIN m \subseteq Buckets
                                  /\ m \in [DOMAIN m -> Sums]
BY DEF PartialRollups

LEMMA NothingMade == <<>> \in PartialRollups /\ DOMAIN <<>> = {}
<1>1. DOMAIN <<>> = {} /\ <<>> \in [{} -> Sums]
  OBVIOUS
<1> QED
  BY <1>1 DEF PartialRollups

LEMMA MaxIs == \A n \in Int : Max({0, n}) = IF n > 0 THEN n ELSE 0
<1> SUFFICES ASSUME NEW n \in Int PROVE Max({0, n}) = IF n > 0 THEN n ELSE 0
  OBVIOUS
<1> DEFINE m == IF n > 0 THEN n ELSE 0
<1>1. m \in {0, n} /\ \A y \in {0, n} : m >= y
  OBVIOUS
<1>2. \A x \in {0, n} : (\A y \in {0, n} : x >= y) => x = m
  OBVIOUS
<1> QED
  BY <1>1, <1>2 DEF Max

LEMMA ClampIs ==
  ASSUME NEW a, a.count \in Int, a.success \in Int, a.failed \in Int, a.tokens \in Int,
         NEW id \in Nat
  PROVE  /\ Clamp(a, id) \in Sums
         /\ Clamp(a, id).count = IF a.count > 0 THEN a.count ELSE 0
         /\ Clamp(a, id).success = IF a.success > 0 THEN a.success ELSE 0
         /\ Clamp(a, id).failed = IF a.failed > 0 THEN a.failed ELSE 0
         /\ Clamp(a, id).tokens = IF a.tokens > 0 THEN a.tokens ELSE 0
         /\ Clamp(a, id).id = id
<1>1. /\ Max({0, a.count}) = IF a.count > 0 THEN a.count ELSE 0
      /\ Max({0, a.success}) = IF a.success > 0 THEN a.success ELSE 0
      /\ Max({0, a.failed}) = IF a.failed > 0 THEN a.failed ELSE 0
      /\ Max({0, a.tokens}) = IF a.tokens > 0 THEN a.tokens ELSE 0
  BY MaxIs
<1> QED
  BY <1>1 DEF Clamp, Sums

LEMMA BucketOfTyped == \A row \in Rows : BucketOf(row) \in Buckets
<1> SUFFICES ASSUME NEW row \in Rows PROVE BucketOf(row) \in Buckets
  OBVIOUS
<1>1. row.at \in 0 .. 2 * Days - 1 /\ row.kind \in Kinds /\ row.status \in Statuses
  BY DEF Rows, Moments
<1>2. row.at \div 2 \in 0 .. Days - 1
  BY <1>1, InputAssumption
<1> QED
  BY <1>1, <1>2 DEF BucketOf, Buckets, Day

\* What one statement of a transaction writes.
MadeWith(m, b, s) == Over([x \in {b} |-> s], m)

LEMMA MadeOne ==
  ASSUME NEW m \in PartialRollups, NEW b \in Buckets, NEW s \in Sums
  PROVE  /\ MadeWith(m, b, s) \in PartialRollups
         /\ DOMAIN MadeWith(m, b, s) = DOMAIN m \cup {b}
         /\ MadeWith(m, b, s)[b] = s
         /\ \A c \in DOMAIN m : c # b => MadeWith(m, b, s)[c] = m[c]
<1> DEFINE n == MadeWith(m, b, s)
<1>1. n = [x \in {b} \cup DOMAIN m |-> IF x = b THEN s ELSE m[x]]
  BY DEF MadeWith, Over
<1>2. DOMAIN m \subseteq Buckets /\ m \in [DOMAIN m -> Sums]
  BY PartialIs
<1>3. DOMAIN n = DOMAIN m \cup {b} /\ n \in [DOMAIN n -> Sums]
  BY <1>1, <1>2
<1>4. n[b] = s /\ \A c \in DOMAIN m : c # b => n[c] = m[c]
  BY <1>1
<1>5. n \in PartialRollups
  <2> HIDE DEF n
  <2> QED
    BY <1>2, <1>3, PartialIs
<1> QED
  BY <1>3, <1>4, <1>5

LEMMA Overlaid ==
  ASSUME NEW m, DOMAIN m \subseteq Buckets, NEW r, DOMAIN r = Buckets
  PROVE  LET n == Over(m, r)
         IN  /\ n = [b \in Buckets |-> n[b]]
             /\ \A b \in Buckets : n[b] = IF b \in DOMAIN m THEN m[b] ELSE r[b]
<1>1. Over(m, r) = [b \in Buckets |-> IF b \in DOMAIN m THEN m[b] ELSE r[b]]
  BY DEF Over
<1> QED
  BY <1>1

LEMMA TypedImpliesTypeOK == Typed => TypeOK
<1> SUFFICES ASSUME Typed PROVE TypeOK
  OBVIOUS
<1>1. ASSUME NEW w \in Writers
      PROVE  /\ tx[w].pc \in Pcs /\ tx[w].prev \in Rows \cup {NoRow}
             /\ tx[w].seen \in Sums \cup {NoRow}
             /\ tx[w].made \in PartialRollups
  <2>1. tx[w] \in Transactions
    BY DEF Typed
  <2> QED
    BY <2>1 DEF Transactions
<1>2. ASSUME NEW w \in Writers
      PROVE  DOMAIN tx[w].made \subseteq Buckets
             /\ \A b \in DOMAIN tx[w].made : tx[w].made[b] \in Sums
  <2>1. DOMAIN tx[w].made \subseteq Buckets /\ tx[w].made \in [DOMAIN tx[w].made -> Sums]
    BY <1>1, PartialIs
  <2> QED
    BY <2>1
<1> QED
  BY <1>1, <1>2 DEF Typed, TypeOK, AskedTyped, RebuildTyped, Pcs

LEMMA InitTyped == Init => Typed
<1> SUFFICES ASSUME Init PROVE Typed
  OBVIOUS
<1>1. NoTx \in Transactions /\ Shaped(NoTx)
  BY NothingMade DEF NoTx, Transactions, Shaped, Pcs
<1>2. NoTx.pc = "idle"
  BY DEF NoTx
<1>3. \A w \in Writers : tx[w] = NoTx
  BY DEF Init
<1>4. AskedTyped
  BY <1>2, <1>3, InputAssumption DEF Init, AskedTyped, Stored, Open
<1>5. RebuildTyped
  BY DEF Init, RebuildTyped
<1>6. tx \in [Writers -> Transactions]
  BY <1>1, <1>3 DEF Init
<1>7. event \in [Events -> Rows \cup {NoRow}]
  BY DEF Init
<1>9. rollup \in [Buckets -> Sums \cup {NoRow}]
  BY DEF Init
<1>a. births = 0 /\ overlap = FALSE
  BY DEF Init
<1>10. births \in 0 .. 1
  BY <1>a
<1>11. overlap \in BOOLEAN
  BY <1>a
<1>8. \A w \in Writers : Shaped(tx[w])
  BY <1>1, <1>3
<1> QED
  BY <1>4, <1>5, <1>6, <1>7, <1>8, <1>9, <1>10, <1>11 DEF Typed

\* A step of one transaction alone.
LEMMA TxStepTyped ==
  ASSUME Typed, NEW w \in Writers, NEW t, tx' = [tx EXCEPT ![w] = t],
         Shaped(t), t.pc # "idle" => asked[t.ev] # {},
         UNCHANGED <<event, rollup, asked, rebuild, births, overlap>>
  PROVE  Typed'
<1>1. \A v \in Writers : tx'[v] = IF v = w THEN t ELSE tx[v]
  BY DEF Typed
<1>2. tx' \in [Writers -> Transactions] /\ \A v \in Writers : Shaped(tx'[v])
  BY <1>1 DEF Typed, Shaped
<1>3. AskedTyped'
  BY <1>1 DEF Typed, AskedTyped, Stored, Open
<1>4. RebuildTyped'
  BY DEF Typed, RebuildTyped
<1> QED
  BY <1>2, <1>3, <1>4 DEF Typed

LEMMA TxFacts ==
  ASSUME Typed, NEW w \in Writers
  PROVE  /\ tx[w] \in Transactions /\ Shaped(tx[w])
         /\ tx[w].pc \in Pcs /\ tx[w].ev \in Events \cup {NoRow} /\ tx[w].row \in Rows \cup {NoRow}
         /\ tx[w].prev \in Rows \cup {NoRow} /\ tx[w].seen \in Sums \cup {NoRow}
         /\ tx[w].made \in PartialRollups
         /\ tx[w].pc # "idle" => /\ tx[w].row \in Rows /\ tx[w].ev \in Events \ Legacy
                                 /\ asked[tx[w].ev] # {}
<1>1. tx[w] \in Transactions /\ Shaped(tx[w])
  BY DEF Typed
<1>2. tx[w].pc # "idle" => asked[tx[w].ev] # {}
  BY DEF Typed, AskedTyped, Open
<1> QED
  BY <1>1, <1>2 DEF Transactions, Shaped

LEMMA TargetTyped ==
  ASSUME Typed, NEW w \in Writers,
         tx[w].pc \in {"minus_read", "minus_write", "plus_read", "plus_write"}
  PROVE  Target(w) \in Buckets
<1>1. tx[w].pc \in {"minus_read", "minus_write"} => tx[w].prev \in Rows
  BY TxFacts DEF Shaped
<1>2. tx[w].row \in Rows
  BY TxFacts
<1> QED
  BY <1>1, <1>2, BucketOfTyped DEF Target

LEMMA VisibleTyped ==
  ASSUME Typed, NEW w \in Writers, NEW b \in Buckets
  PROVE  Visible(w, b) \in Sums \cup {NoRow}
<1>1. tx[w].made \in [DOMAIN tx[w].made -> Sums]
  BY TxFacts, PartialIs
<1> QED
  BY <1>1 DEF Visible, HoldsBucket, Typed

LEMMA DeltaTyped ==
  ASSUME Typed, NEW w \in Writers, tx[w].pc \in {"minus_write", "plus_write"}
  PROVE  /\ Delta(w).count \in Int /\ Delta(w).success \in Int
         /\ Delta(w).failed \in Int /\ Delta(w).tokens \in Int
<1>1. CASE tx[w].pc = "minus_write"
  <2>1. tx[w].prev \in Rows
    BY <1>1, TxFacts DEF Shaped
  <2> DEFINE c == Contribution(tx[w].prev)
  <2>2. c.count \in Nat /\ c.success \in Nat /\ c.failed \in Nat /\ c.tokens \in Nat
    BY <2>1, ContributionIs
  <2>3. Delta(w) = Negated(c)
    BY <1>1 DEF Delta
  <2> HIDE DEF c
  <2> QED
    BY <2>2, <2>3 DEF Negated
<1>2. CASE tx[w].pc = "plus_write"
  <2>1. tx[w].row \in Rows
    BY <1>2, TxFacts
  <2> QED
    BY <1>2, <2>1, ContributionIs DEF Delta
<1> QED
  BY <1>1, <1>2

LEMMA SumsAre ==
  ASSUME NEW s \in Sums
  PROVE  s.id \in Nat /\ s.count \in Nat /\ s.success \in Nat /\ s.failed \in Nat
         /\ s.tokens \in Nat
BY DEF Sums

LEMMA BeginTyped ==
  ASSUME Typed, NEW w \in Writers, NEW e \in Events \ Legacy, NEW row \in Rows,
         NEW who \in {"proxy", "upload"}, Begin(w, e, row, who)
  PROVE  Typed'
<1> DEFINE t == [NoTx EXCEPT !.pc = "read", !.ev = e, !.row = row]
<1>1. t \in Transactions /\ Shaped(t) /\ t.ev = e /\ t.made = <<>>
  BY NothingMade DEF NoTx, Transactions, Shaped, Pcs
<1>2. tx' = [tx EXCEPT ![w] = t] /\ asked' = [asked EXCEPT ![e] = @ \cup {who}]
  BY DEF Begin
<1>3. UNCHANGED <<event, rollup, rebuild, births>> /\ overlap' = (overlap \/ Running)
  BY DEF Begin
<1> HIDE DEF t
<1>4. \A v \in Writers : tx'[v] = IF v = w THEN t ELSE tx[v]
  BY <1>2 DEF Typed
<1>5. tx' \in [Writers -> Transactions] /\ \A v \in Writers : Shaped(tx'[v])
  BY <1>1, <1>2, <1>4 DEF Typed
<1>6. AskedTyped'
  <2>1. asked' \in [Events -> SUBSET {"proxy", "upload"}]
    BY <1>2 DEF Typed, AskedTyped
  <2>2. \A d \in Events : asked[d] \subseteq asked'[d] /\ (d # e => asked'[d] = asked[d])
    BY <1>2 DEF Typed, AskedTyped
  <2>3. asked'[e] # {}
    BY <1>2 DEF Typed, AskedTyped
  <2>4. Stored' = Stored
    BY <1>3 DEF Stored
  <2>5. \A d \in Stored' : d \in Legacy \/ asked'[d] # {}
    BY <2>2, <2>4 DEF Typed, AskedTyped, Stored
  <2>6. \A v \in Writers : tx'[v].pc # "idle" => asked'[tx'[v].ev] # {}
    <3> SUFFICES ASSUME NEW v \in Writers, tx'[v].pc # "idle" PROVE asked'[tx'[v].ev] # {}
      OBVIOUS
    <3>1. CASE v = w
      BY <3>1, <1>1, <1>4, <2>3
    <3>2. CASE v # w
      BY <3>2, <1>4, <2>2, TxFacts
    <3> QED
      BY <3>1, <3>2
  <2>7. \A d \in Legacy : asked'[d] = {}
    BY <2>2, InputAssumption DEF Typed, AskedTyped
  <2> QED
    BY <2>1, <2>5, <2>6, <2>7 DEF AskedTyped, Open
<1>7. RebuildTyped'
  BY <1>3 DEF Typed, RebuildTyped
<1>8. overlap' \in BOOLEAN
  BY <1>3
<1> QED
  BY <1>3, <1>5, <1>6, <1>7, <1>8 DEF Typed

LEMMA ReadPreviousTyped ==
  ASSUME Typed, NEW w \in Writers, ReadPrevious(w) PROVE Typed'
<1> DEFINE t == [tx[w] EXCEPT !.pc = "upsert", !.prev = event[tx[w].ev]]
<1>1. tx' = [tx EXCEPT ![w] = t]
  BY DEF ReadPrevious
<1>2. event[tx[w].ev] \in Rows \cup {NoRow}
  BY TxFacts DEF ReadPrevious, Typed
<1>3. Shaped(t)
  BY <1>2, TxFacts DEF ReadPrevious, Shaped, Transactions, Pcs
<1>4. t.ev = tx[w].ev /\ asked[tx[w].ev] # {}
  BY TxFacts DEF ReadPrevious, Transactions
<1> HIDE DEF t
<1> QED
  BY <1>1, <1>3, <1>4, TxStepTyped DEF ReadPrevious

LEMMA UpsertEventTyped ==
  ASSUME Typed, NEW w \in Writers, UpsertEvent(w) PROVE Typed'
<1> DEFINE t == [tx[w] EXCEPT !.pc = IF tx[w].prev = NoRow THEN "plus_read" ELSE "minus_read"]
<1>1. tx' = [tx EXCEPT ![w] = t]
  BY DEF UpsertEvent
<1>3. Shaped(t)
  BY TxFacts DEF UpsertEvent, Shaped, Transactions, Pcs
<1>4. t.ev = tx[w].ev /\ asked[tx[w].ev] # {}
  BY TxFacts DEF UpsertEvent, Transactions
<1> HIDE DEF t
<1> QED
  BY <1>1, <1>3, <1>4, TxStepTyped DEF UpsertEvent

LEMMA ReadBucketTyped ==
  ASSUME Typed, NEW w \in Writers, ReadBucket(w) PROVE Typed'
<1> DEFINE pc == IF tx[w].pc = "minus_read" THEN "minus_write" ELSE "plus_write"
           t == [tx[w] EXCEPT !.pc = pc, !.seen = Visible(w, Target(w))]
<1>1. tx' = [tx EXCEPT ![w] = t]
  BY DEF ReadBucket
<1>2. Visible(w, Target(w)) \in Sums \cup {NoRow}
  BY TargetTyped, VisibleTyped DEF ReadBucket
<1>3. Shaped(t)
  BY <1>2, TxFacts DEF ReadBucket, Shaped, Transactions, Pcs
<1>4. t.ev = tx[w].ev /\ asked[tx[w].ev] # {}
  BY TxFacts DEF ReadBucket, Transactions
<1> HIDE DEF t
<1> QED
  BY <1>1, <1>3, <1>4, TxStepTyped DEF ReadBucket

\* The three outcomes of applyRollupDelta, and what it writes.
LEMMA WriteBucketIs ==
  ASSUME Typed, NEW w \in Writers, WriteBucket(w)
  PROVE  LET b    == Target(w)
             seen == tx[w].seen
             t    == tx'[w]
         IN  /\ tx[w].pc \in {"minus_write", "plus_write"}
             /\ b \in Buckets
             /\ t \in Transactions
             /\ tx' = [tx EXCEPT ![w] = t]
             /\ t.pc = IF tx[w].pc = "minus_write" THEN "plus_read" ELSE "commit"
             /\ t.ev = tx[w].ev /\ t.row = tx[w].row /\ t.prev = tx[w].prev
             /\ t.seen = tx[w].seen
             /\ \/ seen = NoRow /\ Delta(w).count <= 0 /\ t.made = tx[w].made
                \/ /\ seen = NoRow /\ Delta(w).count > 0 /\ rollup[b] = NoRow
                   /\ t.made = Wrote(w, b, Clamp(Delta(w), births))
                   /\ Clamp(Delta(w), births) \in Sums
                \/ /\ seen # NoRow
                   /\ t.made = Wrote(w, b, Clamp(Plus(seen, Delta(w)), seen.id))
                   /\ Clamp(Plus(seen, Delta(w)), seen.id) \in Sums
<1> DEFINE b == Target(w)
           seen == tx[w].seen
           next == IF tx[w].pc = "minus_write" THEN "plus_read" ELSE "commit"
<1>1. tx[w].pc \in {"minus_write", "plus_write"}
  BY DEF WriteBucket
<1>2. b \in Buckets
  BY <1>1, TargetTyped
<1>3. /\ Delta(w).count \in Int /\ Delta(w).success \in Int
      /\ Delta(w).failed \in Int /\ Delta(w).tokens \in Int
  BY <1>1, DeltaTyped
<1>4. births \in Nat
  BY DEF Typed
<1>5. Clamp(Delta(w), births) \in Sums
  BY <1>3, <1>4, ClampIs
<1>6. seen # NoRow => Clamp(Plus(seen, Delta(w)), seen.id) \in Sums
  <2> SUFFICES ASSUME seen # NoRow PROVE Clamp(Plus(seen, Delta(w)), seen.id) \in Sums
    OBVIOUS
  <2>1. seen \in Sums
    BY TxFacts
  <2> DEFINE d == Delta(w)
             p == Plus(seen, d)
  <2>2. /\ seen.id \in Nat /\ seen.count \in Int /\ seen.success \in Int /\ seen.failed \in Int
        /\ seen.tokens \in Int
    BY <2>1, SumsAre
  <2> HIDE DEF seen, d
  <2>3. p.count \in Int /\ p.success \in Int /\ p.failed \in Int /\ p.tokens \in Int
    BY <1>3, <2>2, PlusIs DEF d
  <2> HIDE DEF p
  <2>4. Clamp(p, seen.id) \in Sums
    BY <2>2, <2>3, ClampIs
  <2> QED
    BY <2>4 DEF p, d
<1>7. tx[w] \in Transactions /\ tx[w].made \in PartialRollups
  BY TxFacts
<1>8. next \in Pcs
  BY DEF Pcs
<1>9. \A s \in Sums : Wrote(w, b, s) \in PartialRollups
  <2> SUFFICES ASSUME NEW s \in Sums PROVE Wrote(w, b, s) \in PartialRollups
    OBVIOUS
  <2> DEFINE m == tx[w].made
             n == Wrote(w, b, s)
  <2>1. n = MadeWith(m, b, s) /\ m \in PartialRollups /\ b \in Buckets
    BY <1>2, <1>7 DEF Wrote, MadeWith
  <2> HIDE DEF b, m, n
  <2>2. n \in PartialRollups
    BY <2>1, MadeOne
  <2> QED
    BY <2>2 DEF n
<1>10. CASE /\ seen = NoRow /\ Delta(w).count <= 0
            /\ tx' = [tx EXCEPT ![w].pc = next]
  <2>1. tx'[w] = [tx[w] EXCEPT !.pc = next] /\ tx' = [tx EXCEPT ![w] = tx'[w]]
    BY <1>10 DEF Typed
  <2> HIDE DEF next
  <2>2. tx'[w] \in Transactions /\ tx'[w].pc = next /\ tx'[w].ev = tx[w].ev
        /\ tx'[w].row = tx[w].row /\ tx'[w].prev = tx[w].prev /\ tx'[w].seen = seen
        /\ tx'[w].made = tx[w].made
    BY <1>7, <1>8, <2>1 DEF Transactions
  <2> QED
    BY <1>1, <1>2, <1>10, <2>1, <2>2 DEF next
<1>11. ASSUME NEW s \in Sums,
              tx' = [tx EXCEPT ![w].pc = next, ![w].made = Wrote(w, b, s)]
       PROVE  /\ tx'[w] \in Transactions /\ tx'[w].pc = next /\ tx'[w].ev = tx[w].ev
              /\ tx'[w].row = tx[w].row /\ tx'[w].prev = tx[w].prev /\ tx'[w].seen = seen
              /\ tx'[w].made = Wrote(w, b, s)
              /\ tx' = [tx EXCEPT ![w] = tx'[w]]
  <2> DEFINE m == Wrote(w, b, s)
  <2>1. m \in PartialRollups
    BY <1>9
  <2>2. tx'[w] = [tx[w] EXCEPT !.pc = next, !.made = m] /\ tx' = [tx EXCEPT ![w] = tx'[w]]
    BY <1>11 DEF Typed
  <2> HIDE DEF next, m
  <2>3. tx'[w] \in Transactions /\ tx'[w].pc = next /\ tx'[w].ev = tx[w].ev
        /\ tx'[w].row = tx[w].row /\ tx'[w].prev = tx[w].prev /\ tx'[w].seen = seen
        /\ tx'[w].made = m
    BY <1>7, <1>8, <2>1, <2>2 DEF Transactions
  <2> QED
    BY <2>2, <2>3 DEF m
<1>12. CASE /\ seen = NoRow /\ Delta(w).count > 0
            /\ rollup[b] = NoRow
            /\ tx' = [tx EXCEPT ![w].pc = next, ![w].made = Wrote(w, b, Clamp(Delta(w), births))]
  <2> DEFINE s == Clamp(Delta(w), births)
  <2>1. s \in Sums
    BY <1>5
  <2> HIDE DEF s
  <2>2. tx' = [tx EXCEPT ![w].pc = next, ![w].made = Wrote(w, b, s)]
    BY <1>12 DEF s
  <2> HIDE DEF next, b, seen
  <2>3. /\ tx'[w] \in Transactions /\ tx'[w].pc = next /\ tx'[w].ev = tx[w].ev
        /\ tx'[w].row = tx[w].row /\ tx'[w].prev = tx[w].prev /\ tx'[w].seen = seen
        /\ tx'[w].made = Wrote(w, b, s)
        /\ tx' = [tx EXCEPT ![w] = tx'[w]]
    BY <2>1, <2>2, <1>11
  <2> QED
    BY <1>1, <1>2, <1>12, <2>1, <2>3 DEF s, next, b, seen
<1>13. CASE /\ seen # NoRow
            /\ tx' = [tx EXCEPT ![w].pc = next,
                                ![w].made = Wrote(w, b, Clamp(Plus(seen, Delta(w)), seen.id))]
  <2> DEFINE s == Clamp(Plus(seen, Delta(w)), seen.id)
  <2>1. s \in Sums
    BY <1>6, <1>13
  <2> HIDE DEF s
  <2>2. tx' = [tx EXCEPT ![w].pc = next, ![w].made = Wrote(w, b, s)]
    BY <1>13 DEF s
  <2> HIDE DEF next, b, seen
  <2>3. /\ tx'[w] \in Transactions /\ tx'[w].pc = next /\ tx'[w].ev = tx[w].ev
        /\ tx'[w].row = tx[w].row /\ tx'[w].prev = tx[w].prev /\ tx'[w].seen = seen
        /\ tx'[w].made = Wrote(w, b, s)
        /\ tx' = [tx EXCEPT ![w] = tx'[w]]
    BY <2>1, <2>2, <1>11
  <2> QED
    BY <1>1, <1>2, <1>13, <2>1, <2>3 DEF s, next, b, seen
<1> QED
  BY <1>10, <1>12, <1>13 DEF WriteBucket

LEMMA WriteBucketTyped ==
  ASSUME Typed, NEW w \in Writers, WriteBucket(w) PROVE Typed'
<1> DEFINE t == tx'[w]
<1>1. /\ tx[w].pc \in {"minus_write", "plus_write"}
      /\ t \in Transactions
      /\ tx' = [tx EXCEPT ![w] = t]
      /\ t.pc = IF tx[w].pc = "minus_write" THEN "plus_read" ELSE "commit"
      /\ t.ev = tx[w].ev /\ t.row = tx[w].row /\ t.prev = tx[w].prev
  BY WriteBucketIs
<1>2. tx[w].row \in Rows /\ tx[w].ev \in Events \ Legacy /\ asked[tx[w].ev] # {}
  BY <1>1, TxFacts
<1>3. tx[w].pc = "minus_write" => tx[w].prev # NoRow
  BY TxFacts DEF Shaped
<1> HIDE DEF t
<1>4. Shaped(t)
  BY <1>1, <1>2, <1>3 DEF Shaped
<1>5. t.pc # "idle" => asked[t.ev] # {}
  BY <1>1, <1>2
<1> QED
  BY <1>1, <1>4, <1>5, TxStepTyped DEF WriteBucket

LEMMA NoTxTyped == NoTx \in Transactions /\ Shaped(NoTx) /\ NoTx.pc = "idle" /\ NoTx.made = <<>>
BY NothingMade DEF NoTx, Transactions, Shaped, Pcs

LEMMA RollbackTyped ==
  ASSUME Typed, NEW w \in Writers, Rollback(w) PROVE Typed'
<1> DEFINE t == NoTx
<1>1. Shaped(t) /\ t.pc = "idle" /\ tx' = [tx EXCEPT ![w] = t]
  BY NoTxTyped DEF Rollback
<1> HIDE DEF t
<1> QED
  BY <1>1, TxStepTyped DEF Rollback

LEMMA OverTyped ==
  ASSUME NEW m \in PartialRollups, rollup \in [Buckets -> Sums \cup {NoRow}]
  PROVE  /\ Over(m, rollup) \in [Buckets -> Sums \cup {NoRow}]
         /\ \A b \in Buckets : Over(m, rollup)[b] = IF b \in DOMAIN m THEN m[b] ELSE rollup[b]
<1>1. DOMAIN m \subseteq Buckets /\ m \in [DOMAIN m -> Sums] /\ DOMAIN rollup = Buckets
  BY PartialIs
<1> DEFINE n == Over(m, rollup)
<1>2. /\ n = [b \in Buckets |-> n[b]]
      /\ \A b \in Buckets : n[b] = IF b \in DOMAIN m THEN m[b] ELSE rollup[b]
  BY <1>1, Overlaid
<1> HIDE DEF n
<1>3. \A b \in Buckets : n[b] \in Sums \cup {NoRow}
  BY <1>1, <1>2
<1> QED
  BY <1>2, <1>3 DEF n

LEMMA CommitTyped ==
  ASSUME Typed, NEW w \in Writers, Commit(w) PROVE Typed'
<1>1. /\ tx[w].row \in Rows /\ tx[w].ev \in Events \ Legacy /\ asked[tx[w].ev] # {}
      /\ tx[w].made \in PartialRollups
  BY TxFacts DEF Commit
<1>2. event' \in [Events -> Rows \cup {NoRow}]
  BY <1>1 DEF Commit, Typed
<1>3. rollup' \in [Buckets -> Sums \cup {NoRow}]
  BY <1>1, OverTyped DEF Commit, Typed
<1>4. \A v \in Writers : tx'[v] = IF v = w THEN NoTx ELSE tx[v]
  BY DEF Commit, Typed
<1>5. tx' \in [Writers -> Transactions] /\ \A v \in Writers : Shaped(tx'[v])
  <2>1. tx' \in [Writers -> Transactions]
    BY NoTxTyped DEF Commit, Typed
  <2> QED
    BY <1>4, <2>1, NoTxTyped DEF Typed
<1>6. AskedTyped'
  <2>1. \A e \in Stored' : e \in Stored \/ e = tx[w].ev
    BY <1>1 DEF Stored, Commit, Typed
  <2>2. \A v \in Writers : tx'[v].pc # "idle" => asked[tx'[v].ev] # {}
    BY <1>4, NoTxTyped, TxFacts
  <2>3. asked' = asked
    BY DEF Commit
  <2> QED
    BY <1>1, <2>1, <2>2, <2>3 DEF Typed, AskedTyped, Open
<1>7. RebuildTyped'
  BY DEF Commit, Typed, RebuildTyped
<1> QED
  BY <1>2, <1>3, <1>5, <1>6, <1>7 DEF Commit, Typed

LEMMA StoredFacts ==
  ASSUME Typed
  PROVE  /\ IsFiniteSet(Stored) /\ Stored \subseteq Events
         /\ \A e \in Stored : event[e] \in Rows /\ BucketOf(event[e]) \in Buckets
<1>1. IsFiniteSet(Stored)
  BY RowsAssumption, FS_Subset DEF Stored
<1>2. \A e \in Stored : event[e] \in Rows
  BY DEF Typed, Stored
<1> QED
  BY <1>1, <1>2, BucketOfTyped DEF Stored

\* The events of a bucket.
EventsIn(b) == {e \in Stored : BucketOf(event[e]) = b}

LEMMA EventsInFacts ==
  ASSUME Typed, NEW b
  PROVE  /\ IsFiniteSet(EventsIn(b)) /\ EventsIn(b) \subseteq Events
         /\ \A e \in EventsIn(b) : event[e] \in Rows /\ BucketOf(event[e]) = b
BY StoredFacts, FS_Subset DEF EventsIn

LEMMA BackfillEventTyped ==
  ASSUME Typed, NEW e \in Events, NEW row \in Rows, BackfillEvent(e, row) PROVE Typed'
<1>1. event' \in [Events -> Rows \cup {NoRow}]
  BY DEF BackfillEvent, Typed
<1>2. \A d \in Stored' : d \in Stored \/ d \in Legacy
  BY DEF Stored, BackfillEvent, Typed
<1>3. AskedTyped'
  BY <1>2 DEF BackfillEvent, Typed, AskedTyped, Open
<1>4. RebuildTyped'
  BY DEF BackfillEvent, Typed, RebuildTyped
<1> QED
  BY <1>1, <1>3, <1>4 DEF BackfillEvent, Typed

\* A step of the backfill alone.
LEMMA RebuildStepTyped ==
  ASSUME Typed, RebuildTyped', rollup' \in [Buckets -> Sums \cup {NoRow}],
         births' \in 0 .. 1, overlap' \in BOOLEAN, UNCHANGED <<event, tx, asked>>
  PROVE  Typed'
<1>1. AskedTyped'
  BY DEF Typed, AskedTyped, Stored, Open
<1> QED
  BY <1>1 DEF Typed, Shaped

LEMMA RebuildDeleteTyped == ASSUME Typed, RebuildDelete PROVE Typed'
<1>1. rebuild' = [pc |-> "read", sums |-> rebuild.sums] /\ births = 0 /\ births' = births + 1
  BY DEF RebuildDelete, Typed, RebuildTyped
<1>2. RebuildTyped'
  BY <1>1 DEF RebuildTyped
<1>3. rollup' \in [Buckets -> Sums \cup {NoRow}]
  BY DEF RebuildDelete
<1>4. births' \in 0 .. 1
  BY <1>1
<1>5. overlap' \in BOOLEAN
  BY DEF RebuildDelete
<1> QED
  BY <1>2, <1>3, <1>4, <1>5, RebuildStepTyped DEF RebuildDelete

BucketSums == [x \in {y \in Buckets : EventsIn(y) # {}} |-> Total(EventsIn(x), event)]

LEMMA TotalOfBucket ==
  ASSUME Typed, NEW b
  PROVE  LET t == Total(EventsIn(b), event)
         IN  /\ t \in NatVectors
             /\ t.count = Cardinality(EventsIn(b))
             /\ t.count = t.success + t.failed
             /\ IF b.status = "success" THEN t.failed = 0 ELSE t.success = 0
<1> DEFINE t == Total(EventsIn(b), event)
           S == EventsIn(b)
<1>1. IsFiniteSet(S) /\ S \subseteq Events /\ \A e \in S : event[e] \in Rows
  BY EventsInFacts
<1> HIDE DEF S
<1>2. /\ t \in Vectors
      /\ t.count = Cardinality(S)
      /\ t.count \in Nat /\ t.success \in Nat /\ t.failed \in Nat /\ t.tokens \in Nat
      /\ t.count = t.success + t.failed
      /\ (\A e \in S : event[e].status = "success") => t.failed = 0
      /\ (\A e \in S : event[e].status # "success") => t.success = 0
  BY <1>1, TotalIs DEF S
<1>3. \A e \in S : event[e].status = b.status
  BY EventsInFacts DEF BucketOf, S
<1> HIDE DEF t
<1>4. t \in NatVectors
  BY <1>2 DEF NatVectors, Columns
<1> QED
  BY <1>2, <1>3, <1>4 DEF t, S

LEMMA RebuildReadTyped ==
  ASSUME Typed, RebuildRead PROVE Typed' /\ rebuild' = [pc |-> "write", sums |-> BucketSums]
<1>1. rebuild' = [pc |-> "write", sums |-> BucketSums]
  BY DEF RebuildRead, BucketSums, EventsIn
<1>2. /\ DOMAIN BucketSums \subseteq Buckets
      /\ \A b \in DOMAIN BucketSums : BucketSums[b] \in NatVectors
  BY TotalOfBucket DEF BucketSums
<1>3. rebuild'.pc = "write" /\ rebuild'.sums = BucketSums
  BY <1>1
<1>4. RebuildTyped'
  BY <1>1, <1>2, <1>3 DEF RebuildTyped
<1>5. births' \in 0 .. 1 /\ rollup' \in [Buckets -> Sums \cup {NoRow}]
  BY DEF RebuildRead, Typed
<1>6. overlap' \in BOOLEAN
  BY DEF RebuildRead, Typed
<1> QED
  BY <1>1, <1>4, <1>5, <1>6, RebuildStepTyped DEF RebuildRead

NewRows == [b \in DOMAIN rebuild.sums |-> Clamp(rebuild.sums[b], births)]

LEMMA NewRowsTyped ==
  ASSUME Typed, rebuild.pc = "write"
  PROVE  /\ NewRows \in PartialRollups
         /\ DOMAIN NewRows = DOMAIN rebuild.sums /\ DOMAIN NewRows \subseteq Buckets
         /\ \A b \in DOMAIN NewRows :
              /\ NewRows[b] \in Sums
              /\ NewRows[b].count = rebuild.sums[b].count
              /\ NewRows[b].success = rebuild.sums[b].success
              /\ NewRows[b].failed = rebuild.sums[b].failed
              /\ NewRows[b].tokens = rebuild.sums[b].tokens
<1>1. /\ DOMAIN rebuild.sums \subseteq Buckets
      /\ \A b \in DOMAIN rebuild.sums : rebuild.sums[b] \in NatVectors
      /\ births \in Nat
  BY DEF Typed, RebuildTyped
<1>2. ASSUME NEW b \in DOMAIN rebuild.sums
      PROVE  LET s == rebuild.sums[b]
                 r == Clamp(s, births)
             IN  /\ r \in Sums /\ r.count = s.count /\ r.success = s.success
                 /\ r.failed = s.failed /\ r.tokens = s.tokens
  <2> DEFINE s == rebuild.sums[b]
  <2>1. s.count \in Nat /\ s.success \in Nat /\ s.failed \in Nat /\ s.tokens \in Nat
    BY <1>1 DEF NatVectors, Columns
  <2> HIDE DEF s
  <2> DEFINE r == Clamp(s, births)
  <2>2. /\ r \in Sums
        /\ r.count = IF s.count > 0 THEN s.count ELSE 0
        /\ r.success = IF s.success > 0 THEN s.success ELSE 0
        /\ r.failed = IF s.failed > 0 THEN s.failed ELSE 0
        /\ r.tokens = IF s.tokens > 0 THEN s.tokens ELSE 0
    BY <1>1, <2>1, ClampIs
  <2> HIDE DEF r
  <2>3. r \in Sums /\ r.count = s.count /\ r.success = s.success /\ r.failed = s.failed
        /\ r.tokens = s.tokens
    BY <2>1, <2>2
  <2> QED
    BY <2>3 DEF r, s
<1>3. DOMAIN NewRows = DOMAIN rebuild.sums
      /\ \A b \in DOMAIN NewRows : NewRows[b] = Clamp(rebuild.sums[b], births)
  BY DEF NewRows
<1>4. NewRows \in [DOMAIN NewRows -> Sums]
  BY <1>2, <1>3 DEF NewRows
<1>5. NewRows \in PartialRollups
  BY <1>1, <1>3, <1>4, PartialIs
<1> QED
  BY <1>1, <1>2, <1>3, <1>5

LEMMA RebuildWriteIs ==
  ASSUME RebuildWrite
  PROVE  /\ rebuild.pc = "write"
         /\ UNCHANGED <<event, tx, asked, births, overlap>>
         /\ \/ /\ \A b \in DOMAIN rebuild.sums : rollup[b] = NoRow
               /\ rollup' = Over(NewRows, rollup)
               /\ rebuild' = [pc |-> "complete", sums |-> <<>>]
            \/ /\ rollup' = rollup
               /\ rebuild' = [pc |-> "failed", sums |-> <<>>]
BY DEF RebuildWrite, NewRows

LEMMA RebuildWriteTyped == ASSUME Typed, RebuildWrite PROVE Typed'
<1>1. rollup' \in [Buckets -> Sums \cup {NoRow}]
  BY NewRowsTyped, OverTyped, RebuildWriteIs DEF Typed
<1>2. RebuildTyped'
  BY RebuildWriteIs DEF RebuildTyped
<1>3. births' \in 0 .. 1
  BY RebuildWriteIs DEF Typed
<1>4. overlap' \in BOOLEAN
  BY RebuildWriteIs DEF Typed
<1> QED
  BY <1>1, <1>2, <1>3, <1>4, RebuildStepTyped, RebuildWriteIs

LEMMA RebuildFailsTyped == ASSUME Typed, RebuildFails PROVE Typed'
<1>1. RebuildTyped'
  BY DEF RebuildFails, RebuildTyped
<1>2. births' \in 0 .. 1 /\ rollup' \in [Buckets -> Sums \cup {NoRow}]
  BY DEF RebuildFails, Typed
<1>3. overlap' \in BOOLEAN
  BY DEF RebuildFails, Typed
<1> QED
  BY <1>1, <1>2, <1>3, RebuildStepTyped DEF RebuildFails

LEMMA PersistIsBegin ==
  ASSUME Typed, NEW w \in Writers, NEW e \in Events, NEW row \in Rows,
         PersistProxy(w, e, row) \/ PersistUpload(w, e, row)
  PROVE  /\ e \notin Legacy
         /\ \E who \in {"proxy", "upload"} : Begin(w, e, row, who)
BY DEF PersistProxy, PersistUpload, Typed, AskedTyped

LEMMA TypedPreserved == ASSUME Typed, [Next]_vars PROVE Typed'
<1>1. CASE UNCHANGED vars
  BY <1>1 DEF vars, Typed, AskedTyped, RebuildTyped, Shaped, Stored, Open
<1>2. ASSUME NEW w \in Writers, NEW e \in Events, NEW row \in Rows,
             PersistProxy(w, e, row) \/ PersistUpload(w, e, row)
      PROVE  Typed'
  BY <1>2, PersistIsBegin, BeginTyped
<1>3. ASSUME NEW w \in Writers, Persist(w) PROVE Typed'
  BY <1>2, <1>3, ReadPreviousTyped, UpsertEventTyped, ReadBucketTyped, WriteBucketTyped,
     CommitTyped, RollbackTyped DEF Persist
<1>4. ASSUME Backfill PROVE Typed'
  BY <1>4, BackfillEventTyped, RebuildDeleteTyped, RebuildReadTyped, RebuildWriteTyped,
     RebuildFailsTyped DEF Backfill
<1> QED
  BY <1>1, <1>3, <1>4 DEF Next

-----------------------------------------------------------------------------
(* A row agrees with itself: so does every row that a transaction has read *)
(* or written, and every sum that the backfill has read.                   *)

\* The columns of a row agree with each other and with the key of the row.
Agrees(r, b) ==
  /\ r.count = r.success + r.failed
  /\ IF b.status = "success" THEN r.failed = 0 ELSE r.success = 0

AllAgree ==
  /\ \A b \in Buckets : rollup[b] # NoRow => Agrees(rollup[b], b)
  /\ \A w \in Writers :
       /\ \A b \in DOMAIN tx[w].made : Agrees(tx[w].made[b], b)
       /\ tx[w].pc \in {"minus_write", "plus_write"} /\ tx[w].seen # NoRow =>
            Agrees(tx[w].seen, Target(w))
  /\ rebuild.pc = "write" => \A b \in DOMAIN rebuild.sums : Agrees(rebuild.sums[b], b)

LEMMA DeltaAgrees ==
  ASSUME Typed, NEW w \in Writers, tx[w].pc \in {"minus_write", "plus_write"}
  PROVE  Agrees(Delta(w), Target(w))
<1>1. CASE tx[w].pc = "minus_write"
  <2>1. tx[w].prev \in Rows
    BY <1>1, TxFacts DEF Shaped
  <2> DEFINE c == Contribution(tx[w].prev)
  <2>2. /\ c.count = 1 /\ c.success \in Nat /\ c.failed \in Nat /\ c.tokens \in Nat
        /\ c.count = c.success + c.failed
        /\ IF tx[w].prev.status = "success" THEN c.failed = 0 ELSE c.success = 0
    BY <2>1, ContributionIs
  <2>3. Delta(w) = Negated(c) /\ Target(w).status = tx[w].prev.status
    BY <1>1 DEF Delta, Target, BucketOf
  <2> HIDE DEF c
  <2> QED
    BY <2>2, <2>3 DEF Negated, Agrees
<1>2. CASE tx[w].pc = "plus_write"
  <2>1. tx[w].row \in Rows
    BY <1>2, TxFacts
  <2> DEFINE c == Contribution(tx[w].row)
  <2>2. /\ c.count = c.success + c.failed
        /\ IF tx[w].row.status = "success" THEN c.failed = 0 ELSE c.success = 0
    BY <2>1, ContributionIs
  <2>3. Delta(w) = c /\ Target(w).status = tx[w].row.status
    BY <1>2 DEF Delta, Target, BucketOf
  <2> HIDE DEF c
  <2> QED
    BY <2>2, <2>3 DEF Agrees
<1> QED
  BY <1>1, <1>2

LEMMA ClampAgrees ==
  ASSUME NEW a, a.count \in Int, a.success \in Int, a.failed \in Int, a.tokens \in Int,
         NEW id \in Nat, NEW b, Agrees(a, b)
  PROVE  Agrees(Clamp(a, id), b)
<1> DEFINE r == Clamp(a, id)
<1>1. /\ r.count = IF a.count > 0 THEN a.count ELSE 0
      /\ r.success = IF a.success > 0 THEN a.success ELSE 0
      /\ r.failed = IF a.failed > 0 THEN a.failed ELSE 0
  BY ClampIs
<1> HIDE DEF r
<1>2. Agrees(r, b)
  BY <1>1 DEF Agrees
<1> QED
  BY <1>2 DEF r

\* What WriteBucket writes agrees with itself.
LEMMA WrittenAgrees ==
  ASSUME Typed, AllAgree, NEW w \in Writers, WriteBucket(w)
  PROVE  \A b \in DOMAIN tx'[w].made : Agrees(tx'[w].made[b], b)
<1> DEFINE b == Target(w)
           seen == tx[w].seen
           d == Delta(w)
<1>1. /\ tx[w].pc \in {"minus_write", "plus_write"}
      /\ b \in Buckets
      /\ \/ tx'[w].made = tx[w].made
         \/ /\ tx'[w].made = Wrote(w, b, Clamp(d, births))
            /\ Clamp(d, births) \in Sums
         \/ /\ seen # NoRow
            /\ tx'[w].made = Wrote(w, b, Clamp(Plus(seen, d), seen.id))
            /\ Clamp(Plus(seen, d), seen.id) \in Sums
  BY WriteBucketIs
<1>2. /\ d.count \in Int /\ d.success \in Int /\ d.failed \in Int /\ d.tokens \in Int
      /\ Agrees(d, b)
  BY <1>1, DeltaTyped, DeltaAgrees
<1>3. births \in Nat
  BY DEF Typed
<1>4. Agrees(Clamp(d, births), b)
  <2> HIDE DEF d, b
  <2> QED
    BY <1>2, <1>3, ClampAgrees
<1>5. seen # NoRow => Agrees(Clamp(Plus(seen, d), seen.id), b)
  <2> SUFFICES ASSUME seen # NoRow PROVE Agrees(Clamp(Plus(seen, d), seen.id), b)
    OBVIOUS
  <2>1. seen \in Sums
    BY TxFacts
  <2>2. Agrees(seen, b)
    BY <1>1 DEF AllAgree
  <2>3. /\ seen.id \in Nat /\ seen.count \in Int /\ seen.success \in Int /\ seen.failed \in Int
        /\ seen.tokens \in Int
    BY <2>1, SumsAre
  <2> DEFINE p == Plus(seen, d)
  <2> HIDE DEF seen, d, b
  <2>4. /\ p \in Vectors
        /\ p.count = seen.count + d.count
        /\ p.success = seen.success + d.success
        /\ p.failed = seen.failed + d.failed
        /\ p.tokens = seen.tokens + d.tokens
    BY <1>2, <2>3, PlusIs
  <2> HIDE DEF p
  <2>5. p.count \in Int /\ p.success \in Int /\ p.failed \in Int /\ p.tokens \in Int
    BY <2>4, VectorIs
  <2>6. Agrees(p, b)
    <3>1. /\ seen.count = seen.success + seen.failed
          /\ d.count = d.success + d.failed
          /\ IF b.status = "success" THEN seen.failed = 0 /\ d.failed = 0
                                      ELSE seen.success = 0 /\ d.success = 0
      BY <1>2, <2>2 DEF Agrees
    <3>2. p.count = p.success + p.failed
      <4>1. /\ seen.success \in Int /\ seen.failed \in Int
            /\ d.success \in Int /\ d.failed \in Int
        BY <1>2, <2>3
      <4>2. p.count = (seen.success + seen.failed) + (d.success + d.failed)
        BY <2>4, <3>1
      <4>3. p.success + p.failed = (seen.success + d.success) + (seen.failed + d.failed)
        BY <2>4
      <4> QED
        BY <4>1, <4>2, <4>3
    <3>3. IF b.status = "success" THEN p.failed = 0 ELSE p.success = 0
      BY <2>4, <3>1
    <3> QED
      BY <3>2, <3>3 DEF Agrees
  <2>7. Agrees(Clamp(p, seen.id), b)
    BY <2>3, <2>5, <2>6, ClampAgrees
  <2> QED
    BY <2>7 DEF p
<1>6. tx[w].made \in PartialRollups /\ \A x \in DOMAIN tx[w].made : Agrees(tx[w].made[x], x)
  BY TxFacts DEF AllAgree
<1>7. ASSUME NEW s \in Sums, Agrees(s, b)
      PROVE  \A x \in DOMAIN Wrote(w, b, s) : Agrees(Wrote(w, b, s)[x], x)
  <2> DEFINE n == Wrote(w, b, s)
             m == tx[w].made
  <2>1. /\ DOMAIN n = DOMAIN m \cup {b}
        /\ n[b] = s
        /\ \A c \in DOMAIN m : c # b => n[c] = m[c]
    <3>1. n = MadeWith(m, b, s)
      BY DEF Wrote, MadeWith
    <3>2. m \in PartialRollups /\ b \in Buckets
      BY <1>1, <1>6
    <3> HIDE DEF b, n, m
    <3> QED
      BY <3>1, <3>2, MadeOne
  <2> HIDE DEF n, b
  <2>2. \A x \in DOMAIN n : Agrees(n[x], x)
    BY <1>6, <1>7, <2>1
  <2> QED
    BY <2>2 DEF n
<1> HIDE DEF b, d, seen
<1>8. CASE tx'[w].made = tx[w].made
  BY <1>6, <1>8
<1>9. CASE /\ tx'[w].made = Wrote(w, b, Clamp(d, births))
           /\ Clamp(d, births) \in Sums
  BY <1>4, <1>7, <1>9
<1>10. CASE /\ seen # NoRow
            /\ tx'[w].made = Wrote(w, b, Clamp(Plus(seen, d), seen.id))
            /\ Clamp(Plus(seen, d), seen.id) \in Sums
  BY <1>5, <1>7, <1>10
<1> QED
  BY <1>1, <1>8, <1>9, <1>10

\* A step of one transaction alone.
LEMMA TxStepAgrees ==
  ASSUME Typed, AllAgree, NEW w \in Writers, NEW t, tx' = [tx EXCEPT ![w] = t],
         \A b \in DOMAIN t.made : Agrees(t.made[b], b),
         t.pc \in {"minus_write", "plus_write"} /\ t.seen # NoRow => Agrees(t.seen, Target(w)'),
         UNCHANGED <<rollup, rebuild>>
  PROVE  AllAgree'
<1>1. \A v \in Writers : tx'[v] = IF v = w THEN t ELSE tx[v]
  BY DEF Typed
<1>2. \A v \in Writers : v # w => Target(v)' = Target(v)
  BY <1>1 DEF Target
<1>3. \A v \in Writers : \A b \in DOMAIN tx'[v].made : Agrees(tx'[v].made[b], b)
  BY <1>1 DEF AllAgree
<1>4. \A v \in Writers : tx'[v].pc \in {"minus_write", "plus_write"} /\ tx'[v].seen # NoRow =>
                           Agrees(tx'[v].seen, Target(v)')
  BY <1>1, <1>2 DEF AllAgree
<1>5. rollup' = rollup /\ rebuild' = rebuild
  OBVIOUS
<1> QED
  BY <1>3, <1>4, <1>5 DEF AllAgree

LEMMA ReadBucketAgrees ==
  ASSUME Typed, AllAgree, NEW w \in Writers, ReadBucket(w) PROVE AllAgree'
<1> DEFINE pc == IF tx[w].pc = "minus_read" THEN "minus_write" ELSE "plus_write"
           t == [tx[w] EXCEPT !.pc = pc, !.seen = Visible(w, Target(w))]
<1>1. tx' = [tx EXCEPT ![w] = t] /\ tx[w].pc \in {"minus_read", "plus_read"}
  BY DEF ReadBucket
<1>2. /\ t.made = tx[w].made /\ t.seen = Visible(w, Target(w)) /\ t.prev = tx[w].prev
      /\ t.row = tx[w].row /\ t.pc = pc
  BY TxFacts DEF Transactions
<1>3. tx'[w] = t
  BY <1>1 DEF Typed
<1> HIDE DEF t
<1>4. Target(w)' = Target(w)
  BY <1>1, <1>2, <1>3 DEF Target
<1>5. Target(w) \in Buckets
  BY <1>1, TargetTyped
<1>6. t.seen # NoRow => Agrees(t.seen, Target(w)')
  BY <1>2, <1>4, <1>5 DEF AllAgree, Visible, HoldsBucket
<1>7. \A b \in DOMAIN t.made : Agrees(t.made[b], b)
  BY <1>2 DEF AllAgree
<1> QED
  BY <1>1, <1>6, <1>7, TxStepAgrees DEF ReadBucket

LEMMA CommitAgrees ==
  ASSUME Typed, AllAgree, NEW w \in Writers, Commit(w) PROVE AllAgree'
<1>1. \A v \in Writers : tx'[v] = IF v = w THEN NoTx ELSE tx[v]
  BY DEF Commit, Typed
<1>2. \A b \in Buckets : rollup'[b] = IF b \in DOMAIN tx[w].made THEN tx[w].made[b] ELSE rollup[b]
  BY TxFacts, OverTyped DEF Commit, Typed
<1>3. \A b \in Buckets : rollup'[b] # NoRow => Agrees(rollup'[b], b)
  BY <1>2 DEF AllAgree
<1>4. \A v \in Writers : v # w => Target(v)' = Target(v)
  BY <1>1 DEF Target
<1>5. NoTx.pc = "idle" /\ NoTx.made = <<>>
  BY NoTxTyped
<1>6. \A v \in Writers : \A b \in DOMAIN tx'[v].made : Agrees(tx'[v].made[b], b)
  BY <1>1, <1>5, NothingMade DEF AllAgree
<1>7. \A v \in Writers : tx'[v].pc \in {"minus_write", "plus_write"} /\ tx'[v].seen # NoRow =>
                           Agrees(tx'[v].seen, Target(v)')
  BY <1>1, <1>4, <1>5 DEF AllAgree
<1>8. rebuild' = rebuild
  BY DEF Commit
<1> QED
  BY <1>3, <1>6, <1>7, <1>8 DEF AllAgree

\* A step of the backfill alone.
LEMMA RebuildStepAgrees ==
  ASSUME AllAgree, tx' = tx,
         \A b \in Buckets : rollup'[b] # NoRow => Agrees(rollup'[b], b),
         rebuild'.pc = "write" => \A b \in DOMAIN rebuild'.sums : Agrees(rebuild'.sums[b], b)
  PROVE  AllAgree'
<1>1. \A v \in Writers : Target(v)' = Target(v)
  BY DEF Target
<1> QED
  BY <1>1 DEF AllAgree

LEMMA AllAgreePreserved == ASSUME Typed, AllAgree, [Next]_vars PROVE AllAgree'
<1>1. ASSUME NEW w \in Writers, NEW e \in Events, NEW row \in Rows,
             PersistProxy(w, e, row) \/ PersistUpload(w, e, row)
      PROVE  AllAgree'
  <2>1. PICK who \in {"proxy", "upload"} : Begin(w, e, row, who)
    BY <1>1, PersistIsBegin
  <2> DEFINE t == [NoTx EXCEPT !.pc = "read", !.ev = e, !.row = row]
  <2>2. tx' = [tx EXCEPT ![w] = t] /\ t.pc = "read" /\ t.made = <<>>
    BY <2>1 DEF Begin, NoTx
  <2>3. UNCHANGED <<rollup, rebuild>>
    BY <2>1 DEF Begin
  <2> HIDE DEF t
  <2>4. /\ \A b \in DOMAIN t.made : Agrees(t.made[b], b)
        /\ t.pc \in {"minus_write", "plus_write"} /\ t.seen # NoRow => Agrees(t.seen, Target(w)')
    BY <2>2, NothingMade
  <2> QED
    BY <2>2, <2>3, <2>4, TxStepAgrees
<1>2. ASSUME NEW w \in Writers, ReadPrevious(w) PROVE AllAgree'
  <2> DEFINE t == [tx[w] EXCEPT !.pc = "upsert", !.prev = event[tx[w].ev]]
  <2>1. tx' = [tx EXCEPT ![w] = t] /\ UNCHANGED <<rollup, rebuild>>
    BY <1>2 DEF ReadPrevious
  <2>2. t.pc = "upsert" /\ t.made = tx[w].made
    BY TxFacts DEF Transactions
  <2> HIDE DEF t
  <2>3. /\ \A b \in DOMAIN t.made : Agrees(t.made[b], b)
        /\ t.pc \in {"minus_write", "plus_write"} /\ t.seen # NoRow => Agrees(t.seen, Target(w)')
    BY <2>2 DEF AllAgree
  <2> QED
    BY <2>1, <2>3, TxStepAgrees
<1>3. ASSUME NEW w \in Writers, UpsertEvent(w) PROVE AllAgree'
  <2> DEFINE t == [tx[w] EXCEPT !.pc = IF tx[w].prev = NoRow THEN "plus_read" ELSE "minus_read"]
  <2>1. tx' = [tx EXCEPT ![w] = t] /\ UNCHANGED <<rollup, rebuild>>
    BY <1>3 DEF UpsertEvent
  <2>2. t.pc \in {"plus_read", "minus_read"} /\ t.made = tx[w].made
    BY TxFacts DEF Transactions
  <2> HIDE DEF t
  <2>3. /\ \A b \in DOMAIN t.made : Agrees(t.made[b], b)
        /\ t.pc \in {"minus_write", "plus_write"} /\ t.seen # NoRow => Agrees(t.seen, Target(w)')
    BY <2>2 DEF AllAgree
  <2> QED
    BY <2>1, <2>3, TxStepAgrees
<1>4. ASSUME NEW w \in Writers, WriteBucket(w) PROVE AllAgree'
  <2> DEFINE t == tx'[w]
  <2>1. tx' = [tx EXCEPT ![w] = t] /\ t.pc \in {"plus_read", "commit"}
    BY <1>4, WriteBucketIs
  <2>2. \A b \in DOMAIN t.made : Agrees(t.made[b], b)
    BY <1>4, WrittenAgrees
  <2>3. UNCHANGED <<rollup, rebuild>>
    BY <1>4 DEF WriteBucket
  <2> HIDE DEF t
  <2>4. t.pc \in {"minus_write", "plus_write"} /\ t.seen # NoRow => Agrees(t.seen, Target(w)')
    BY <2>1
  <2> QED
    BY <2>1, <2>2, <2>3, <2>4, TxStepAgrees
<1>5. ASSUME NEW w \in Writers, Rollback(w) PROVE AllAgree'
  <2> DEFINE t == NoTx
  <2>1. tx' = [tx EXCEPT ![w] = t] /\ t.pc = "idle" /\ t.made = <<>>
        /\ UNCHANGED <<rollup, rebuild>>
    BY <1>5, NoTxTyped DEF Rollback
  <2> HIDE DEF t
  <2>2. /\ \A b \in DOMAIN t.made : Agrees(t.made[b], b)
        /\ t.pc \in {"minus_write", "plus_write"} /\ t.seen # NoRow => Agrees(t.seen, Target(w)')
    BY <2>1, NothingMade
  <2> QED
    BY <2>1, <2>2, TxStepAgrees
<1>6. ASSUME NEW e \in Events, NEW row \in Rows, BackfillEvent(e, row) PROVE AllAgree'
  BY <1>6, RebuildStepAgrees DEF BackfillEvent, AllAgree
<1>7. ASSUME RebuildDelete PROVE AllAgree'
  <2>1. rebuild'.pc = "read"
    BY <1>7 DEF RebuildDelete, Typed, RebuildTyped
  <2>2. tx' = tx /\ \A b \in Buckets : rollup'[b] = NoRow
    BY <1>7 DEF RebuildDelete
  <2> QED
    BY <2>1, <2>2, RebuildStepAgrees
<1>8. ASSUME RebuildRead PROVE AllAgree'
  <2>1. rebuild'.sums = BucketSums
    BY <1>8, RebuildReadTyped
  <2>2. \A b \in DOMAIN BucketSums : Agrees(BucketSums[b], b)
    BY TotalOfBucket DEF BucketSums, Agrees
  <2>3. tx' = tx /\ rollup' = rollup
    BY <1>8 DEF RebuildRead
  <2> QED
    BY <2>1, <2>2, <2>3, RebuildStepAgrees DEF AllAgree
<1>9. ASSUME RebuildWrite PROVE AllAgree'
  <2>1. rebuild.pc = "write" /\ tx' = tx /\ rebuild'.pc # "write"
    BY <1>9, RebuildWriteIs
  <2>2. \A b \in DOMAIN NewRows : Agrees(NewRows[b], b)
    BY <2>1, NewRowsTyped DEF AllAgree, Agrees
  <2>3. \A b \in Buckets : Over(NewRows, rollup)[b] = IF b \in DOMAIN NewRows THEN NewRows[b]
          ELSE rollup[b]
    BY <2>1, NewRowsTyped, OverTyped DEF Typed
  <2>4. rollup' = rollup \/ rollup' = Over(NewRows, rollup)
    BY <1>9, RebuildWriteIs
  <2>5. \A b \in Buckets : rollup'[b] # NoRow => Agrees(rollup'[b], b)
    BY <2>2, <2>3, <2>4 DEF AllAgree
  <2> QED
    BY <2>1, <2>5, RebuildStepAgrees
<1>10. ASSUME RebuildFails PROVE AllAgree'
  <2>1. rebuild'.pc = "failed" /\ tx' = tx /\ rollup' = rollup
    BY <1>10 DEF RebuildFails
  <2> QED
    BY <2>1, RebuildStepAgrees DEF AllAgree
<1>11. CASE UNCHANGED vars
  <2>1. tx' = tx /\ rollup' = rollup /\ rebuild' = rebuild
    BY <1>11 DEF vars
  <2> QED
    BY <2>1, RebuildStepAgrees DEF AllAgree
<1>12. ASSUME NEW w \in Writers, Persist(w) PROVE AllAgree'
  BY <1>1, <1>2, <1>3, <1>4, <1>5, <1>12, ReadBucketAgrees, CommitAgrees DEF Persist
<1>13. ASSUME Backfill PROVE AllAgree'
  BY <1>6, <1>7, <1>8, <1>9, <1>10, <1>13 DEF Backfill
<1> QED
  BY <1>11, <1>12, <1>13 DEF Next

-----------------------------------------------------------------------------
(* A row is never ahead of its events, if each is written once.            *)

WrittenOnce == \A e \in Events : "upload" \notin asked[e]

Count(b) == Cardinality(EventsIn(b))

\* A transaction that writes an event for the first time.
WritesOnce(w, t) ==
  /\ t.pc # "idle" => /\ t.prev = NoRow /\ event[t.ev] = NoRow
                      /\ \A v \in Writers \ {w} : Open(v) => tx[v].ev # t.ev
  /\ t.pc = "plus_write" /\ t.seen # NoRow => t.seen.count <= Count(BucketOf(t.row))
  /\ \A b \in DOMAIN t.made :
       t.pc = "commit" /\ b = BucketOf(t.row) /\ t.made[b].count <= Count(b) + 1

NoneAhead ==
  WrittenOnce =>
    /\ \A b \in Buckets : rollup[b] # NoRow => rollup[b].count <= Count(b)
    /\ \A w \in Writers : WritesOnce(w, tx[w])
    /\ rebuild.pc = "write" => \A b \in DOMAIN rebuild.sums : rebuild.sums[b].count <= Count(b)

LEMMA CountGrows ==
  ASSUME Typed, Typed', \A e \in Stored : event'[e] = event[e]
  PROVE  \A b : Count(b) \in Nat /\ Count(b)' \in Nat /\ Count(b) <= Count(b)'
<1> SUFFICES ASSUME NEW b PROVE Count(b) \in Nat /\ Count(b)' \in Nat /\ Count(b) <= Count(b)'
  OBVIOUS
<1>1. IsFiniteSet(EventsIn(b))
  BY EventsInFacts
<1>2. IsFiniteSet(EventsIn(b)')
  <2>1. IsFiniteSet(Stored') /\ EventsIn(b)' \subseteq Stored'
    BY RowsAssumption, FS_Subset DEF Stored, EventsIn
  <2> QED
    BY <2>1, FS_Subset
<1>3. EventsIn(b) \subseteq EventsIn(b)'
  <2>1. \A e \in Stored : event'[e] = event[e] /\ e \in Stored'
    BY DEF Stored
  <2> QED
    BY <2>1 DEF EventsIn
<1> DEFINE S == EventsIn(b)
           T == EventsIn(b)'
<1>4. Cardinality(S) \in Nat /\ Cardinality(T) \in Nat /\ Cardinality(S) <= Cardinality(T)
  <2>1. IsFiniteSet(S) /\ IsFiniteSet(T) /\ S \subseteq T
    BY <1>1, <1>2, <1>3
  <2> HIDE DEF S, T
  <2> QED
    BY <2>1, FS_Subset, FS_CardinalityType
<1> QED
  BY <1>4 DEF Count

\* A step of one transaction, with no event written.
LEMMA TxStepAhead ==
  ASSUME Typed, NoneAhead, NEW w \in Writers, NEW t, tx' = [tx EXCEPT ![w] = t],
         UNCHANGED <<event, rollup, rebuild>>, WrittenOnce' => WrittenOnce,
         WrittenOnce' => WritesOnce(w, t)
  PROVE  NoneAhead'
<1> SUFFICES ASSUME WrittenOnce'
             PROVE  /\ \A b \in Buckets : rollup'[b] # NoRow => rollup'[b].count <= Count(b)'
                    /\ \A v \in Writers : WritesOnce(v, tx[v])'
                    /\ rebuild'.pc = "write" =>
                         \A b \in DOMAIN rebuild'.sums : rebuild'.sums[b].count <= Count(b)'
  BY DEF NoneAhead
<1>1. \A v \in Writers : tx'[v] = IF v = w THEN t ELSE tx[v]
  BY DEF Typed
<1>2. \A b : Count(b)' = Count(b)
  BY DEF Count, EventsIn, Stored
<1>3. ASSUME NEW v \in Writers PROVE WritesOnce(v, tx[v])'
  <2>1. WritesOnce(v, tx'[v])
    BY <1>1 DEF NoneAhead
  <2> DEFINE u == tx'[v]
  <2>2. ASSUME u.pc # "idle", NEW x \in Writers \ {v}, tx'[x].pc # "idle" PROVE tx'[x].ev # u.ev
    <3>1. CASE x = w
      BY <2>2, <3>1, <1>1 DEF WritesOnce, Open
    <3>2. CASE x # w
      BY <2>1, <2>2, <3>2, <1>1 DEF WritesOnce, Open
    <3> QED
      BY <3>1, <3>2
  <2>3. u.pc # "idle" => u.prev = NoRow /\ event'[u.ev] = NoRow
    BY <2>1 DEF WritesOnce
  <2>4. u.pc = "plus_write" /\ u.seen # NoRow => u.seen.count <= Count(BucketOf(tx[v].row))'
    <3>1. Count(BucketOf(tx[v].row))' = Count(BucketOf(u.row))
      BY DEF Count, EventsIn, Stored, BucketOf
    <3> QED
      BY <2>1, <3>1 DEF WritesOnce
  <2>5. \A b \in DOMAIN u.made :
          u.pc = "commit" /\ b = BucketOf(u.row) /\ u.made[b].count <= Count(b)' + 1
    BY <1>2, <2>1 DEF WritesOnce
  <2> QED
    BY <2>2, <2>3, <2>4, <2>5 DEF WritesOnce, Open
<1> QED
  BY <1>2, <1>3 DEF NoneAhead

LEMMA BeginAhead ==
  ASSUME Typed, NoneAhead, NEW w \in Writers, NEW e \in Events, NEW row \in Rows,
         PersistProxy(w, e, row) \/ PersistUpload(w, e, row)
  PROVE  NoneAhead'
<1>1. CASE PersistUpload(w, e, row)
  <2>1. "upload" \in asked'[e]
    BY <1>1 DEF PersistUpload, Begin, Typed, AskedTyped
  <2> QED
    BY <2>1 DEF NoneAhead, WrittenOnce
<1>2. CASE PersistProxy(w, e, row)
  <2> DEFINE t == [NoTx EXCEPT !.pc = "read", !.ev = e, !.row = row]
  <2>1. tx' = [tx EXCEPT ![w] = t] /\ UNCHANGED <<event, rollup, rebuild>>
        /\ asked' = [asked EXCEPT ![e] = @ \cup {"proxy"}] /\ asked[e] = {} /\ e \notin Legacy
    BY <1>2 DEF PersistProxy, Begin
  <2>2. t.pc = "read" /\ t.made = <<>> /\ t.prev = NoRow /\ t.ev = e
    BY DEF NoTx
  <2>3. WrittenOnce' => WrittenOnce
    BY <2>1 DEF WrittenOnce, Typed, AskedTyped
  <2>4. event[e] = NoRow
    BY <2>1 DEF Typed, AskedTyped, Stored
  <2>5. \A v \in Writers : Open(v) => tx[v].ev # e
    BY <2>1, TxFacts DEF Open
  <2> HIDE DEF t
  <2>6. WritesOnce(w, t)
    BY <2>2, <2>4, <2>5, NothingMade DEF WritesOnce
  <2> QED
    BY <2>1, <2>3, <2>6, TxStepAhead
<1> QED
  BY <1>1, <1>2

LEMMA WriteBucketAhead ==
  ASSUME Typed, NoneAhead, NEW w \in Writers, WriteBucket(w) PROVE NoneAhead'
<1> DEFINE b == Target(w)
           seen == tx[w].seen
           d == Delta(w)
           t == tx'[w]
<1>1. /\ tx[w].pc \in {"minus_write", "plus_write"}
      /\ b \in Buckets
      /\ tx' = [tx EXCEPT ![w] = t]
      /\ t.pc = IF tx[w].pc = "minus_write" THEN "plus_read" ELSE "commit"
      /\ t.ev = tx[w].ev /\ t.row = tx[w].row /\ t.prev = tx[w].prev
      /\ \/ seen = NoRow /\ d.count <= 0 /\ t.made = tx[w].made
         \/ /\ seen = NoRow /\ d.count > 0 /\ rollup[b] = NoRow
            /\ t.made = Wrote(w, b, Clamp(d, births))
            /\ Clamp(d, births) \in Sums
         \/ /\ seen # NoRow
            /\ t.made = Wrote(w, b, Clamp(Plus(seen, d), seen.id))
            /\ Clamp(Plus(seen, d), seen.id) \in Sums
  BY WriteBucketIs
<1>2. UNCHANGED <<event, rollup, rebuild>> /\ asked' = asked
  BY DEF WriteBucket
<1>3. WrittenOnce' => WrittenOnce
  BY <1>2 DEF WrittenOnce
<1>4. ASSUME WrittenOnce' PROVE WritesOnce(w, t)
  <2>1. WritesOnce(w, tx[w])
    BY <1>3, <1>4 DEF NoneAhead
  <2>2. tx[w].pc = "plus_write" /\ t.pc = "commit" /\ b = BucketOf(tx[w].row)
    <3>1. tx[w].pc # "minus_write"
      BY <1>1, <2>1, TxFacts DEF WritesOnce, Shaped
    <3> QED
      BY <1>1, <3>1 DEF Target
  <2>3. tx[w].made = <<>>
    BY <2>1, <2>2, TxFacts DEF WritesOnce, Shaped
  <2>4. /\ d.count = 1 /\ d.count \in Int /\ d.success \in Int /\ d.failed \in Int
        /\ d.tokens \in Int
    <3>1. d = Contribution(tx[w].row) /\ tx[w].row \in Rows
      BY <2>2, TxFacts DEF Delta
    <3> QED
      BY <3>1, ContributionIs
  <2>5. Count(b) \in Nat
    BY EventsInFacts, FS_CardinalityType DEF Count
  <2>6. births \in Nat
    BY DEF Typed
  <2>7. ASSUME NEW s \in Sums, s.count <= Count(b) + 1
        PROVE  \A x \in DOMAIN Wrote(w, b, s) :
                 x = b /\ Wrote(w, b, s)[x].count <= Count(x) + 1
    BY <1>1, <2>3, <2>7, NothingMade DEF Wrote, Over
  <2>8. \A x \in DOMAIN t.made : x = b /\ t.made[x].count <= Count(x) + 1
    <3> HIDE DEF b, d, t
    <3>1. CASE seen = NoRow /\ t.made = Wrote(w, b, Clamp(d, births)) /\ Clamp(d, births) \in Sums
      <4> DEFINE s == Clamp(d, births)
      <4>1. s.count = IF d.count > 0 THEN d.count ELSE 0
        BY <2>4, <2>6, ClampIs
      <4>2. s.count <= Count(b) + 1
        BY <2>4, <2>5, <4>1
      <4> QED
        BY <3>1, <4>2, <2>7
    <3>2. CASE /\ seen # NoRow
               /\ t.made = Wrote(w, b, Clamp(Plus(seen, d), seen.id))
               /\ Clamp(Plus(seen, d), seen.id) \in Sums
      <4>1. seen \in Sums
        BY <3>2, TxFacts
      <4>2. /\ seen.id \in Nat /\ seen.count \in Nat /\ seen.success \in Nat /\ seen.failed \in Nat
            /\ seen.tokens \in Nat
        BY <4>1, SumsAre
      <4>3. seen.count <= Count(b)
        BY <2>1, <2>2, <3>2 DEF WritesOnce
      <4> DEFINE p == Plus(seen, d)
      <4> HIDE DEF seen
      <4>4. p \in Vectors /\ p.count = seen.count + d.count
        BY <2>4, <4>2, PlusIs
      <4> HIDE DEF p
      <4>5. p.count \in Int /\ p.success \in Int /\ p.failed \in Int /\ p.tokens \in Int
        BY <4>4, VectorIs
      <4> DEFINE s == Clamp(p, seen.id)
      <4>6. s.count = IF p.count > 0 THEN p.count ELSE 0
        BY <4>2, <4>5, ClampIs
      <4> HIDE DEF s
      <4>7. s.count <= Count(b) + 1
        BY <2>4, <2>5, <4>2, <4>3, <4>4, <4>6
      <4>8. s \in Sums /\ t.made = Wrote(w, b, s)
        BY <3>2 DEF s, p
      <4> QED
        BY <4>7, <4>8, <2>7
    <3>3. CASE t.made = tx[w].made
      BY <2>3, <3>3, NothingMade
    <3> QED
      BY <1>1, <3>1, <3>2, <3>3
  <2> HIDE DEF t, d
  <2>9. t.pc # "plus_write" /\ t.pc # "idle"
    BY <2>2
  <2> QED
    BY <1>1, <2>1, <2>2, <2>8, <2>9 DEF WritesOnce
<1> HIDE DEF t
<1> QED
  BY <1>1, <1>2, <1>3, <1>4, TxStepAhead

LEMMA ReadBucketAhead ==
  ASSUME Typed, NoneAhead, NEW w \in Writers, ReadBucket(w) PROVE NoneAhead'
<1> DEFINE pc == IF tx[w].pc = "minus_read" THEN "minus_write" ELSE "plus_write"
           t == [tx[w] EXCEPT !.pc = pc, !.seen = Visible(w, Target(w))]
<1>1. tx' = [tx EXCEPT ![w] = t] /\ tx[w].pc \in {"minus_read", "plus_read"}
      /\ UNCHANGED <<event, rollup, rebuild>> /\ asked' = asked
  BY DEF ReadBucket
<1>2. /\ t.made = tx[w].made /\ t.seen = Visible(w, Target(w)) /\ t.prev = tx[w].prev
      /\ t.row = tx[w].row /\ t.pc = pc /\ t.ev = tx[w].ev
  BY TxFacts DEF Transactions
<1>3. WrittenOnce' => WrittenOnce
  BY <1>1 DEF WrittenOnce
<1> HIDE DEF t
<1>4. ASSUME WrittenOnce' PROVE WritesOnce(w, t)
  <2>1. WritesOnce(w, tx[w]) /\ \A b \in Buckets : rollup[b] # NoRow => rollup[b].count <= Count(b)
    BY <1>3, <1>4 DEF NoneAhead
  <2>2. tx[w].pc = "plus_read"
    BY <1>1, <2>1, TxFacts DEF WritesOnce, Shaped
  <2>3. tx[w].made = <<>> /\ Target(w) = BucketOf(tx[w].row) /\ Target(w) \in Buckets
    BY <2>1, <2>2, TxFacts, TargetTyped DEF WritesOnce, Shaped, Target
  <2>4. t.seen = rollup[Target(w)]
    BY <1>2, <2>3, NothingMade DEF Visible, HoldsBucket
  <2> QED
    BY <1>2, <2>1, <2>2, <2>3, <2>4, NothingMade DEF WritesOnce
<1> QED
  BY <1>1, <1>3, <1>4, TxStepAhead

\* An event is written for the first time.
LEMMA EventWrittenAhead ==
  ASSUME Typed, Typed', NoneAhead, asked' = asked, rebuild' = rebuild,
         WrittenOnce =>
           /\ \A e \in Stored : event'[e] = event[e]
           /\ \A b \in Buckets : rollup'[b] # NoRow => rollup'[b].count <= Count(b)'
           /\ \A v \in Writers : \/ tx'[v] = tx[v] /\ (Open(v) => event'[tx[v].ev] = NoRow)
                                 \/ tx'[v] = NoTx
  PROVE  NoneAhead'
<1> SUFFICES ASSUME WrittenOnce'
             PROVE  /\ \A b \in Buckets : rollup'[b] # NoRow => rollup'[b].count <= Count(b)'
                    /\ \A v \in Writers : WritesOnce(v, tx[v])'
                    /\ rebuild'.pc = "write" =>
                         \A b \in DOMAIN rebuild'.sums : rebuild'.sums[b].count <= Count(b)'
  BY DEF NoneAhead
<1>0. WrittenOnce
  BY DEF WrittenOnce
<1>1. \A b : Count(b) \in Nat /\ Count(b)' \in Nat /\ Count(b) <= Count(b)'
  BY <1>0, CountGrows
<1>2. \A v \in Writers : \/ tx'[v] = tx[v] /\ (Open(v) => event'[tx[v].ev] = NoRow)
                         \/ tx'[v] = NoTx
  BY <1>0
<1>3. rebuild.pc = "write" => \A b \in DOMAIN rebuild.sums : rebuild.sums[b].count <= Count(b)'
  <2> SUFFICES ASSUME rebuild.pc = "write", NEW b \in DOMAIN rebuild.sums
               PROVE  rebuild.sums[b].count <= Count(b)'
    OBVIOUS
  <2>1. rebuild.sums[b].count <= Count(b)
    BY <1>0 DEF NoneAhead
  <2>2. rebuild.sums[b].count \in Int
    BY DEF Typed, RebuildTyped, NatVectors, Columns
  <2> QED
    BY <1>1, <2>1, <2>2
<1>4. ASSUME NEW v \in Writers PROVE WritesOnce(v, tx[v])'
  <2>1. CASE tx'[v] = NoTx
    BY <2>1, NoTxTyped, NothingMade DEF WritesOnce
  <2>2. CASE tx'[v] = tx[v] /\ (Open(v) => event'[tx[v].ev] = NoRow)
    <3> DEFINE t == tx[v]
    <3>1. WritesOnce(v, t)
      BY <1>0 DEF NoneAhead
    <3>2. \A x \in Writers \ {v} : tx'[x].pc # "idle" /\ t.pc # "idle" => tx'[x].ev # t.ev
      BY <1>2, <3>1, NoTxTyped DEF WritesOnce, Open
    <3>3. t.pc = "plus_write" /\ t.seen # NoRow => t.seen.count <= Count(BucketOf(t.row))'
      <4> SUFFICES ASSUME t.pc = "plus_write", t.seen # NoRow
                          PROVE t.seen.count <= Count(BucketOf(t.row))'
        OBVIOUS
      <4>1. t.seen.count <= Count(BucketOf(t.row)) /\ t.seen.count \in Int
        BY <3>1, TxFacts, SumsAre DEF WritesOnce
      <4>2. Count(BucketOf(t.row)) <= Count(BucketOf(t.row))'
            /\ Count(BucketOf(t.row)) \in Nat /\ Count(BucketOf(t.row))' \in Nat
        <5>1. PICK c : c = BucketOf(t.row) /\ c = BucketOf(t.row)'
          BY <2>2 DEF BucketOf
        <5>2. Count(c) \in Nat /\ Count(c)' \in Nat /\ Count(c) <= Count(c)'
          BY <1>1
        <5>3. Count(BucketOf(t.row)) = Count(c)
          BY <5>1
        <5>4. Count(BucketOf(t.row))' = Count(c)'
          BY <5>1 DEF Count, EventsIn
        <5> QED
          BY <5>2, <5>3, <5>4
      <4> QED
        BY <4>1, <4>2
    <3>4. \A b \in DOMAIN t.made :
            t.pc = "commit" /\ b = BucketOf(t.row) /\ t.made[b].count <= Count(b)' + 1
      <4> SUFFICES ASSUME NEW b \in DOMAIN t.made PROVE t.made[b].count <= Count(b)' + 1
        BY <3>1 DEF WritesOnce
      <4>1. t.made[b].count <= Count(b) + 1
        BY <3>1 DEF WritesOnce
      <4>2. t.made[b].count \in Nat
        BY TxFacts, PartialIs, SumsAre
      <4> QED
        BY <1>1, <4>1, <4>2
    <3>5. t.pc # "idle" => t.prev = NoRow /\ event'[t.ev] = NoRow
      BY <2>2, <3>1 DEF WritesOnce, Open
    <3>6. tx'[v] = t
      BY <2>2
    <3>7. t.pc = "plus_write" /\ t.seen # NoRow => t.seen.count <= Count(BucketOf(tx[v].row))'
      BY <3>3, <3>6 DEF Count, EventsIn, BucketOf
    <3> QED
      BY <3>2, <3>4, <3>5, <3>6, <3>7 DEF WritesOnce, Open
  <2> QED
    BY <1>2, <2>1, <2>2
<1> QED
  BY <1>0, <1>3, <1>4

LEMMA CommitAhead ==
  ASSUME Typed, NoneAhead, NEW w \in Writers, Commit(w) PROVE NoneAhead'
<1>1. Typed'
  BY CommitTyped
<1> DEFINE t == tx[w]
<1>2. /\ t.pc = "commit" /\ event' = [event EXCEPT ![t.ev] = t.row]
      /\ asked' = asked /\ rebuild' = rebuild
      /\ \A v \in Writers : tx'[v] = IF v = w THEN NoTx ELSE tx[v]
  BY DEF Commit, Typed
<1>3. \A b \in Buckets : rollup'[b] = IF b \in DOMAIN t.made THEN t.made[b] ELSE rollup[b]
  BY TxFacts, OverTyped DEF Commit, Typed
<1>4. t.row \in Rows /\ t.ev \in Events
  BY <1>2, TxFacts
<1>5. ASSUME WrittenOnce
      PROVE  /\ \A e \in Stored : event'[e] = event[e]
             /\ \A b \in Buckets : rollup'[b] # NoRow => rollup'[b].count <= Count(b)'
             /\ \A v \in Writers : \/ tx'[v] = tx[v] /\ (Open(v) => event'[tx[v].ev] = NoRow)
                                   \/ tx'[v] = NoTx
  <2>1. WritesOnce(w, t) /\ event[t.ev] = NoRow
    BY <1>2, <1>5 DEF NoneAhead, WritesOnce
  <2>2. \A e \in Stored : event'[e] = event[e]
    BY <1>2, <1>4, <2>1 DEF Stored, Typed
  <2>3. \A b : Count(b) \in Nat /\ Count(b)' \in Nat /\ Count(b) <= Count(b)'
    BY <1>1, <2>2, CountGrows
  <2>4. ASSUME NEW b, b = BucketOf(t.row) PROVE Count(b)' = Count(b) + 1
    <3>1. t.ev \notin EventsIn(b)
      BY <2>1 DEF EventsIn, Stored
    <3>2. EventsIn(b)' = EventsIn(b) \cup {t.ev}
      <4>1. Stored' = Stored \cup {t.ev}
        BY <1>2, <1>4, RowsAssumption DEF Stored, Typed
      <4>2. event'[t.ev] = t.row /\ \A e \in Stored : event'[e] = event[e]
        BY <1>2, <1>4, <2>2 DEF Typed
      <4> QED
        BY <2>4, <4>1, <4>2 DEF EventsIn
    <3>3. IsFiniteSet(EventsIn(b))
      BY EventsInFacts
    <3> QED
      BY <3>1, <3>2, <3>3, FS_AddElement DEF Count
  <2>5. ASSUME NEW b \in Buckets, rollup'[b] # NoRow PROVE rollup'[b].count <= Count(b)'
    <3>1. CASE b \in DOMAIN t.made
      BY <3>1, <1>3, <2>1, <2>4 DEF WritesOnce
    <3>2. CASE b \notin DOMAIN t.made
      <4>1. rollup'[b] = rollup[b] /\ rollup[b] # NoRow
        BY <3>2, <1>3, <2>5
      <4>2. rollup[b].count \in Nat
        BY <4>1, SumsAre DEF Typed
      <4>3. rollup[b].count <= Count(b)
        BY <1>5, <4>1 DEF NoneAhead
      <4> QED
        BY <2>3, <4>1, <4>2, <4>3
    <3> QED
      BY <3>1, <3>2
  <2>6. ASSUME NEW v \in Writers, v # w, Open(v) PROVE event'[tx[v].ev] = NoRow
    <3>1. event[tx[v].ev] = NoRow /\ tx[v].ev # t.ev /\ tx[v].ev \in Events
      <4>1. WritesOnce(v, tx[v])
        BY <1>5 DEF NoneAhead
      <4> QED
        BY <1>2, <2>6, <4>1, TxFacts DEF WritesOnce, Open
    <3> QED
      BY <1>2, <3>1 DEF Typed
  <2> QED
    BY <1>2, <2>2, <2>5, <2>6
<1> HIDE DEF t
<1> QED
  BY <1>1, <1>2, <1>5, EventWrittenAhead

LEMMA BackfillEventAhead ==
  ASSUME Typed, NoneAhead, NEW e \in Events, NEW row \in Rows, BackfillEvent(e, row)
  PROVE  NoneAhead'
<1>1. Typed'
  BY BackfillEventTyped
<1>2. /\ event[e] = NoRow /\ e \in Legacy /\ event' = [event EXCEPT ![e] = row]
      /\ asked' = asked /\ rebuild' = rebuild /\ tx' = tx /\ rollup' = rollup
  BY DEF BackfillEvent
<1>3. \A d \in Stored : event'[d] = event[d]
  BY <1>2 DEF Stored, Typed
<1>4. \A v \in Writers : WrittenOnce /\ Open(v) => event'[tx[v].ev] = NoRow
  BY <1>2, TxFacts DEF NoneAhead, WritesOnce, Open, Typed
<1>5. WrittenOnce => \A b \in Buckets : rollup'[b] # NoRow => rollup'[b].count <= Count(b)'
  <2> SUFFICES ASSUME WrittenOnce, NEW b \in Buckets, rollup[b] # NoRow
               PROVE  rollup[b].count <= Count(b)'
    BY <1>2
  <2>1. rollup[b].count <= Count(b) /\ rollup[b].count \in Nat
    BY SumsAre DEF NoneAhead, Typed
  <2>2. Count(b) \in Nat /\ Count(b)' \in Nat /\ Count(b) <= Count(b)'
    BY <1>1, <1>3, CountGrows
  <2> QED
    BY <2>1, <2>2
<1> QED
  BY <1>1, <1>2, <1>3, <1>4, <1>5, EventWrittenAhead

\* A step of the backfill that writes no event.
LEMMA RebuildStepAhead ==
  ASSUME NoneAhead, UNCHANGED <<event, tx, asked>>,
         WrittenOnce => \A b \in Buckets : rollup'[b] # NoRow => rollup'[b].count <= Count(b),
         WrittenOnce /\ rebuild'.pc = "write" =>
           \A b \in DOMAIN rebuild'.sums : rebuild'.sums[b].count <= Count(b)
  PROVE  NoneAhead'
<1>1. WrittenOnce' <=> WrittenOnce
  BY DEF WrittenOnce
<1>2. \A b : Count(b)' = Count(b)
  BY DEF Count, EventsIn, Stored
<1>3. \A v \in Writers : WritesOnce(v, tx[v])' <=> WritesOnce(v, tx[v])
  BY DEF WritesOnce, Count, EventsIn, Stored, BucketOf, Open
<1> QED
  BY <1>1, <1>2, <1>3 DEF NoneAhead

LEMMA NoneAheadPreserved == ASSUME Typed, NoneAhead, [Next]_vars PROVE NoneAhead'
<1>1. ASSUME NEW w \in Writers, ReadPrevious(w) PROVE NoneAhead'
  <2> DEFINE t == [tx[w] EXCEPT !.pc = "upsert", !.prev = event[tx[w].ev]]
  <2>1. tx' = [tx EXCEPT ![w] = t] /\ UNCHANGED <<event, rollup, rebuild>> /\ asked' = asked
        /\ tx[w].pc = "read"
    BY <1>1 DEF ReadPrevious
  <2>2. t.pc = "upsert" /\ t.made = tx[w].made /\ t.ev = tx[w].ev /\ t.prev = event[tx[w].ev]
    BY TxFacts DEF Transactions
  <2>3. WrittenOnce' => WrittenOnce
    BY <2>1 DEF WrittenOnce
  <2> HIDE DEF t
  <2>4. WrittenOnce' => WritesOnce(w, t)
    BY <2>1, <2>2, <2>3 DEF NoneAhead, WritesOnce
  <2> QED
    BY <2>1, <2>3, <2>4, TxStepAhead
<1>2. ASSUME NEW w \in Writers, UpsertEvent(w) PROVE NoneAhead'
  <2> DEFINE t == [tx[w] EXCEPT !.pc = IF tx[w].prev = NoRow THEN "plus_read" ELSE "minus_read"]
  <2>1. tx' = [tx EXCEPT ![w] = t] /\ UNCHANGED <<event, rollup, rebuild>> /\ asked' = asked
        /\ tx[w].pc = "upsert"
    BY <1>2 DEF UpsertEvent
  <2>2. /\ t.pc \in {"plus_read", "minus_read"} /\ t.made = tx[w].made /\ t.ev = tx[w].ev
        /\ t.prev = tx[w].prev
    BY TxFacts DEF Transactions
  <2>3. WrittenOnce' => WrittenOnce
    BY <2>1 DEF WrittenOnce
  <2> HIDE DEF t
  <2>4. WrittenOnce' => WritesOnce(w, t)
    BY <2>1, <2>2, <2>3 DEF NoneAhead, WritesOnce
  <2> QED
    BY <2>1, <2>3, <2>4, TxStepAhead
<1>3. ASSUME NEW w \in Writers, Rollback(w) PROVE NoneAhead'
  <2> DEFINE t == NoTx
  <2>1. tx' = [tx EXCEPT ![w] = t] /\ t.pc = "idle" /\ t.made = <<>>
        /\ UNCHANGED <<event, rollup, rebuild>> /\ asked' = asked
    BY <1>3, NoTxTyped DEF Rollback
  <2>2. WrittenOnce' => WrittenOnce
    BY <2>1 DEF WrittenOnce
  <2> HIDE DEF t
  <2>3. WritesOnce(w, t)
    BY <2>1, NothingMade DEF WritesOnce
  <2> QED
    BY <2>1, <2>2, <2>3, TxStepAhead
<1>4. ASSUME RebuildDelete PROVE NoneAhead'
  <2>1. rebuild'.pc = "read" /\ UNCHANGED <<event, tx, asked>>
        /\ \A b \in Buckets : rollup'[b] = NoRow
    BY <1>4 DEF RebuildDelete, Typed, RebuildTyped
  <2> QED
    BY <2>1, RebuildStepAhead
<1>5. ASSUME RebuildRead PROVE NoneAhead'
  <2>1. rebuild'.sums = BucketSums
    BY <1>5, RebuildReadTyped
  <2>2. \A b \in DOMAIN BucketSums : BucketSums[b].count <= Count(b)
    <3> SUFFICES ASSUME NEW b \in DOMAIN BucketSums PROVE BucketSums[b].count <= Count(b)
      OBVIOUS
    <3>1. BucketSums[b] = Total(EventsIn(b), event)
      BY DEF BucketSums
    <3>2. BucketSums[b].count = Count(b)
      BY <3>1, TotalOfBucket DEF Count
    <3>3. Count(b) \in Nat
      BY EventsInFacts, FS_CardinalityType DEF Count
    <3> QED
      BY <3>2, <3>3
  <2>3. UNCHANGED <<event, tx, asked>> /\ rollup' = rollup
    BY <1>5 DEF RebuildRead
  <2>4. WrittenOnce => \A b \in Buckets : rollup'[b] # NoRow => rollup'[b].count <= Count(b)
    BY <2>3 DEF NoneAhead
  <2> QED
    BY <2>1, <2>2, <2>3, <2>4, RebuildStepAhead
<1>6. ASSUME RebuildWrite PROVE NoneAhead'
  <2>1. rebuild.pc = "write" /\ UNCHANGED <<event, tx, asked>> /\ rebuild'.pc # "write"
        /\ (rollup' = rollup \/ rollup' = Over(NewRows, rollup))
    BY <1>6, RebuildWriteIs
  <2>2. \A b \in Buckets : Over(NewRows, rollup)[b] = IF b \in DOMAIN NewRows THEN NewRows[b]
          ELSE rollup[b]
    BY <2>1, NewRowsTyped, OverTyped DEF Typed
  <2>3. WrittenOnce => \A b \in DOMAIN NewRows : NewRows[b].count <= Count(b)
    BY <2>1, NewRowsTyped DEF NoneAhead
  <2>4. WrittenOnce => \A b \in Buckets : rollup'[b] # NoRow => rollup'[b].count <= Count(b)
    BY <2>1, <2>2, <2>3 DEF NoneAhead
  <2> QED
    BY <2>1, <2>4, RebuildStepAhead
<1>7. ASSUME RebuildFails PROVE NoneAhead'
  <2>1. rebuild'.pc = "failed" /\ UNCHANGED <<event, tx, asked>> /\ rollup' = rollup
    BY <1>7 DEF RebuildFails
  <2>2. WrittenOnce => \A b \in Buckets : rollup'[b] # NoRow => rollup'[b].count <= Count(b)
    BY <2>1 DEF NoneAhead
  <2> QED
    BY <2>1, <2>2, RebuildStepAhead
<1>8. CASE UNCHANGED vars
  <2>1. UNCHANGED <<event, tx, asked>> /\ rollup' = rollup /\ rebuild' = rebuild
    BY <1>8 DEF vars
  <2>2. WrittenOnce => \A b \in Buckets : rollup'[b] # NoRow => rollup'[b].count <= Count(b)
    BY <2>1 DEF NoneAhead
  <2>3. WrittenOnce /\ rebuild'.pc = "write" =>
          \A b \in DOMAIN rebuild'.sums : rebuild'.sums[b].count <= Count(b)
    BY <2>1 DEF NoneAhead
  <2> QED
    BY <2>1, <2>2, <2>3, RebuildStepAhead
<1>9. ASSUME NEW w \in Writers, Persist(w) PROVE NoneAhead'
  BY <1>1, <1>2, <1>3, <1>9, BeginAhead, ReadBucketAhead, WriteBucketAhead, CommitAhead DEF Persist
<1>10. ASSUME Backfill PROVE NoneAhead'
  BY <1>4, <1>5, <1>6, <1>7, <1>10, BackfillEventAhead DEF Backfill
<1> QED
  BY <1>8, <1>9, <1>10 DEF Next

-----------------------------------------------------------------------------
(* Persists and the backfill, one after the other.  While the event leaves a*)
(* bucket and enters another, the rows that its transaction would leave say*)
(* what the other events contribute, and at the commit what all contribute.*)

\* A row, or the absence of one, says what the events in S contribute.
Matches(r, S, ev) == IF r = NoRow THEN S = {} ELSE Plus(r, Zero) = Total(S, ev)

\* The bucket, as the transaction leaves it.
Leaves(t, b) == IF b \in DOMAIN t.made THEN t.made[b] ELSE rollup[b]

\* The events when the transaction has committed.
After(t) == [event EXCEPT ![t.ev] = t.row]
EventsAfter(t, b) == {e \in Stored \cup {t.ev} : BucketOf(After(t)[e]) = b}

\* A transaction that runs alone: its event first leaves its bucket, then enters another.
Tracks(t) ==
  /\ t.pc \notin {"idle", "read"} => t.prev = event[t.ev]
  /\ t.pc = "minus_write" => t.seen = rollup[BucketOf(t.prev)]
  /\ t.pc = "plus_write" => t.seen = Leaves(t, BucketOf(t.row))
  /\ Complete =>
       /\ t.pc \in {"plus_read", "plus_write"} =>
            \A b \in Buckets : Matches(Leaves(t, b), EventsIn(b) \ {t.ev}, event)
       /\ t.pc = "commit" =>
            \A b \in Buckets : Matches(Leaves(t, b), EventsAfter(t, b), After(t))

AllMatch == \A b \in Buckets : Matches(rollup[b], EventsIn(b), event)

Serial ==
  ~overlap =>
    /\ \A v, w \in Writers : Open(v) /\ Open(w) => v = w
    /\ rebuild.pc \in {"read", "write"} =>
         (\A w \in Writers : ~Open(w)) /\ \A b \in Buckets : rollup[b] = NoRow
    /\ rebuild.pc = "write" => rebuild.sums = BucketSums
    /\ \A w \in Writers : Tracks(tx[w])
    /\ Complete => AllMatch

LEMMA SameColumns ==
  ASSUME NEW r, r.count \in Int, r.success \in Int, r.failed \in Int, r.tokens \in Int,
         NEW t \in Vectors
  PROVE  Plus(r, Zero) = t <=> /\ r.count = t.count /\ r.success = t.success
                               /\ r.failed = t.failed /\ r.tokens = t.tokens
<1> DEFINE p == Plus(r, Zero)
<1>1. Zero.count = 0 /\ Zero.success = 0 /\ Zero.failed = 0 /\ Zero.tokens = 0
  BY DEF Zero
<1>2. /\ p \in Vectors
      /\ p.count = r.count + 0 /\ p.success = r.success + 0
      /\ p.failed = r.failed + 0 /\ p.tokens = r.tokens + 0
  BY <1>1, PlusIs
<1> HIDE DEF p
<1>3. p.count = r.count /\ p.success = r.success /\ p.failed = r.failed /\ p.tokens = r.tokens
  BY <1>2
<1>4. p = t <=> /\ r.count = t.count /\ r.success = t.success
                /\ r.failed = t.failed /\ r.tokens = t.tokens
  <2>1. CASE p = t
    BY <1>3, <2>1
  <2>2. ASSUME /\ r.count = t.count /\ r.success = t.success
               /\ r.failed = t.failed /\ r.tokens = t.tokens
        PROVE  p = t
    BY <1>2, <1>3, <2>2, EqualVectors
  <2> QED
    BY <2>1, <2>2
<1> QED
  BY <1>4 DEF p

LEMMA TotalNat ==
  ASSUME NEW S, IsFiniteSet(S), S \subseteq Events, NEW ev, \A e \in S : ev[e] \in Rows
  PROVE  LET t == Total(S, ev)
         IN  /\ t \in Vectors
             /\ t.count \in Nat /\ t.success \in Nat /\ t.failed \in Nat /\ t.tokens \in Nat
BY TotalIs

\* An event leaves a bucket: its row says what the others contribute.
LEMMA LeavingMatches ==
  ASSUME NEW S, IsFiniteSet(S), S \subseteq Events, \A d \in S : event[d] \in Rows, NEW e \in S,
         NEW r \in Sums, Plus(r, Zero) = Total(S, event)
  PROVE  LET n == Clamp(Plus(r, Negated(Contribution(event[e]))), r.id)
         IN  n \in Sums /\ Plus(n, Zero) = Total(S \ {e}, event)
<1> DEFINE c == Contribution(event[e])
           d == Negated(c)
           t == Total(S, event)
           u == Total(S \ {e}, event)
           p == Plus(r, d)
           n == Clamp(p, r.id)
<1>1. c.count \in Nat /\ c.success \in Nat /\ c.failed \in Nat /\ c.tokens \in Nat
  BY ContributionIs
<1>2. /\ u \in Vectors
      /\ u.count \in Nat /\ u.success \in Nat /\ u.failed \in Nat /\ u.tokens \in Nat
  <2> DEFINE T == S \ {e}
  <2>1. IsFiniteSet(T) /\ T \subseteq Events /\ \A x \in T : event[x] \in Rows
    BY FS_Subset
  <2> HIDE DEF T
  <2>2. LET y == Total(T, event)
        IN  /\ y \in Vectors
            /\ y.count \in Nat /\ y.success \in Nat /\ y.failed \in Nat /\ y.tokens \in Nat
    BY <2>1, TotalNat
  <2> QED
    BY <2>2 DEF T
<1>3. t = Plus(c, u) /\ t \in Vectors
  BY TotalRule
<1>4. /\ d.count = 0 - c.count /\ d.success = 0 - c.success
      /\ d.failed = 0 - c.failed /\ d.tokens = 0 - c.tokens
  BY DEF Negated
<1>5. r.id \in Nat /\ r.count \in Nat /\ r.success \in Nat /\ r.failed \in Nat /\ r.tokens \in Nat
  BY SumsAre
<1> HIDE DEF c, d, t, u
<1>6. /\ t.count = c.count + u.count /\ t.success = c.success + u.success
      /\ t.failed = c.failed + u.failed /\ t.tokens = c.tokens + u.tokens
  BY <1>1, <1>2, <1>3, PlusIs
<1>7. /\ r.count = t.count /\ r.success = t.success /\ r.failed = t.failed /\ r.tokens = t.tokens
  BY <1>3, <1>5, SameColumns DEF t
<1>8. /\ p.count = r.count + d.count /\ p.success = r.success + d.success
      /\ p.failed = r.failed + d.failed /\ p.tokens = r.tokens + d.tokens
  BY <1>1, <1>4, <1>5, PlusIs
<1> HIDE DEF p
<1>9. p.count = u.count /\ p.success = u.success /\ p.failed = u.failed /\ p.tokens = u.tokens
  BY <1>1, <1>2, <1>4, <1>6, <1>7, <1>8
<1>10. /\ n \in Sums
       /\ n.count = IF p.count > 0 THEN p.count ELSE 0
       /\ n.success = IF p.success > 0 THEN p.success ELSE 0
       /\ n.failed = IF p.failed > 0 THEN p.failed ELSE 0
       /\ n.tokens = IF p.tokens > 0 THEN p.tokens ELSE 0
  BY <1>2, <1>5, <1>9, ClampIs
<1> HIDE DEF n
<1>11. n.count = u.count /\ n.success = u.success /\ n.failed = u.failed /\ n.tokens = u.tokens
  BY <1>2, <1>9, <1>10
<1>12. Plus(n, Zero) = u
  BY <1>2, <1>11, SameColumns
<1> QED
  BY <1>10, <1>12 DEF n, p, d, c, u

\* An event enters a bucket: its row says what all contribute.
LEMMA EnteringMatches ==
  ASSUME NEW S, IsFiniteSet(S), S \subseteq Events, NEW ev, NEW e \in S,
         \A d \in S : ev[d] \in Rows,
         NEW r, NEW id \in Nat,
         r.count \in Int, r.success \in Int, r.failed \in Int, r.tokens \in Int,
         Plus(r, Zero) = Total(S \ {e}, ev)
  PROVE  LET n == Clamp(Plus(r, Contribution(ev[e])), id)
         IN  n \in Sums /\ Plus(n, Zero) = Total(S, ev)
<1> DEFINE c == Contribution(ev[e])
           t == Total(S, ev)
           u == Total(S \ {e}, ev)
           p == Plus(r, c)
           n == Clamp(p, id)
<1>1. c.count \in Nat /\ c.success \in Nat /\ c.failed \in Nat /\ c.tokens \in Nat
  BY ContributionIs
<1>2. /\ u \in Vectors
      /\ u.count \in Nat /\ u.success \in Nat /\ u.failed \in Nat /\ u.tokens \in Nat
  <2> DEFINE T == S \ {e}
  <2>1. IsFiniteSet(T) /\ T \subseteq Events /\ \A x \in T : ev[x] \in Rows
    BY FS_Subset
  <2> HIDE DEF T
  <2>2. LET y == Total(T, ev)
        IN  /\ y \in Vectors
            /\ y.count \in Nat /\ y.success \in Nat /\ y.failed \in Nat /\ y.tokens \in Nat
    BY <2>1, TotalNat
  <2> QED
    BY <2>2 DEF T
<1>3. t = Plus(c, u) /\ t \in Vectors
  BY TotalRule
<1> HIDE DEF c, t
<1>6. /\ t.count = c.count + u.count /\ t.success = c.success + u.success
      /\ t.failed = c.failed + u.failed /\ t.tokens = c.tokens + u.tokens
  <2> HIDE DEF u
  <2> QED
    BY <1>1, <1>2, <1>3, PlusIs
<1>7. /\ r.count = u.count /\ r.success = u.success /\ r.failed = u.failed /\ r.tokens = u.tokens
  BY <1>2, SameColumns
<1> HIDE DEF u
<1>8. /\ p.count = r.count + c.count /\ p.success = r.success + c.success
      /\ p.failed = r.failed + c.failed /\ p.tokens = r.tokens + c.tokens
  BY <1>1, PlusIs
<1> HIDE DEF p
<1>9. p.count = t.count /\ p.success = t.success /\ p.failed = t.failed /\ p.tokens = t.tokens
  BY <1>1, <1>2, <1>6, <1>7, <1>8
<1>a. t.count \in Nat /\ t.success \in Nat /\ t.failed \in Nat /\ t.tokens \in Nat
  BY TotalNat DEF t
<1>10. /\ n \in Sums
       /\ n.count = IF p.count > 0 THEN p.count ELSE 0
       /\ n.success = IF p.success > 0 THEN p.success ELSE 0
       /\ n.failed = IF p.failed > 0 THEN p.failed ELSE 0
       /\ n.tokens = IF p.tokens > 0 THEN p.tokens ELSE 0
  BY <1>a, <1>9, ClampIs
<1> HIDE DEF n
<1>11. n.count = t.count /\ n.success = t.success /\ n.failed = t.failed /\ n.tokens = t.tokens
  BY <1>a, <1>9, <1>10
<1>12. Plus(n, Zero) = t
  <2>1. /\ n.count \in Int /\ n.success \in Int /\ n.failed \in Int /\ n.tokens \in Int
    BY <1>a, <1>11
  <2> QED
    BY <1>3, <1>11, <2>1, SameColumns
<1> QED
  BY <1>10, <1>12 DEF n, p, c, t

\* The first event of a bucket.
LEMMA FirstMatches ==
  ASSUME NEW ev, NEW e \in Events, ev[e] \in Rows, NEW id \in Nat
  PROVE  LET n == Clamp(Contribution(ev[e]), id)
         IN  n \in Sums /\ Plus(n, Zero) = Total({e}, ev)
<1> DEFINE c == Contribution(ev[e])
           n == Clamp(c, id)
           t == Total({e}, ev)
<1>1. c.count \in Nat /\ c.success \in Nat /\ c.failed \in Nat /\ c.tokens \in Nat
  BY ContributionIs
<1>2. IsFiniteSet({e}) /\ {e} \subseteq Events
  BY FS_Singleton
<1>3. t = Plus(c, Total({e} \ {e}, ev)) /\ t \in Vectors /\ Total({}, ev) = Zero
  BY <1>2, TotalRule
<1>4. t = Plus(c, Zero)
  BY <1>3
<1> HIDE DEF c, t
<1>5. c.count = t.count /\ c.success = t.success /\ c.failed = t.failed /\ c.tokens = t.tokens
  BY <1>1, <1>3, <1>4, SameColumns
<1>6. /\ n \in Sums
      /\ n.count = IF c.count > 0 THEN c.count ELSE 0
      /\ n.success = IF c.success > 0 THEN c.success ELSE 0
      /\ n.failed = IF c.failed > 0 THEN c.failed ELSE 0
      /\ n.tokens = IF c.tokens > 0 THEN c.tokens ELSE 0
  BY <1>1, ClampIs
<1> HIDE DEF n
<1>7. n.count = c.count /\ n.success = c.success /\ n.failed = c.failed /\ n.tokens = c.tokens
  BY <1>1, <1>6
<1>8. Plus(n, Zero) = t
  BY <1>1, <1>3, <1>5, <1>7, SameColumns
<1> QED
  BY <1>6, <1>8 DEF n, c, t

\* A step of one transaction, alone, that commits nothing.
LEMMA TxStepSerial ==
  ASSUME Typed, Serial, NEW w \in Writers, NEW t, tx' = [tx EXCEPT ![w] = t],
         UNCHANGED <<event, rollup, rebuild>>,
         ~overlap' => ~overlap,
         ~overlap' /\ t.pc # "idle" => /\ rebuild.pc \notin {"read", "write"}
                                       /\ \A v \in Writers \ {w} : ~Open(v),
         ~overlap' => Tracks(t)
  PROVE  Serial'
<1> SUFFICES ASSUME ~overlap'
             PROVE  /\ \A v, x \in Writers : Open(v)' /\ Open(x)' => v = x
                    /\ rebuild'.pc \in {"read", "write"} =>
                         (\A v \in Writers : ~Open(v)') /\ \A b \in Buckets : rollup'[b] = NoRow
                    /\ rebuild'.pc = "write" => rebuild'.sums = BucketSums'
                    /\ \A v \in Writers : Tracks(tx[v])'
                    /\ Complete' => AllMatch'
  BY DEF Serial
<1>1. \A v \in Writers : tx'[v] = IF v = w THEN t ELSE tx[v]
  BY DEF Typed
<1>2. ~overlap
  OBVIOUS
<1>3. \A v, x \in Writers : Open(v)' /\ Open(x)' => v = x
  BY <1>1, <1>2 DEF Serial, Open
<1>4. rebuild'.pc \in {"read", "write"} =>
        (\A v \in Writers : ~Open(v)') /\ \A b \in Buckets : rollup'[b] = NoRow
  BY <1>1, <1>2 DEF Serial, Open
<1>5. \A b : EventsIn(b)' = EventsIn(b)
  BY DEF EventsIn, Stored
<1>6. BucketSums' = BucketSums
  BY <1>5 DEF BucketSums, EventsIn, Stored
<1>7. Complete' <=> Complete
  BY DEF Complete
<1>8. AllMatch' <=> AllMatch
  BY DEF AllMatch, Matches, EventsIn, Stored
<1>9. ASSUME NEW v \in Writers PROVE Tracks(tx[v])'
  <2>1. Tracks(tx'[v])
    BY <1>1, <1>2 DEF Serial
  <2> DEFINE u == tx'[v]
  <2>2. Stored' = Stored /\ event' = event /\ rollup' = rollup
    BY DEF Stored
  <2>3. \A b : /\ Leaves(tx[v], b)' = Leaves(u, b)
               /\ EventsAfter(tx[v], b)' = EventsAfter(u, b)
               /\ (EventsIn(b) \ {tx[v].ev})' = EventsIn(b) \ {u.ev}
    BY <1>5, <2>2 DEF Leaves, EventsAfter, After
  <2>4. After(tx[v])' = After(u) /\ BucketOf(tx[v].prev)' = BucketOf(u.prev)
        /\ BucketOf(tx[v].row)' = BucketOf(u.row)
    BY <2>2 DEF After
  <2>5. \A b : /\ Matches(Leaves(tx[v], b), EventsIn(b) \ {tx[v].ev}, event)'
                    <=> Matches(Leaves(u, b), EventsIn(b) \ {u.ev}, event)
               /\ Matches(Leaves(tx[v], b), EventsAfter(tx[v], b), After(tx[v]))'
                    <=> Matches(Leaves(u, b), EventsAfter(u, b), After(u))
    BY <2>2, <2>3, <2>4 DEF Matches
  <2>6. Leaves(tx[v], BucketOf(tx[v].row))' = Leaves(u, BucketOf(u.row))
    BY <2>2 DEF Leaves
  <2> QED
    BY <1>7, <2>1, <2>2, <2>4, <2>5, <2>6 DEF Tracks
<1> QED
  BY <1>2, <1>3, <1>4, <1>6, <1>7, <1>8, <1>9 DEF Serial

LEMMA AloneWhenSerial ==
  ASSUME Typed, Serial, ~overlap, NEW w \in Writers, tx[w].pc # "idle"
  PROVE  /\ rebuild.pc \notin {"read", "write"} /\ \A v \in Writers \ {w} : ~Open(v)
         /\ Tracks(tx[w])
         /\ Complete => AllMatch
BY DEF Serial, Open

LEMMA BeginSerial ==
  ASSUME Typed, Serial, NEW w \in Writers, NEW e \in Events, NEW row \in Rows,
         NEW who \in {"proxy", "upload"}, Begin(w, e, row, who)
  PROVE  Serial'
<1> DEFINE t == [NoTx EXCEPT !.pc = "read", !.ev = e, !.row = row]
<1>1. tx' = [tx EXCEPT ![w] = t] /\ UNCHANGED <<event, rollup, rebuild>>
      /\ overlap' = (overlap \/ Running)
  BY DEF Begin
<1>2. t.pc = "read"
  BY DEF NoTx
<1>3. ~overlap' => /\ ~overlap /\ rebuild.pc \notin {"read", "write"}
                   /\ \A v \in Writers \ {w} : ~Open(v)
  BY <1>1 DEF Running
<1> HIDE DEF t
<1>4. Tracks(t)
  BY <1>2 DEF Tracks
<1> QED
  BY <1>1, <1>3, <1>4, TxStepSerial

LEMMA ReadPreviousSerial ==
  ASSUME Typed, Serial, NEW w \in Writers, ReadPrevious(w) PROVE Serial'
<1> DEFINE t == [tx[w] EXCEPT !.pc = "upsert", !.prev = event[tx[w].ev]]
<1>1. tx' = [tx EXCEPT ![w] = t] /\ UNCHANGED <<event, rollup, rebuild>> /\ overlap' = overlap
      /\ tx[w].pc = "read"
  BY DEF ReadPrevious
<1>2. t.pc = "upsert" /\ t.prev = event[tx[w].ev] /\ t.ev = tx[w].ev
  BY TxFacts DEF Transactions
<1> HIDE DEF t
<1>3. Tracks(t)
  BY <1>2 DEF Tracks
<1>4. ~overlap' => rebuild.pc \notin {"read", "write"} /\ \A v \in Writers \ {w} : ~Open(v)
  BY <1>1, AloneWhenSerial
<1> QED
  BY <1>1, <1>3, <1>4, TxStepSerial

LEMMA UpsertEventSerial ==
  ASSUME Typed, Serial, NEW w \in Writers, UpsertEvent(w) PROVE Serial'
<1> DEFINE t == [tx[w] EXCEPT !.pc = IF tx[w].prev = NoRow THEN "plus_read" ELSE "minus_read"]
<1>1. tx' = [tx EXCEPT ![w] = t] /\ UNCHANGED <<event, rollup, rebuild>> /\ overlap' = overlap
      /\ tx[w].pc = "upsert"
  BY DEF UpsertEvent
<1>2. /\ t.pc = IF tx[w].prev = NoRow THEN "plus_read" ELSE "minus_read"
      /\ t.ev = tx[w].ev /\ t.prev = tx[w].prev /\ t.made = <<>>
  BY <1>1, TxFacts DEF Transactions, Shaped
<1> HIDE DEF t
<1>3. ~overlap => rebuild.pc \notin {"read", "write"} /\ (\A v \in Writers \ {w} : ~Open(v))
                  /\ Tracks(tx[w]) /\ (Complete => AllMatch)
  BY <1>1, AloneWhenSerial
<1>4. ~overlap => Tracks(t)
  <2> SUFFICES ASSUME ~overlap PROVE Tracks(t)
    OBVIOUS
  <2>1. t.prev = event[t.ev]
    BY <1>1, <1>2, <1>3 DEF Tracks
  <2>2. t.pc = "plus_read" /\ Complete =>
          \A b \in Buckets : Matches(Leaves(t, b), EventsIn(b) \ {t.ev}, event)
    <3> SUFFICES ASSUME t.pc = "plus_read", Complete, NEW b \in Buckets
                 PROVE  Matches(Leaves(t, b), EventsIn(b) \ {t.ev}, event)
      OBVIOUS
    <3>1. event[t.ev] = NoRow
      BY <1>2, <2>1
    <3>2. EventsIn(b) \ {t.ev} = EventsIn(b)
      BY <3>1 DEF EventsIn, Stored
    <3>3. Leaves(t, b) = rollup[b]
      BY <1>2, NothingMade DEF Leaves
    <3> QED
      BY <1>3, <3>2, <3>3 DEF AllMatch
  <2> QED
    BY <1>2, <2>1, <2>2 DEF Tracks
<1> QED
  BY <1>1, <1>3, <1>4, TxStepSerial

LEMMA ReadBucketSerial ==
  ASSUME Typed, Serial, NEW w \in Writers, ReadBucket(w) PROVE Serial'
<1> DEFINE pc == IF tx[w].pc = "minus_read" THEN "minus_write" ELSE "plus_write"
           t == [tx[w] EXCEPT !.pc = pc, !.seen = Visible(w, Target(w))]
<1>1. tx' = [tx EXCEPT ![w] = t] /\ tx[w].pc \in {"minus_read", "plus_read"}
      /\ UNCHANGED <<event, rollup, rebuild>> /\ overlap' = overlap
  BY DEF ReadBucket
<1>2. /\ t.made = tx[w].made /\ t.seen = Visible(w, Target(w)) /\ t.prev = tx[w].prev
      /\ t.row = tx[w].row /\ t.pc = pc /\ t.ev = tx[w].ev
  BY TxFacts DEF Transactions
<1> HIDE DEF t
<1>3. ~overlap => rebuild.pc \notin {"read", "write"} /\ (\A v \in Writers \ {w} : ~Open(v))
                  /\ Tracks(tx[w])
  BY <1>1, AloneWhenSerial
<1>4. \A b : Leaves(t, b) = Visible(w, b) /\ Leaves(t, b) = Leaves(tx[w], b)
  BY <1>2 DEF Leaves, Visible, HoldsBucket
<1>5. ~overlap => Tracks(t)
  <2> SUFFICES ASSUME ~overlap PROVE Tracks(t)
    OBVIOUS
  <2>1. t.prev = event[t.ev]
    BY <1>1, <1>2, <1>3 DEF Tracks
  <2>2. t.pc = "minus_write" => t.seen = rollup[BucketOf(t.prev)]
    <3> SUFFICES ASSUME t.pc = "minus_write" PROVE t.seen = rollup[BucketOf(t.prev)]
      OBVIOUS
    <3>1. tx[w].pc = "minus_read"
      BY <1>1, <1>2
    <3>2. tx[w].made = <<>>
      BY <3>1, TxFacts DEF Shaped
    <3> QED
      BY <1>2, <3>1, <3>2, NothingMade DEF Visible, HoldsBucket, Target
  <2>3. t.pc = "plus_write" => t.seen = Leaves(t, BucketOf(t.row))
    BY <1>1, <1>2, <1>4 DEF Target
  <2>4. t.pc = "plus_write" /\ Complete =>
          \A b \in Buckets : Matches(Leaves(t, b), EventsIn(b) \ {t.ev}, event)
    BY <1>1, <1>2, <1>3, <1>4 DEF Tracks
  <2> QED
    BY <1>2, <2>1, <2>2, <2>3, <2>4 DEF Tracks
<1> QED
  BY <1>1, <1>3, <1>5, TxStepSerial

LEMMA WroteIs ==
  ASSUME Typed, NEW w \in Writers, NEW b \in Buckets, NEW s \in Sums
  PROVE  /\ DOMAIN Wrote(w, b, s) = DOMAIN tx[w].made \cup {b}
         /\ Wrote(w, b, s)[b] = s
         /\ \A c \in DOMAIN tx[w].made : c # b => Wrote(w, b, s)[c] = tx[w].made[c]
<1> DEFINE m == tx[w].made
           n == Wrote(w, b, s)
<1>1. n = MadeWith(m, b, s) /\ m \in PartialRollups
  BY TxFacts DEF Wrote, MadeWith
<1> HIDE DEF m, n
<1>2. /\ DOMAIN n = DOMAIN m \cup {b}
      /\ n[b] = s
      /\ \A c \in DOMAIN m : c # b => n[c] = m[c]
  BY <1>1, MadeOne
<1> QED
  BY <1>2 DEF m, n

\* The row of the bucket that the event leaves.
LEMMA MinusWriteTracks ==
  ASSUME Typed, Serial, ~overlap, NEW w \in Writers, WriteBucket(w), tx[w].pc = "minus_write"
  PROVE  Tracks(tx'[w])
<1> DEFINE b == Target(w)
           seen == tx[w].seen
           d == Delta(w)
           t == tx'[w]
           e == tx[w].ev
<1>1. /\ b \in Buckets
      /\ t.pc = "plus_read"
      /\ t.ev = e /\ t.row = tx[w].row /\ t.prev = tx[w].prev
      /\ \/ seen = NoRow
         \/ /\ seen # NoRow
            /\ t.made = Wrote(w, b, Clamp(Plus(seen, d), seen.id))
            /\ Clamp(Plus(seen, d), seen.id) \in Sums
  <2>1. seen = NoRow /\ (d.count <= 0 \/ d.count > 0) => seen = NoRow
    OBVIOUS
  <2> QED
    BY WriteBucketIs
<1>2. Tracks(tx[w]) /\ (Complete => AllMatch)
  BY AloneWhenSerial
<1>3. tx[w].prev = event[e] /\ seen = rollup[b] /\ b = BucketOf(tx[w].prev)
  BY <1>2 DEF Tracks, Target
<1>4. tx[w].prev \in Rows /\ e \in Events /\ tx[w].made = <<>> /\ e \in Stored /\ e \in EventsIn(b)
  <2>1. tx[w].prev \in Rows /\ tx[w].prev # NoRow /\ e \in Events /\ tx[w].made = <<>>
    BY TxFacts DEF Shaped
  <2>2. e \in Stored
    BY <1>3, <2>1 DEF Stored
  <2> QED
    BY <1>3, <2>1, <2>2 DEF EventsIn
<1>5. ASSUME Complete, NEW c \in Buckets
      PROVE  Matches(Leaves(t, c), EventsIn(c) \ {t.ev}, event)
  <2> DEFINE S == EventsIn(b)
             n == Clamp(Plus(seen, d), seen.id)
  <2>1. Matches(rollup[b], S, event) /\ Matches(rollup[c], EventsIn(c), event)
    BY <1>1, <1>2, <1>5 DEF AllMatch
  <2>2. seen # NoRow /\ Plus(seen, Zero) = Total(S, event) /\ seen \in Sums
    BY <1>3, <1>4, <2>1, TxFacts DEF Matches
  <2>3. /\ DOMAIN t.made = {b} /\ t.made[b] = n
    <3>1. t.made = Wrote(w, b, n) /\ n \in Sums
      BY <1>1, <2>2
    <3> HIDE DEF n, b
    <3>2. DOMAIN Wrote(w, b, n) = DOMAIN tx[w].made \cup {b} /\ Wrote(w, b, n)[b] = n
      <4>1. b \in Buckets /\ n \in Sums
        BY <1>1, <3>1
      <4> QED
        BY <4>1, WroteIs
    <3> QED
      BY <1>4, <3>1, <3>2, NothingMade
  <2>4. d = Negated(Contribution(event[e]))
    BY <1>3 DEF Delta
  <2>5. IsFiniteSet(S) /\ S \subseteq Events /\ (\A x \in S : event[x] \in Rows) /\ e \in S
    BY <1>4, EventsInFacts
  <2>6. n \in Sums /\ Plus(n, Zero) = Total(S \ {e}, event)
    <3> HIDE DEF S, seen, e
    <3>1. LET y == Clamp(Plus(seen, Negated(Contribution(event[e]))), seen.id)
          IN  y \in Sums /\ Plus(y, Zero) = Total(S \ {e}, event)
      BY <2>2, <2>5, LeavingMatches
    <3> QED
      BY <2>4, <3>1
  <2> HIDE DEF n, t
  <2>7. CASE c = b
    <3>1. Leaves(t, c) = n /\ n # NoRow
      BY <2>3, <2>6, <2>7, RowsAssumption DEF Leaves
    <3> QED
      BY <1>1, <2>6, <2>7, <3>1 DEF Matches
  <2>8. CASE c # b
    <3>1. Leaves(t, c) = rollup[c]
      BY <2>3, <2>8 DEF Leaves
    <3>2. EventsIn(c) \ {t.ev} = EventsIn(c)
      BY <1>1, <1>3, <2>8 DEF EventsIn
    <3> QED
      BY <2>1, <3>1, <3>2
  <2> QED
    BY <2>7, <2>8
<1> HIDE DEF t
<1>6. Tracks(t)
  BY <1>1, <1>3, <1>5 DEF Tracks
<1> QED
  BY <1>6 DEF t

\* The row of the bucket that the event enters.
LEMMA PlusWriteTracks ==
  ASSUME Typed, Serial, ~overlap, NEW w \in Writers, WriteBucket(w), tx[w].pc = "plus_write"
  PROVE  Tracks(tx'[w])
<1> DEFINE b == Target(w)
           seen == tx[w].seen
           d == Delta(w)
           t == tx'[w]
           e == tx[w].ev
           row == tx[w].row
           ev == After(tx[w])
<1>0. row \in Rows /\ e \in Events /\ d = Contribution(row) /\ b = BucketOf(row) /\ births \in Nat
  BY TxFacts DEF Delta, Target, Typed
<1>a. d.count = 1
  BY <1>0, ContributionIs
<1>1. /\ b \in Buckets
      /\ t.pc = "commit"
      /\ t.ev = e /\ t.row = row /\ t.prev = tx[w].prev
      /\ \/ /\ seen = NoRow
            /\ t.made = Wrote(w, b, Clamp(d, births))
            /\ Clamp(d, births) \in Sums
         \/ /\ seen # NoRow
            /\ t.made = Wrote(w, b, Clamp(Plus(seen, d), seen.id))
            /\ Clamp(Plus(seen, d), seen.id) \in Sums
  <2>1. ~(d.count <= 0)
    BY <1>a
  <2> HIDE DEF d
  <2> QED
    BY <2>1, WriteBucketIs DEF d
<1>2. Tracks(tx[w]) /\ (Complete => AllMatch)
  BY AloneWhenSerial
<1>3. tx[w].prev = event[e] /\ seen = Leaves(tx[w], b)
  BY <1>0, <1>2 DEF Tracks
<1>4. ev \in [Events -> Rows \cup {NoRow}] /\ ev[e] = row
      /\ \A x \in Events : x # e => ev[x] = event[x]
  BY <1>0 DEF After, Typed
<1>5. ASSUME Complete, NEW c \in Buckets
      PROVE  Matches(Leaves(t, c), EventsAfter(t, c), After(t))
  <2> DEFINE S == EventsAfter(tx[w], c)
  <2>1. After(t) = ev /\ EventsAfter(t, c) = S
    BY <1>1 DEF After, EventsAfter
  <2>2. S \ {e} = EventsIn(c) \ {e}
    <3>1. \A x \in Stored : x \in Events
      BY DEF Stored
    <3> QED
      BY <1>4, <3>1 DEF EventsAfter, EventsIn
  <2>3. e \in S <=> c = b
    BY <1>0, <1>4 DEF EventsAfter
  <2>4. IsFiniteSet(S) /\ S \subseteq Events /\ \A x \in S : ev[x] \in Rows
    <3>1. S \subseteq Stored \cup {e} /\ Stored \subseteq Events
      BY DEF EventsAfter, Stored
    <3>2. S \subseteq Events
      BY <1>0, <3>1
    <3>3. \A x \in S : ev[x] \in Rows
      BY <1>0, <1>4, <3>1, StoredFacts
    <3> QED
      BY <3>2, <3>3, RowsAssumption, FS_Subset
  <2>5. Matches(Leaves(tx[w], c), S \ {e}, event)
    BY <1>2, <1>5, <2>2 DEF Tracks
  <2> DEFINE R == S \ {e}
  <2>6. Total(R, ev) = Total(R, event)
    <3>1. IsFiniteSet(R) /\ R \subseteq Events /\ \A x \in R : event[x] \in Rows /\ ev[x] = event[x]
      <4>1. R \subseteq EventsIn(c) /\ R \subseteq S
        BY <2>2
      <4> QED
        BY <1>4, <2>4, <4>1, EventsInFacts, FS_Subset
    <3> HIDE DEF R, ev
    <3> QED
      BY <3>1, TotalSame
  <2>7. Matches(Leaves(tx[w], c), R, ev)
    BY <2>5, <2>6 DEF Matches
  <2> HIDE DEF t, ev, S
  <2>8. CASE c # b
    <3>1. Leaves(t, c) = Leaves(tx[w], c)
      <4>0. b \in Buckets
        BY <1>1
      <4>1. /\ \A s \in Sums : /\ DOMAIN Wrote(w, b, s) = DOMAIN tx[w].made \cup {b}
                               /\ \A x \in DOMAIN tx[w].made : x # b
                                    => Wrote(w, b, s)[x] = tx[w].made[x]
        <5> HIDE DEF b
        <5> QED
          BY <4>0, WroteIs
      <4>2. \E s \in Sums : t.made = Wrote(w, b, s)
        BY <1>1
      <4> HIDE DEF b
      <4> QED
        BY <2>8, <4>1, <4>2 DEF Leaves
    <3>2. R = S
      BY <2>3, <2>8
    <3> QED
      BY <2>1, <2>7, <3>1, <3>2
  <2>9. CASE c = b
    <3>1. e \in S /\ ev[e] = row
      BY <1>4, <2>3, <2>9
    <3>2. \A s \in Sums : t.made = Wrote(w, b, s) => Leaves(t, b) = s /\ s # NoRow
      <4> HIDE DEF b
      <4> SUFFICES ASSUME NEW s \in Sums, t.made = Wrote(w, b, s)
                   PROVE  Leaves(t, b) = s /\ s # NoRow
        OBVIOUS
      <4>1. DOMAIN Wrote(w, b, s) = DOMAIN tx[w].made \cup {b} /\ Wrote(w, b, s)[b] = s
        BY <1>1, WroteIs
      <4> QED
        BY <4>1, RowsAssumption DEF Leaves
    <3>3. CASE seen = NoRow
      <4> DEFINE n == Clamp(d, births)
      <4>1. t.made = Wrote(w, b, n) /\ n \in Sums
        BY <1>1, <3>3
      <4>2. R = {}
        BY <1>3, <2>7, <2>9, <3>3 DEF Matches
      <4>3. S = {e}
        BY <3>1, <4>2
      <4>4. Plus(n, Zero) = Total({e}, ev)
        <5>1. LET y == Clamp(Contribution(ev[e]), births)
              IN  y \in Sums /\ Plus(y, Zero) = Total({e}, ev)
          BY <1>0, <3>1, FirstMatches
        <5> QED
          BY <1>0, <3>1, <5>1
      <4> HIDE DEF n, b
      <4>5. Leaves(t, c) = n /\ n # NoRow
        BY <2>9, <3>2, <4>1
      <4> QED
        BY <2>1, <4>3, <4>4, <4>5 DEF Matches
    <3>4. CASE seen # NoRow
      <4> DEFINE n == Clamp(Plus(seen, d), seen.id)
      <4>1. t.made = Wrote(w, b, n) /\ n \in Sums
        BY <1>1, <3>4
      <4>2. Plus(seen, Zero) = Total(S \ {e}, ev)
        BY <1>3, <2>7, <2>9, <3>4 DEF Matches
      <4>3. seen \in Sums
        BY <3>4, TxFacts
      <4>4. seen.id \in Nat /\ seen.count \in Int /\ seen.success \in Int /\ seen.failed \in Int
            /\ seen.tokens \in Int
        BY <4>3, SumsAre
      <4>5. Plus(n, Zero) = Total(S, ev)
        <5>1. LET y == Clamp(Plus(seen, Contribution(ev[e])), seen.id)
              IN  y \in Sums /\ Plus(y, Zero) = Total(S, ev)
          <6> HIDE DEF seen, e
          <6> QED
            BY <2>4, <3>1, <4>2, <4>4, EnteringMatches
        <5> QED
          BY <1>0, <3>1, <5>1
      <4> HIDE DEF n, b
      <4>6. Leaves(t, c) = n /\ n # NoRow
        BY <2>9, <3>2, <4>1
      <4> QED
        BY <2>1, <4>5, <4>6 DEF Matches
    <3> QED
      BY <3>3, <3>4
  <2> QED
    BY <2>8, <2>9
<1> HIDE DEF t
<1>6. Tracks(t)
  BY <1>1, <1>3, <1>5 DEF Tracks
<1> QED
  BY <1>6 DEF t

LEMMA WriteBucketSerial ==
  ASSUME Typed, Serial, NEW w \in Writers, WriteBucket(w) PROVE Serial'
<1> DEFINE t == tx'[w]
<1>1. tx[w].pc \in {"minus_write", "plus_write"} /\ tx' = [tx EXCEPT ![w] = t]
  BY WriteBucketIs
<1>2. UNCHANGED <<event, rollup, rebuild>> /\ overlap' = overlap
  BY DEF WriteBucket
<1>3. ~overlap => Tracks(t)
  BY <1>1, MinusWriteTracks, PlusWriteTracks
<1>4. ~overlap' => rebuild.pc \notin {"read", "write"} /\ \A v \in Writers \ {w} : ~Open(v)
  BY <1>1, <1>2, AloneWhenSerial
<1> HIDE DEF t
<1> QED
  BY <1>1, <1>2, <1>3, <1>4, TxStepSerial

LEMMA RollbackSerial ==
  ASSUME Typed, Serial, NEW w \in Writers, Rollback(w) PROVE Serial'
<1> DEFINE t == NoTx
<1>1. tx' = [tx EXCEPT ![w] = t] /\ t.pc = "idle" /\ UNCHANGED <<event, rollup, rebuild>>
      /\ overlap' = overlap
  BY NoTxTyped DEF Rollback
<1> HIDE DEF t
<1>2. Tracks(t)
  BY <1>1 DEF Tracks
<1> QED
  BY <1>1, <1>2, TxStepSerial

\* When nobody is at work.
LEMMA QuietSerial ==
  ASSUME overlap' = FALSE, \A v \in Writers : tx'[v].pc = "idle",
         rebuild'.pc \in {"read", "write"} => \A b \in Buckets : rollup'[b] = NoRow,
         rebuild'.pc = "write" => rebuild'.sums = BucketSums',
         Complete' => AllMatch'
  PROVE  Serial'
BY DEF Serial, Open, Tracks

LEMMA CommitSerial ==
  ASSUME Typed, Serial, NEW w \in Writers, Commit(w) PROVE Serial'
<1> DEFINE t == tx[w]
<1>1. /\ t.pc = "commit" /\ event' = [event EXCEPT ![t.ev] = t.row]
      /\ rebuild' = rebuild /\ overlap' = overlap
      /\ \A v \in Writers : tx'[v] = IF v = w THEN NoTx ELSE tx[v]
  BY DEF Commit, Typed
<1>2. \A b \in Buckets : rollup'[b] = Leaves(t, b)
  BY TxFacts, OverTyped DEF Commit, Typed, Leaves
<1>3. t.row \in Rows /\ t.ev \in Events \ Legacy
  BY <1>1, TxFacts
<1>4. CASE overlap
  BY <1>1, <1>4 DEF Serial
<1>5. CASE ~overlap
  <2>1. rebuild.pc \notin {"read", "write"} /\ (\A v \in Writers \ {w} : ~Open(v)) /\ Tracks(t)
    BY <1>1, <1>5, AloneWhenSerial
  <2>2. \A v \in Writers : tx'[v].pc = "idle"
    BY <1>1, <2>1, NoTxTyped DEF Open
  <2>3. event' = After(t) /\ Stored' = Stored \cup {t.ev}
    <3>1. event' = After(t)
      BY <1>1 DEF After
    <3>2. Stored' = Stored \cup {t.ev}
      BY <1>1, <1>3, RowsAssumption DEF Stored, Typed
    <3> QED
      BY <3>1, <3>2
  <2>4. \A b : EventsIn(b)' = EventsAfter(t, b)
    <3> SUFFICES ASSUME NEW b PROVE EventsIn(b)' = EventsAfter(t, b)
      OBVIOUS
    <3>1. EventsIn(b)' = {e \in Stored' : BucketOf(event'[e]) = b}
      BY DEF EventsIn, BucketOf
    <3> HIDE DEF t
    <3> QED
      BY <2>3, <3>1 DEF EventsAfter
  <2>5. Complete' => Complete
    <3>1. \A e \in Legacy : event'[e] = event[e]
      BY <1>1, <1>3, InputAssumption DEF Typed
    <3> QED
      BY <1>1, <3>1 DEF Complete
  <2>6. Complete' => AllMatch'
    <3> SUFFICES ASSUME Complete', NEW b \in Buckets
                 PROVE  Matches(rollup'[b], EventsIn(b)', event')
      BY DEF AllMatch
    <3>1. Matches(Leaves(t, b), EventsAfter(t, b), After(t))
      BY <1>1, <2>1, <2>5 DEF Tracks
    <3>2. rollup'[b] = Leaves(t, b) /\ EventsIn(b)' = EventsAfter(t, b) /\ event' = After(t)
      BY <1>2, <2>3, <2>4
    <3> HIDE DEF t
    <3> QED
      BY <3>1, <3>2
  <2>7. overlap' = FALSE
    BY <1>1, <1>5 DEF Typed
  <2> QED
    BY <1>1, <2>1, <2>2, <2>6, <2>7, QuietSerial
<1> QED
  BY <1>4, <1>5

LEMMA BackfillEventSerial ==
  ASSUME Typed, Serial, NEW e \in Events, NEW row \in Rows, BackfillEvent(e, row) PROVE Serial'
<1>1. /\ rebuild.pc = "ready" /\ rebuild' = rebuild /\ e \in Legacy
      /\ event' = [event EXCEPT ![e] = row]
      /\ UNCHANGED <<rollup, tx, overlap>>
  BY DEF BackfillEvent
<1>2. event'[e] # NoRow
  BY <1>1, RowsAssumption DEF Typed
<1>3. ~Complete'
  BY <1>1, <1>2 DEF Complete
<1>4. CASE overlap
  BY <1>1, <1>4 DEF Serial
<1>5. CASE ~overlap
  <2>1. ASSUME NEW w \in Writers PROVE Tracks(tx[w])'
    <3>1. Tracks(tx[w])
      BY <1>5 DEF Serial
    <3>2. tx[w].pc # "idle" => event'[tx[w].ev] = event[tx[w].ev]
      BY <1>1, TxFacts DEF Typed
    <3>3. \A b : Leaves(tx[w], b)' = Leaves(tx[w], b)
      BY <1>1 DEF Leaves
    <3>4. tx'[w] = tx[w] /\ rollup' = rollup
      BY <1>1
    <3>5. BucketOf(tx[w].prev)' = BucketOf(tx[w].prev) /\ BucketOf(tx[w].row)' = BucketOf(tx[w].row)
      BY <3>4
    <3> QED
      BY <1>1, <1>3, <3>1, <3>2, <3>3, <3>4, <3>5 DEF Tracks
  <2>2. \A v, w \in Writers : Open(v)' /\ Open(w)' => v = w
    BY <1>1, <1>5 DEF Serial, Open
  <2>3. rebuild'.pc \notin {"read", "write"}
    BY <1>1
  <2> QED
    BY <1>3, <2>1, <2>2, <2>3 DEF Serial
<1> QED
  BY <1>4, <1>5

\* The backfill's own steps, when it has overlapped nothing.
LEMMA RebuildDeleteSerial ==
  ASSUME Typed, Serial, RebuildDelete PROVE Serial'
<1>1. /\ rebuild' = [rebuild EXCEPT !.pc = "read"] /\ UNCHANGED <<event, tx, asked>>
      /\ overlap' = (overlap \/ Running)
      /\ \A b \in Buckets : rollup'[b] = NoRow
  BY DEF RebuildDelete
<1>2. rebuild'.pc = "read"
  BY <1>1 DEF Typed, RebuildTyped
<1>3. CASE overlap'
  BY <1>3 DEF Serial
<1>4. CASE ~overlap'
  <2>1. overlap' = FALSE /\ \A w \in Writers : tx'[w].pc = "idle"
    BY <1>1, <1>4 DEF Running, Open
  <2>2. ~Complete'
    BY <1>2 DEF Complete
  <2>3. rebuild'.pc # "write"
    BY <1>2
  <2>4. Complete' => AllMatch'
    BY <2>2
  <2> QED
    BY <1>1, <2>1, <2>3, <2>4, QuietSerial
<1> QED
  BY <1>3, <1>4

LEMMA QuietWhileRebuilding ==
  ASSUME Typed, Serial, ~overlap, rebuild.pc \in {"read", "write"}
  PROVE  /\ \A w \in Writers : tx[w].pc = "idle"
         /\ \A b \in Buckets : rollup[b] = NoRow
         /\ rebuild.pc = "write" => rebuild.sums = BucketSums
BY DEF Serial, Open

LEMMA RebuildReadSerial == ASSUME Typed, Serial, RebuildRead PROVE Serial'
<1>1. /\ rebuild.pc = "read" /\ UNCHANGED <<event, rollup, tx>> /\ overlap' = overlap
      /\ rebuild' = [pc |-> "write", sums |-> BucketSums]
  BY RebuildReadTyped DEF RebuildRead
<1>2. rebuild'.pc = "write" /\ rebuild'.sums = BucketSums
  BY <1>1
<1>3. CASE overlap
  BY <1>1, <1>3 DEF Serial
<1>4. CASE ~overlap
  <2>1. (\A w \in Writers : tx[w].pc = "idle") /\ \A b \in Buckets : rollup[b] = NoRow
    BY <1>1, <1>4, QuietWhileRebuilding
  <2>2. BucketSums' = BucketSums
    BY <1>1 DEF BucketSums, EventsIn, Stored
  <2>3. ~Complete'
    BY <1>2 DEF Complete
  <2>4. overlap' = FALSE /\ \A w \in Writers : tx'[w].pc = "idle"
    BY <1>1, <1>4, <2>1 DEF Typed
  <2>5. \A b \in Buckets : rollup'[b] = NoRow
    BY <1>1, <2>1
  <2>6. (rebuild'.pc = "write" => rebuild'.sums = BucketSums') /\ (Complete' => AllMatch')
    BY <1>2, <2>2, <2>3
  <2> QED
    BY <2>4, <2>5, <2>6, QuietSerial
<1> QED
  BY <1>3, <1>4

\* The new rows say what the events contribute.
LEMMA NewRowsMatch ==
  ASSUME Typed, rebuild.pc = "write", rebuild.sums = BucketSums, NEW b \in Buckets,
         NEW r, r = IF b \in DOMAIN NewRows THEN NewRows[b] ELSE NoRow
  PROVE  Matches(r, EventsIn(b), event)
<1>1. b \in DOMAIN NewRows <=> EventsIn(b) # {}
  BY NewRowsTyped DEF BucketSums
<1>2. CASE b \notin DOMAIN NewRows
  BY <1>1, <1>2 DEF Matches
<1>3. CASE b \in DOMAIN NewRows
  <2> DEFINE t == Total(EventsIn(b), event)
  <2>1. rebuild.sums[b] = t
    BY <1>3, NewRowsTyped DEF BucketSums
  <2>2. /\ r = NewRows[b] /\ r \in Sums
        /\ r.count = t.count /\ r.success = t.success /\ r.failed = t.failed /\ r.tokens = t.tokens
    BY <1>3, <2>1, NewRowsTyped
  <2>3. t \in Vectors
    BY TotalOfBucket DEF NatVectors
  <2>4. r.count \in Int /\ r.success \in Int /\ r.failed \in Int /\ r.tokens \in Int
    BY <2>2, SumsAre
  <2>5. Plus(r, Zero) = t
    <3> HIDE DEF t
    <3> QED
      BY <2>2, <2>3, <2>4, SameColumns
  <2>6. r # NoRow
    BY <2>2, RowsAssumption
  <2> QED
    BY <2>5, <2>6 DEF Matches
<1> QED
  BY <1>2, <1>3

LEMMA RebuildWriteSerial == ASSUME Typed, Serial, RebuildWrite PROVE Serial'
<1>1. rebuild.pc = "write" /\ UNCHANGED <<event, tx>> /\ overlap' = overlap
  BY RebuildWriteIs
<1>2. rebuild'.pc \in {"complete", "failed"}
      /\ (rebuild'.pc = "complete" => rollup' = Over(NewRows, rollup))
  BY RebuildWriteIs
<1>3. CASE overlap
  BY <1>1, <1>3 DEF Serial
<1>4. CASE ~overlap
  <2>1. /\ \A w \in Writers : tx[w].pc = "idle"
        /\ \A b \in Buckets : rollup[b] = NoRow
        /\ rebuild.sums = BucketSums
    BY <1>1, <1>4, QuietWhileRebuilding
  <2>2. \A b : EventsIn(b)' = EventsIn(b)
    BY <1>1 DEF EventsIn, Stored
  <2>3. Complete' => AllMatch'
    <3> SUFFICES ASSUME Complete', NEW b \in Buckets
                 PROVE  Matches(rollup'[b], EventsIn(b)', event')
      BY DEF AllMatch
    <3>1. rollup' = Over(NewRows, rollup)
      BY <1>2 DEF Complete
    <3>2. rollup'[b] = IF b \in DOMAIN NewRows THEN NewRows[b] ELSE NoRow
      BY <1>1, <2>1, <3>1, NewRowsTyped, OverTyped DEF Typed
    <3>3. Matches(rollup'[b], EventsIn(b), event)
      BY <1>1, <2>1, <3>2, NewRowsMatch
    <3> QED
      BY <1>1, <2>2, <3>3
  <2>4. overlap' = FALSE /\ \A w \in Writers : tx'[w].pc = "idle"
    BY <1>1, <1>4, <2>1 DEF Typed
  <2>5. rebuild'.pc \notin {"read", "write"}
    BY <1>2
  <2> QED
    BY <2>3, <2>4, <2>5, QuietSerial
<1> QED
  BY <1>3, <1>4

LEMMA RebuildFailsSerial == ASSUME Typed, Serial, RebuildFails PROVE Serial'
<1>1. /\ rebuild.pc \in {"read", "write"} /\ UNCHANGED <<event, rollup, tx>> /\ overlap' = overlap
      /\ rebuild' = [pc |-> "failed", sums |-> <<>>]
  BY DEF RebuildFails
<1>2. rebuild'.pc = "failed"
  BY <1>1
<1>3. CASE overlap
  BY <1>1, <1>3 DEF Serial
<1>4. CASE ~overlap
  <2>1. \A w \in Writers : tx[w].pc = "idle"
    BY <1>1, <1>4, QuietWhileRebuilding
  <2>2. overlap' = FALSE /\ \A w \in Writers : tx'[w].pc = "idle"
    BY <1>1, <1>4, <2>1 DEF Typed
  <2>3. rebuild'.pc \notin {"read", "write"} /\ (Complete' => AllMatch')
    BY <1>2 DEF Complete
  <2> QED
    BY <2>2, <2>3, QuietSerial
<1> QED
  BY <1>3, <1>4

LEMMA SerialUnchanged == ASSUME Serial, UNCHANGED vars PROVE Serial'
<1>1. UNCHANGED <<event, rollup, tx, rebuild, overlap>>
  BY DEF vars
<1>2. \A b : EventsIn(b)' = EventsIn(b)
  BY <1>1 DEF EventsIn, Stored
<1>3. BucketSums' = BucketSums /\ (Complete' <=> Complete) /\ (AllMatch' <=> AllMatch)
  BY <1>1 DEF BucketSums, EventsIn, Stored, Complete, AllMatch, Matches
<1>4. \A w \in Writers : (Open(w)' <=> Open(w)) /\ (Tracks(tx[w])' <=> Tracks(tx[w]))
  BY <1>1 DEF Open, Tracks, Leaves, EventsAfter, After, EventsIn, Stored, Complete
<1> QED
  BY <1>1, <1>3, <1>4 DEF Serial

LEMMA SerialPreserved == ASSUME Typed, Serial, [Next]_vars PROVE Serial'
<1>1. CASE UNCHANGED vars
  BY <1>1, SerialUnchanged
<1>2. ASSUME NEW w \in Writers, NEW e \in Events, NEW row \in Rows,
             PersistProxy(w, e, row) \/ PersistUpload(w, e, row)
      PROVE  Serial'
  BY <1>2, PersistIsBegin, BeginSerial
<1>3. ASSUME NEW w \in Writers, Persist(w) PROVE Serial'
  BY <1>2, <1>3, ReadPreviousSerial, UpsertEventSerial, ReadBucketSerial, WriteBucketSerial,
     CommitSerial, RollbackSerial DEF Persist
<1>4. ASSUME Backfill PROVE Serial'
  BY <1>4, BackfillEventSerial, RebuildDeleteSerial, RebuildReadSerial, RebuildWriteSerial,
     RebuildFailsSerial DEF Backfill
<1> QED
  BY <1>1, <1>3, <1>4 DEF Next

LEMMA InitFacts ==
  ASSUME Init
  PROVE  /\ \A w \in Writers : tx[w].pc = "idle" /\ tx[w].made = <<>>
         /\ \A b \in Buckets : rollup[b] = NoRow
         /\ Stored = {} /\ rebuild.pc = "ready" /\ ~overlap
BY NoTxTyped DEF Init, Stored

LEMMA InitAgrees == ASSUME Init PROVE AllAgree
BY InitFacts, NothingMade DEF AllAgree

LEMMA InitAhead == ASSUME Init PROVE NoneAhead
BY InitFacts, NothingMade DEF NoneAhead, WritesOnce

LEMMA InitSerial == ASSUME Init PROVE Serial
<1>1. \A w \in Writers : tx[w].pc = "idle"
  BY InitFacts
<1>2. \A w \in Writers : Tracks(tx[w]) /\ ~Open(w)
  BY <1>1 DEF Tracks, Open
<1>3. AllMatch
  BY InitFacts DEF AllMatch, Matches, EventsIn
<1> QED
  BY <1>2, <1>3, InitFacts DEF Serial

Inv == Typed /\ AllAgree /\ NoneAhead /\ Serial

LEMMA InvCorrect == Spec => []Inv
<1>1. Init => Inv
  BY InitTyped, InitAgrees, InitAhead, InitSerial DEF Inv
<1>2. Inv /\ [Next]_vars => Inv'
  <2> SUFFICES ASSUME Inv, [Next]_vars PROVE Inv'
    OBVIOUS
  <2>1. Typed' /\ AllAgree'
    BY TypedPreserved, AllAgreePreserved DEF Inv
  <2>2. NoneAhead'
    BY NoneAheadPreserved DEF Inv
  <2>3. Serial'
    BY SerialPreserved DEF Inv
  <2> QED
    BY <2>1, <2>2, <2>3 DEF Inv
<1> QED
  BY <1>1, <1>2, PTL DEF Spec

-----------------------------------------------------------------------------
(* The analytics.                                                          *)

LEMMA BucketsFinite == IsFiniteSet(Buckets)
<1> DEFINE D == 0 .. Days - 1
           P == (D \X Kinds) \X Statuses
           f == [p \in P |-> [day |-> p[1][1], kind |-> p[1][2], status |-> p[2]]]
<1>1. IsFiniteSet(D)
  BY InputAssumption, FS_Interval
<1>2. IsFiniteSet(Kinds) /\ IsFiniteSet(Statuses)
  <2>1. \A S, e : IsFiniteSet(S) => IsFiniteSet(S \cup {e})
    BY FS_AddElement
  <2>2. Kinds = ({} \cup {"text"}) \cup {"file"} /\ Statuses = ({} \cup {"success"}) \cup {"error"}
    BY DEF Kinds, Statuses
  <2> QED
    BY <2>1, <2>2, FS_EmptySet
<1>3. IsFiniteSet(P)
  <2> HIDE DEF D
  <2>1. IsFiniteSet(D \X Kinds)
    BY <1>1, <1>2, FS_Product
  <2> QED
    BY <1>2, <2>1, FS_Product
<1>4. f \in Surjection(P, Buckets)
  <2> HIDE DEF D
  <2>1. Buckets = [day : D, kind : Kinds, status : Statuses]
    BY DEF Buckets, D
  <2>2. f \in [P -> Buckets]
    BY <2>1
  <2>3. ASSUME NEW b \in Buckets PROVE \E p \in P : f[p] = b
    <3>1. <<<<b.day, b.kind>>, b.status>> \in P
      BY <2>1
    <3>2. f[<<<<b.day, b.kind>>, b.status>>] = b
      BY <2>1, <3>1
    <3> QED
      BY <3>1, <3>2
  <2> QED
    BY <2>2, <2>3 DEF Surjection
<1> HIDE DEF f, P
<1> QED
  BY <1>3, <1>4, FS_Surjection

\* Whatever updates are lost, no column of a row is negative and its columns
\* agree, for any number of events, days and writers (applyRollupDelta).
THEOREM RowsMakeSenseCorrect == Spec => []RowsMakeSense
<1>1. Inv => RowsMakeSense
  BY TypedImpliesTypeOK DEF Inv, AllAgree, Agrees, RowsMakeSense, CountsAgree
<1> QED
  BY <1>1, InvCorrect, PTL

LEMMA MatchIsSum ==
  ASSUME Serial, ~overlap PROVE RollupIsSum
BY DEF Serial, AllMatch, Matches, RollupIsSum, EventsIn

\* A bucket never counts more than its events if none is written twice, and
\* exactly those if nothing overlaps (upsertEventContentAndRollup, rebuildRollups).
THEOREM RollupNeverAheadCorrect == Spec => []RollupNeverAhead
<1>1. Inv => NeverOvercounts
  BY DEF Inv, NoneAhead, WrittenOnce, Count, EventsIn, NeverOvercounts
<1>2. Inv => RollupIsSumWhenSerial
  BY MatchIsSum DEF Inv, RollupIsSumWhenSerial
<1> QED
  BY <1>1, <1>2, InvCorrect, PTL DEF RollupNeverAhead

\* The events that the rows of the buckets A count.
EventsOf(A) == {e \in Stored : BucketOf(event[e]) \in A}

LEMMA EventsOfFacts ==
  ASSUME Typed, NEW A
  PROVE  /\ IsFiniteSet(EventsOf(A)) /\ EventsOf(A) \subseteq Events
         /\ \A e \in EventsOf(A) : event[e] \in Rows
BY StoredFacts, FS_Subset DEF EventsOf

LEMMA RowsSummable ==
  ASSUME Typed, NEW A, A \subseteq Buckets, \A b \in A : rollup[b] # NoRow
  PROVE  IsFiniteSet(A) /\ Summable(rollup, A)
<1>1. IsFiniteSet(A)
  BY BucketsFinite, FS_Subset
<1>2. \A b \in A : rollup[b] \in Sums
  BY DEF Typed
<1>3. \A s \in Sums : \A c \in Columns : s[c] \in Int
  BY DEF Sums, Columns
<1> QED
  BY <1>1, <1>2, <1>3 DEF Summable, Typed

\* One more bucket.
LEMMA NextBucket ==
  ASSUME Typed, AllMatch, NEW A, A \subseteq Buckets, \A b \in A : rollup[b] # NoRow, NEW x \in A,
         SumOf(rollup, A \ {x}) = Total(EventsOf(A \ {x}), event)
  PROVE  SumOf(rollup, A) = Total(EventsOf(A), event)
<1> DEFINE B == A \ {x}
           r == rollup[x]
           s == Total(EventsIn(x), event)
           u == Total(EventsOf(B), event)
<1>1. SumOf(rollup, A) = Plus(r, u)
  BY RowsSummable, SumRule
<1>2. r \in Sums /\ Plus(r, Zero) = s
  BY DEF Typed, AllMatch, Matches
<1>3. s \in Vectors /\ u \in Vectors
  BY EventsInFacts, EventsOfFacts, TotalIs
<1>4. Total(EventsOf(A), event) = Plus(s, u)
  <2> DEFINE S == EventsIn(x)
             T == EventsOf(B)
  <2>1. IsFiniteSet(S) /\ S \subseteq Events /\ \A e \in S : event[e] \in Rows
    BY EventsInFacts
  <2>2. IsFiniteSet(T) /\ T \subseteq Events /\ \A e \in T : event[e] \in Rows
    BY EventsOfFacts
  <2>3. S \cap T = {} /\ S \cup T = EventsOf(A)
    BY DEF EventsIn, EventsOf
  <2> HIDE DEF S, T
  <2>4. Total(S \cup T, event) = Plus(Total(S, event), Total(T, event))
    BY <2>1, <2>2, <2>3, TotalUnion
  <2> QED
    BY <2>3, <2>4 DEF S, T
<1> HIDE DEF r, s, u
<1>5. r.count \in Int /\ r.success \in Int /\ r.failed \in Int /\ r.tokens \in Int
  BY <1>2, SumsAre
<1>6. r.count = s.count /\ r.success = s.success /\ r.failed = s.failed /\ r.tokens = s.tokens
  BY <1>2, <1>3, <1>5, SameColumns
<1>7. u.count \in Int /\ u.success \in Int /\ u.failed \in Int /\ u.tokens \in Int
  BY <1>3, VectorIs
<1>8. Plus(r, u) = Plus(s, u)
  <2> DEFINE p == Plus(r, u)
             q == Plus(s, u)
  <2>1. /\ p \in Vectors
        /\ p.count = r.count + u.count /\ p.success = r.success + u.success
        /\ p.failed = r.failed + u.failed /\ p.tokens = r.tokens + u.tokens
    BY <1>5, <1>7, PlusIs
  <2>2. /\ q \in Vectors
        /\ q.count = s.count + u.count /\ q.success = s.success + u.success
        /\ q.failed = s.failed + u.failed /\ q.tokens = s.tokens + u.tokens
    BY <1>5, <1>6, <1>7, PlusIs
  <2> HIDE DEF p, q
  <2>3. p = q
    BY <1>6, <2>1, <2>2, EqualVectors
  <2> QED
    BY <2>3 DEF p, q
<1> QED
  BY <1>1, <1>4, <1>8

\* Rows that match the events add up to what the events contribute.
LEMMA RowsAddUp ==
  ASSUME Typed, AllMatch, NEW S, S \subseteq Buckets, \A b \in S : rollup[b] # NoRow
  PROVE  SumOf(rollup, S) = Total(EventsOf(S), event)
<1> DEFINE Good == {A \in SUBSET S : SumOf(rollup, A) = Total(EventsOf(A), event)}
<1>1. ASSUME NEW A \in SUBSET S, \A B \in SUBSET A : B # A => B \in Good
      PROVE  A \in Good
  <2>1. CASE A = {}
    <3>1. EventsOf(A) = {}
      BY <2>1 DEF EventsOf
    <3>2. SumOf(rollup, {}) = Zero
      <4>1. IsFiniteSet({}) /\ Summable(rollup, {})
        BY RowsSummable
      <4> QED
        BY <4>1, SumRule
    <3>3. Total({}, event) = Zero
      BY FS_EmptySet, TotalRule
    <3> QED
      BY <2>1, <3>1, <3>2, <3>3
  <2>2. CASE A # {}
    <3>1. PICK x \in A : TRUE
      BY <2>2
    <3>2. A \ {x} \in Good
      <4>1. A \ {x} \in SUBSET A /\ A \ {x} # A
        OBVIOUS
      <4> QED
        BY <1>1, <4>1
    <3>3. A \subseteq Buckets /\ \A b \in A : rollup[b] # NoRow
      OBVIOUS
    <3> QED
      BY <3>2, <3>3, NextBucket
  <2> QED
    BY <2>1, <2>2
<1>2. IsFiniteSet(S)
  BY RowsSummable
<1> HIDE DEF Good
<1>3. \A A \in SUBSET S : A \in Good
  BY <1>1, <1>2, FiniteInduction
<1> QED
  BY <1>3 DEF Good

LEMMA RollupsAreSum ==
  ASSUME Typed, NEW from, NEW to
  PROVE  FromRollups(from, to) = SumOf(rollup, RowsIn(from, to))
<1>1. IsFiniteSet(RowsIn(from, to)) /\ Summable(rollup, RowsIn(from, to))
  BY RowsSummable DEF RowsIn
<1> QED
  BY <1>1, RowsSumIsSum DEF FromRollups

LEMMA InRangeFacts ==
  ASSUME Typed, NEW from, NEW to
  PROVE  /\ IsFiniteSet(InRange(from, to)) /\ InRange(from, to) \subseteq Events
         /\ \A e \in InRange(from, to) : event[e] \in Rows
BY StoredFacts, FS_Subset DEF InRange

\* The count decides whether the rows of whole days say what the range does.
LEMMA CoveredIsExact ==
  ASSUME Typed, AllMatch, NEW from \in Moments, NEW to \in Moments, Covered(from, to)
  PROVE  FromRollups(from, to) = FromEvents(from, to)
<1> DEFINE R == RowsIn(from, to)
           U == EventsOf(R)
           I == InRange(from, to)
<1>1. FromRollups(from, to) = Total(U, event)
  BY RollupsAreSum, RowsAddUp DEF RowsIn
<1>2. I \subseteq U
  <2> SUFFICES ASSUME NEW e \in I PROVE e \in U
    OBVIOUS
  <2>1. e \in Stored /\ from <= event[e].at /\ event[e].at <= to
    BY DEF InRange
  <2>2. event[e].at \in 0 .. 2 * Days - 1 /\ from \in 0 .. 2 * Days - 1 /\ to \in 0 .. 2 * Days - 1
    BY <2>1, StoredFacts DEF Rows, Moments
  <2>3. from \div 2 <= event[e].at \div 2 /\ event[e].at \div 2 <= to \div 2
    BY <2>1, <2>2, InputAssumption
  <2> DEFINE b == BucketOf(event[e])
  <2>4. b \in Buckets /\ b.day = event[e].at \div 2
    BY <2>1, StoredFacts DEF BucketOf, Day
  <2> HIDE DEF b
  <2>5. e \in EventsIn(b)
    BY <2>1 DEF EventsIn, b
  <2>6. rollup[b] # NoRow
    BY <2>4, <2>5 DEF AllMatch, Matches
  <2>7. b \in R
    BY <2>3, <2>4, <2>6 DEF RowsIn, Day
  <2> QED
    BY <2>1, <2>7 DEF EventsOf, b
<1>3. FromRollups(from, to).count = Cardinality(I)
  BY DEF Covered
<1>4. IsFiniteSet(U) /\ U \subseteq Events /\ \A e \in U : event[e] \in Rows
  BY EventsOfFacts
<1> HIDE DEF U, I
<1>5. Total(U, event).count = Cardinality(U)
  BY <1>4, TotalIs
<1>6. I = U
  BY <1>1, <1>2, <1>3, <1>4, <1>5, FS_Subset
<1> QED
  BY <1>1, <1>6 DEF FromEvents, I

\* The number of requests that analytics report is that of the events in the
\* range, whatever the rollup holds, and if nothing has overlapped all that they
\* report is what the events say (getAnalytics).
THEOREM AnalyticsExactCorrect == Spec => []AnalyticsExact
<1>1. Inv => AnalyticsExact
  <2> SUFFICES ASSUME Inv, NEW r \in Ranges
               PROVE  /\ Analytics(r[1], r[2]).count = Cardinality(InRange(r[1], r[2]))
                      /\ Complete /\ ~overlap => Analytics(r[1], r[2]) = FromEvents(r[1], r[2])
    BY DEF AnalyticsExact
  <2> DEFINE from == r[1]
             to == r[2]
  <2>1. Typed /\ from \in Moments /\ to \in Moments
    BY DEF Inv, Ranges
  <2> HIDE DEF from, to
  <2>2. Analytics(from, to).count = Cardinality(InRange(from, to))
    <3>1. FromEvents(from, to).count = Cardinality(InRange(from, to))
      BY <2>1, InRangeFacts, TotalIs DEF FromEvents
    <3> QED
      BY <3>1 DEF Analytics, Covered
  <2>3. Complete /\ ~overlap => Analytics(from, to) = FromEvents(from, to)
    <3> SUFFICES ASSUME Complete, ~overlap PROVE Analytics(from, to) = FromEvents(from, to)
      OBVIOUS
    <3>1. AllMatch
      BY DEF Inv, Serial
    <3>2. Covered(from, to) => FromRollups(from, to) = FromEvents(from, to)
      BY <2>1, <3>1, CoveredIsExact
    <3> QED
      BY <3>2 DEF Analytics
  <2> QED
    BY <2>2, <2>3 DEF from, to
<1> QED
  BY <1>1, InvCorrect, PTL
=============================================================================
