------------------------- MODULE TextPositions_proofs -------------------------
(* What the positions and rewritings of TextPositions come to, for every   *)
(* text, position and list of edits.                                       *)
EXTENDS TextPositions, FiniteSetTheorems, SequenceTheorems, WellFoundedInduction, NaturalsInduction, TLAPS

-----------------------------------------------------------------------------
(* Induction.  The library's induction theorems take a predicate; stated   *)
(* for a set of numbers, induction needs none, and follows from the natural *)
(* numbers being well founded.                                             *)

Below == {ss \in Nat \X Nat : ss[1] < ss[2]}

LEMMA LeastNumber ==
  ASSUME NEW T \in SUBSET Nat, T # {}
  PROVE  \E x \in T : \A y \in T : x =< y
<1>1. IsWellFoundedOn(Below, Nat)
  BY NatLessThanWellFounded DEF OpToRel, Below
<1>2. PICK x \in T : \A y \in T : ~(<<y, x>> \in Below)
  BY <1>1, WFMin
<1>3. \A y \in T : y \in Nat /\ x \in Nat /\ ~(y < x)
  BY <1>2 DEF Below
<1> QED
  BY <1>3

LEMMA SetInduction ==
  ASSUME NEW S \in SUBSET Nat, 0 \in S, \A n \in S : n + 1 \in S
  PROVE  S = Nat
<1> SUFFICES ASSUME S # Nat PROVE FALSE
  OBVIOUS
<1>1. PICK m \in Nat \ S : \A y \in Nat \ S : m =< y
  BY LeastNumber
<1>2. m # 0 /\ m - 1 \in Nat /\ m - 1 \in S
  BY <1>1
<1> QED
  BY <1>1, <1>2

-----------------------------------------------------------------------------
(* Recursion.  A recursive function is defined when a function with its     *)
(* equation exists.  One does for every step of the natural numbers ...     *)
Begins(V, v, F, f, n) ==
    /\ f \in [0..n -> V]
    /\ f[0] = v
    /\ \A i \in Nat : i < n => f[i + 1] = F[<<i, f[i]>>]

LEMMA BeginningsExist ==
  ASSUME NEW V, NEW v \in V, NEW F \in [Nat \X V -> V]
  PROVE  \A n \in Nat : \E f : Begins(V, v, F, f, n)
<1> DEFINE some == {n \in Nat : \E f : Begins(V, v, F, f, n)}
<1>1. 0 \in some
  <2>1. Begins(V, v, F, [i \in 0..0 |-> v], 0)
    BY DEF Begins
  <2> QED
    BY <2>1
<1>2. ASSUME NEW n \in Nat, NEW f, Begins(V, v, F, f, n)
      PROVE  \E g : Begins(V, v, F, g, n + 1)
  <2> DEFINE g == [i \in 0..(n + 1) |-> IF i = n + 1 THEN F[<<n, f[n]>>] ELSE f[i]]
  <2>1. f \in [0..n -> V] /\ f[n] \in V /\ F[<<n, f[n]>>] \in V
    BY <1>2 DEF Begins
  <2>2. g \in [0..(n + 1) -> V]
    BY <2>1
  <2>3. g[0] = v
    BY <1>2 DEF Begins
  <2>4. g[n + 1] = F[<<n, g[n]>>]
    <3>1. n \in 0..(n + 1) /\ n + 1 \in 0..(n + 1) /\ n # n + 1
      OBVIOUS
    <3> QED
      BY <3>1
  <2>5. \A i \in Nat : i < n => g[i + 1] = f[i + 1] /\ g[i] = f[i]
    OBVIOUS
  <2> HIDE DEF g
  <2>6. \A i \in Nat : i < n + 1 => g[i + 1] = F[<<i, g[i]>>]
    <3> SUFFICES ASSUME NEW i \in Nat, i < n + 1 PROVE g[i + 1] = F[<<i, g[i]>>]
      OBVIOUS
    <3>1. CASE i = n
      BY <2>4, <3>1
    <3>2. CASE i < n
      BY <1>2, <2>5, <3>2 DEF Begins
    <3> QED
      BY <3>1, <3>2
  <2>7. Begins(V, v, F, g, n + 1)
    BY <2>2, <2>3, <2>6 DEF Begins
  <2> QED
    BY <2>7
<1>3. \A n \in some : n + 1 \in some
  BY <1>2
<1>4. some = Nat
  <2> HIDE DEF some
  <2>1. some \in SUBSET Nat
    BY DEF some
  <2> QED
    BY <1>1, <1>3, <2>1, SetInduction
<1> QED
  BY <1>4

Agree(f, n, h, m) == \A i \in Nat : i =< n /\ i =< m => f[i] = h[i]

LEMMA BeginningsAgree ==
  ASSUME NEW V, NEW v \in V, NEW F \in [Nat \X V -> V],
         NEW n \in Nat, NEW f, Begins(V, v, F, f, n),
         NEW m \in Nat, NEW h, Begins(V, v, F, h, m)
  PROVE  Agree(f, n, h, m)
<1> DEFINE agree == {i \in Nat : i =< n /\ i =< m => f[i] = h[i]}
<1>1. 0 \in agree
  BY DEF Begins
<1>2. ASSUME NEW i \in agree PROVE i + 1 \in agree
  <2> SUFFICES ASSUME i + 1 =< n, i + 1 =< m PROVE f[i + 1] = h[i + 1]
    OBVIOUS
  <2>1. i \in Nat /\ i < n /\ i < m /\ f[i] = h[i]
    OBVIOUS
  <2> QED
    BY <2>1 DEF Begins
<1>3. agree = Nat
  <2> HIDE DEF agree
  <2>1. agree \in SUBSET Nat
    BY DEF agree
  <2> QED
    BY <1>1, <1>2, <2>1, SetInduction
<1> QED
  BY <1>3 DEF Agree

Recurs(V, v, F, f) ==
    f \in [Nat -> V] /\ f[0] = v /\ \A n \in Nat : f[n + 1] = F[<<n, f[n]>>]

LEMMA Recursion ==
  ASSUME NEW V, NEW v \in V, NEW F \in [Nat \X V -> V]
  PROVE  \E f : Recurs(V, v, F, f)
<1> DEFINE part(n) == CHOOSE f : Begins(V, v, F, f, n)
           whole   == [n \in Nat |-> part(n)[n]]
<1>1. \A n \in Nat : Begins(V, v, F, part(n), n)
  BY BeginningsExist
<1> HIDE DEF part
<1>2. \A n \in Nat : part(n)[n] \in V
  BY <1>1 DEF Begins
<1>3. whole \in [Nat -> V] /\ whole[0] = v
  BY <1>1, <1>2 DEF Begins
<1>4. ASSUME NEW n \in Nat PROVE whole[n + 1] = F[<<n, whole[n]>>]
  <2>1. n + 1 \in Nat /\ n < n + 1 /\ n =< n /\ n =< n + 1
    OBVIOUS
  <2>2. Begins(V, v, F, part(n + 1), n + 1) /\ Begins(V, v, F, part(n), n)
    BY <1>1, <2>1
  <2>3. part(n + 1)[n] = part(n)[n]
    <3>1. Agree(part(n + 1), n + 1, part(n), n)
      BY <2>1, <2>2, BeginningsAgree
    <3> QED
      BY <2>1, <3>1 DEF Agree
  <2>4. part(n + 1)[n + 1] = F[<<n, part(n + 1)[n]>>]
    BY <2>1, <2>2 DEF Begins
  <2> QED
    BY <2>1, <2>3, <2>4
<1>5. Recurs(V, v, F, whole)
  BY <1>3, <1>4 DEF Recurs
<1> QED
  BY <1>5

(* ... and of a finite set's subsets, taken apart element by element as the *)
(* folds of the community modules do.                                       *)
Unfolded(S, base, op, pick, w) ==
    [s \in SUBSET S |-> IF s = {} THEN base ELSE op[<<pick[s], w[s \ {pick[s]}]>>]]

LEMMA UnfoldedType ==
  ASSUME NEW S, NEW V, NEW base \in V, NEW op \in [S \X V -> V],
         NEW pick, \A s \in SUBSET S : s # {} => pick[s] \in s,
         NEW w \in [SUBSET S -> V]
  PROVE  Unfolded(S, base, op, pick, w) \in [SUBSET S -> V]
  BY DEF Unfolded

SameUpto(S, n, w, x) == \A s \in SUBSET S : Cardinality(s) =< n => w[s] = x[s]

(* Two unfoldings agree where the functions they unfold do, one element     *)
(* further.                                                                 *)
LEMMA UnfoldedAgree ==
  ASSUME NEW S, IsFiniteSet(S), NEW base, NEW op,
         NEW pick, \A s \in SUBSET S : s # {} => pick[s] \in s,
         NEW n \in Nat, NEW w, NEW x,
         SameUpto(S, n, w, x)
  PROVE  SameUpto(S, n + 1, Unfolded(S, base, op, pick, w), Unfolded(S, base, op, pick, x))
<1> SUFFICES ASSUME NEW s \in SUBSET S, Cardinality(s) =< n + 1
             PROVE  Unfolded(S, base, op, pick, w)[s] = Unfolded(S, base, op, pick, x)[s]
  BY DEF SameUpto
<1>1. CASE s = {}
  BY <1>1 DEF Unfolded
<1>2. CASE s # {}
  <2>1. IsFiniteSet(s) /\ pick[s] \in s
    BY <1>2, FS_Subset
  <2>2. /\ Cardinality(s \ {pick[s]}) = Cardinality(s) - 1
        /\ Cardinality(s) \in Nat
    BY <2>1, FS_RemoveElement, FS_CardinalityType
  <2>3. w[s \ {pick[s]}] = x[s \ {pick[s]}]
    BY <2>2 DEF SameUpto
  <2> QED
    BY <1>2, <2>3 DEF Unfolded
<1> QED
  BY <1>1, <1>2

Folds(S, V, base, op, pick, it) ==
    it \in [SUBSET S -> V] /\ it = Unfolded(S, base, op, pick, it)

LEMMA FoldExists ==
  ASSUME NEW S, IsFiniteSet(S), NEW V, NEW base \in V, NEW op \in [S \X V -> V],
         NEW pick, \A s \in SUBSET S : s # {} => pick[s] \in s
  PROVE  \E it : Folds(S, V, base, op, pick, it)
<1> DEFINE W    == [SUBSET S -> V]
           G(w) == Unfolded(S, base, op, pick, w)
           F    == [x \in Nat \X W |-> G(x[2])]
           none == [s \in SUBSET S |-> base]
<1>1. \A w \in W : G(w) \in W
  BY UnfoldedType
<1>2. none \in W
  OBVIOUS
<1> HIDE DEF W, G
<1>3. F \in [Nat \X W -> W]
  BY <1>1
<1>4. \A n \in Nat, w \in W : F[<<n, w>>] = G(w)
  OBVIOUS
<1> HIDE DEF F, none
<1>5. PICK f : Recurs(W, none, F, f)
  BY <1>2, <1>3, Recursion
<1>6. \A n \in Nat : f[n] \in W /\ f[n + 1] = G(f[n])
  BY <1>4, <1>5 DEF Recurs
<1> DEFINE Stable(n) == SameUpto(S, n, f[n + 1], f[n + 2])
           stable == {n \in Nat : Stable(n)}
<1>7. Stable(0)
  <2> SUFFICES ASSUME NEW s \in SUBSET S, Cardinality(s) =< 0 PROVE f[0 + 1][s] = f[0 + 2][s]
    BY DEF SameUpto
  <2>1. IsFiniteSet(s)
    BY FS_Subset
  <2>2. Cardinality(s) = 0
    BY <2>1, FS_CardinalityType
  <2>3. s = {}
    BY <2>1, <2>2, FS_EmptySet
  <2>4. \A w \in W : G(w)[s] = base
    BY <2>3 DEF G, Unfolded
  <2>5. f[0 + 1] = G(f[0]) /\ f[1 + 1] = G(f[1]) /\ f[0] \in W /\ f[1] \in W
    BY <1>6
  <2>6. 0 + 2 = 1 + 1
    OBVIOUS
  <2> QED
    BY <2>4, <2>5, <2>6
<1>8. ASSUME NEW n \in Nat, Stable(n) PROVE Stable(n + 1)
  <2>1. /\ n + 1 \in Nat /\ n + 2 \in Nat
        /\ (n + 1) + 1 = n + 2 /\ (n + 1) + 2 = (n + 2) + 1
    OBVIOUS
  <2>2. f[n + 2] = G(f[n + 1]) /\ f[(n + 2) + 1] = G(f[n + 2])
    BY <1>6, <2>1
  <2>3. SameUpto(S, n + 1, G(f[n + 1]), G(f[n + 2]))
    BY <1>8, UnfoldedAgree DEF G
  <2> QED
    BY <2>1, <2>2, <2>3
<1>9. stable = Nat
  <2>1. stable \in SUBSET Nat /\ 0 \in stable /\ \A n \in stable : n + 1 \in stable
    <3> HIDE DEF Stable
    <3> QED
      BY <1>7, <1>8
  <2> HIDE DEF stable
  <2> QED
    BY <2>1, SetInduction
<1> DEFINE N == Cardinality(S)
<1>10. N \in Nat /\ N + 1 \in Nat /\ N + 2 = (N + 1) + 1 /\ \A s \in SUBSET S : Cardinality(s) =< N
  BY FS_CardinalityType, FS_Subset
<1> HIDE DEF N
<1>11. Stable(N)
  <2> HIDE DEF Stable
  <2> QED
    BY <1>9, <1>10
<1>12. f[N + 1] \in W /\ f[N + 2] \in W /\ f[N + 2] = G(f[N + 1])
  <2>1. f[(N + 1) + 1] = G(f[N + 1]) /\ f[N + 1] \in W
    BY <1>6, <1>10
  <2> QED
    BY <1>1, <1>10, <2>1
<1>13. \A s \in SUBSET S : f[N + 1][s] = f[N + 2][s]
  BY <1>10, <1>11 DEF SameUpto
<1>14. f[N + 1] = f[N + 2]
  BY <1>12, <1>13 DEF W
<1>15. f[N + 1] = G(f[N + 1])
  BY <1>12, <1>14
<1> QED
  BY <1>12, <1>15 DEF W, G, Folds

(* A fold stays where its steps stay.                                      *)
LEMMA FoldStays ==
  ASSUME NEW S, IsFiniteSet(S), NEW V, NEW w, w[{}] \in V,
         NEW pick, \A s \in SUBSET S : s # {} => pick[s] \in s,
         \A s \in SUBSET S : s # {} /\ w[s \ {pick[s]}] \in V => w[s] \in V
  PROVE  \A s \in SUBSET S : w[s] \in V
<1> DEFINE Holds(n) == \A s \in SUBSET S : Cardinality(s) =< n => w[s] \in V
           good == {n \in Nat : Holds(n)}
<1>1. Holds(0)
  <2> SUFFICES ASSUME NEW s \in SUBSET S, Cardinality(s) =< 0 PROVE w[s] \in V
    OBVIOUS
  <2>1. IsFiniteSet(s)
    BY FS_Subset
  <2>2. s = {}
    BY <2>1, FS_CardinalityType, FS_EmptySet
  <2> QED
    BY <2>2
<1>2. ASSUME NEW n \in Nat, Holds(n) PROVE Holds(n + 1)
  <2> SUFFICES ASSUME NEW s \in SUBSET S, Cardinality(s) =< n + 1, s # {} PROVE w[s] \in V
    OBVIOUS
  <2>1. IsFiniteSet(s) /\ pick[s] \in s
    BY FS_Subset
  <2>2. /\ Cardinality(s \ {pick[s]}) = Cardinality(s) - 1
        /\ Cardinality(s) \in Nat
    BY <2>1, FS_RemoveElement, FS_CardinalityType
  <2>3. w[s \ {pick[s]}] \in V
    BY <1>2, <2>2
  <2> QED
    BY <2>3
<1>3. good = Nat
  <2>1. good \in SUBSET Nat /\ 0 \in good /\ \A n \in good : n + 1 \in good
    <3> HIDE DEF Holds
    <3> QED
      BY <1>1, <1>2
  <2> HIDE DEF good
  <2> QED
    BY <2>1, SetInduction
<1>4. Cardinality(S) \in Nat /\ \A s \in SUBSET S : Cardinality(s) =< Cardinality(S)
  BY FS_CardinalityType, FS_Subset
<1> QED
  BY <1>3, <1>4

-----------------------------------------------------------------------------
(* The least and the greatest of a set of offsets.                         *)
LEMMA MinFacts ==
  ASSUME NEW T \in SUBSET Nat, T # {}
  PROVE  Min(T) \in T /\ \A y \in T : Min(T) =< y
  BY LeastNumber DEF Min

LEMMA MaxFacts ==
  ASSUME NEW n \in Nat, NEW T \in SUBSET (0..n), T # {}
  PROVE  Max(T) \in T /\ \A y \in T : y =< Max(T)
<1> DEFINE flipped == {n - y : y \in T}
<1>1. flipped \in SUBSET Nat /\ flipped # {}
  <2>1. PICK t \in T : TRUE
    OBVIOUS
  <2>2. n - t \in flipped
    OBVIOUS
  <2>3. \A y \in T : n - y \in Nat
    OBVIOUS
  <2> QED
    BY <2>2, <2>3
<1>2. PICK x \in flipped : \A y \in flipped : x =< y
  <2> HIDE DEF flipped
  <2> QED
    BY <1>1, LeastNumber
<1>3. PICK z \in T : x = n - z
  BY <1>2
<1>4. \A y \in T : z >= y
  <2> SUFFICES ASSUME NEW y \in T PROVE z >= y
    OBVIOUS
  <2>1. n - y \in flipped /\ z \in Nat /\ y \in Nat
    OBVIOUS
  <2>2. n - z =< n - y
    BY <1>2, <1>3, <2>1
  <2> QED
    BY <2>1, <2>2
<1>5. Max(T) \in T /\ \A y \in T : Max(T) >= y
  BY <1>4 DEF Max
<1> QED
  BY <1>5

(* The ends of an interval, and what is left without one of them.           *)
LEMMA IntervalEnds ==
  ASSUME NEW n \in Nat, NEW i \in 1..n
  PROVE  /\ i..n \in SUBSET (1..n) /\ i..n # {} /\ Min(i..n) = i /\ (i..n) \ {i} = (i + 1)..n
         /\ 1..i \in SUBSET (1..n) /\ 1..i # {} /\ Max(1..i) = i /\ (1..i) \ {i} = 1..(i - 1)
<1>1. i..n \in SUBSET Nat /\ i \in i..n /\ 1..i \in SUBSET (0..n) /\ i \in 1..i
  OBVIOUS
<1>2. Min(i..n) \in i..n /\ \A y \in i..n : Min(i..n) =< y
  BY <1>1, MinFacts
<1>3. Max(1..i) \in 1..i /\ \A y \in 1..i : y =< Max(1..i)
  BY <1>1, MaxFacts
<1>4. Min(i..n) = i
  BY <1>1, <1>2
<1>5. Max(1..i) = i
  BY <1>1, <1>3
<1>6. (i..n) \ {i} = (i + 1)..n /\ (1..i) \ {i} = 1..(i - 1)
  OBVIOUS
<1>7. i..n \in SUBSET (1..n) /\ 1..i \in SUBSET (1..n)
  OBVIOUS
<1> QED
  BY <1>1, <1>4, <1>5, <1>6, <1>7, Zenon

-----------------------------------------------------------------------------
(* The folds of sequences, step by step.                                    *)
Ends(m, pick) ==
    \A s \in SUBSET (1..m) : s # {} => pick[s] \in s

GoesLeft(m)  == [s \in SUBSET (1..m) |-> Max(s)]
GoesRight(m) == [s \in SUBSET (1..m) |-> Min(s)]

LEMMA EndsAreElements ==
  ASSUME NEW m \in Nat
  PROVE  Ends(m, GoesLeft(m)) /\ Ends(m, GoesRight(m))
<1> SUFFICES ASSUME NEW s \in SUBSET (1..m), s # {} PROVE Max(s) \in s /\ Min(s) \in s
  BY DEF Ends, GoesLeft, GoesRight
<1>1. s \in SUBSET (0..m) /\ s \in SUBSET Nat
  OBVIOUS
<1> QED
  BY <1>1, MinFacts, MaxFacts

(* w is what a fold's definition says it is, whatever it may be elsewhere.  *)
Folded(m, V, base, op, pick, w) ==
    /\ w[{}] = base
    /\ \A s \in SUBSET (1..m) :
         s # {} /\ w[s \ {pick[s]}] \in V => w[s] = op[<<pick[s], w[s \ {pick[s]}]>>]

LEMMA FoldedExists ==
  ASSUME NEW m \in Nat, NEW V, NEW base \in V, NEW op \in [(1..m) \X V -> V],
         NEW pick, Ends(m, pick)
  PROVE  \E it \in [SUBSET (1..m) -> V] : Folded(m, V, base, op, pick, it)
<1>1. IsFiniteSet(1..m) /\ \A s \in SUBSET (1..m) : s # {} => pick[s] \in s
  BY FS_Interval DEF Ends
<1>2. PICK it : Folds(1..m, V, base, op, pick, it)
  BY <1>1, FoldExists
<1>3. it \in [SUBSET (1..m) -> V] /\ it = Unfolded(1..m, base, op, pick, it)
  BY <1>2 DEF Folds
<1>4. it[{}] = base
  BY <1>3 DEF Unfolded
<1>5. \A s \in SUBSET (1..m) : s # {} => it[s] = op[<<pick[s], it[s \ {pick[s]}]>>]
  BY <1>3 DEF Unfolded
<1> QED
  BY <1>3, <1>4, <1>5 DEF Folded

LEMMA FoldedStays ==
  ASSUME NEW m \in Nat, NEW V, NEW base \in V, NEW op \in [(1..m) \X V -> V],
         NEW pick, Ends(m, pick), NEW w, Folded(m, V, base, op, pick, w)
  PROVE  \A s \in SUBSET (1..m) : w[s] \in V
<1>1. IsFiniteSet(1..m) /\ \A s \in SUBSET (1..m) : s # {} => pick[s] \in s
  BY FS_Interval DEF Ends
<1>2. \A s \in SUBSET (1..m) : s # {} /\ w[s \ {pick[s]}] \in V => w[s] \in V
  <2> SUFFICES ASSUME NEW s \in SUBSET (1..m), s # {}, w[s \ {pick[s]}] \in V PROVE w[s] \in V
    OBVIOUS
  <2>1. w[s] = op[<<pick[s], w[s \ {pick[s]}]>>] /\ pick[s] \in 1..m
    BY <1>1 DEF Folded
  <2> QED
    BY <2>1
<1>3. w[{}] \in V
  BY DEF Folded
<1> QED
  BY <1>1, <1>2, <1>3, FoldStays

(* From left to right: p[i] is what the first i elements come to.           *)
Leftwards(m, V, base, op, result, p) ==
    /\ p \in [0..m -> V]
    /\ p[0] = base
    /\ \A i \in 1..m : p[i] = op[<<i, p[i - 1]>>]
    /\ p[m] = result

LEMMA LeftSteps ==
  ASSUME NEW m \in Nat, NEW V, NEW base \in V, NEW op \in [(1..m) \X V -> V],
         NEW w, Folded(m, V, base, op, GoesLeft(m), w)
  PROVE  \E p : Leftwards(m, V, base, op, w[1..m], p)
<1>1. \A s \in SUBSET (1..m) : w[s] \in V
  BY EndsAreElements, FoldedStays
<1> DEFINE p == [i \in 0..m |-> w[1..i]]
<1>2. 1..0 = {} /\ 0 \in 0..m /\ m \in 0..m
  OBVIOUS
<1>3. p \in [0..m -> V] /\ p[0] = base /\ p[m] = w[1..m]
  <2>1. \A i \in 0..m : 1..i \in SUBSET (1..m)
    OBVIOUS
  <2> QED
    BY <1>1, <1>2, <2>1 DEF Folded
<1>4. ASSUME NEW i \in 1..m PROVE p[i] = op[<<i, p[i - 1]>>]
  <2>1. 1..i \in SUBSET (1..m) /\ 1..i # {} /\ Max(1..i) = i /\ (1..i) \ {i} = 1..(i - 1)
    BY IntervalEnds
  <2>2. i \in 0..m /\ i - 1 \in 0..m /\ 1..(i - 1) \in SUBSET (1..m)
    OBVIOUS
  <2>3. GoesLeft(m)[1..i] = i
    BY <2>1 DEF GoesLeft
  <2>4. w[(1..i) \ {i}] \in V
    BY <1>1, <2>1, <2>2
  <2>5. w[1..i] = op[<<i, w[(1..i) \ {i}]>>]
    BY <2>1, <2>3, <2>4 DEF Folded
  <2> QED
    BY <2>1, <2>2, <2>5
<1>5. Leftwards(m, V, base, op, w[1..m], p)
  <2> HIDE DEF p
  <2> QED
    BY <1>3, <1>4 DEF Leftwards
<1> QED
  BY <1>5

(* From right to left: h[i] is what the elements from the i-th on come to.  *)
Rightwards(m, V, base, op, result, h) ==
    /\ h \in [1..(m + 1) -> V]
    /\ h[m + 1] = base
    /\ \A i \in 1..m : h[i] = op[<<i, h[i + 1]>>]
    /\ h[1] = result

LEMMA RightSteps ==
  ASSUME NEW m \in Nat, NEW V, NEW base \in V, NEW op \in [(1..m) \X V -> V],
         NEW w, Folded(m, V, base, op, GoesRight(m), w)
  PROVE  \E h : Rightwards(m, V, base, op, w[1..m], h)
<1>1. \A s \in SUBSET (1..m) : w[s] \in V
  BY EndsAreElements, FoldedStays
<1> DEFINE h == [i \in 1..(m + 1) |-> w[i..m]]
<1>2. (m + 1)..m = {} /\ 1 \in 1..(m + 1) /\ m + 1 \in 1..(m + 1)
  OBVIOUS
<1>3. h \in [1..(m + 1) -> V] /\ h[m + 1] = base /\ h[1] = w[1..m]
  <2>1. \A i \in 1..(m + 1) : i..m \in SUBSET (1..m)
    OBVIOUS
  <2> QED
    BY <1>1, <1>2, <2>1 DEF Folded
<1>4. ASSUME NEW i \in 1..m PROVE h[i] = op[<<i, h[i + 1]>>]
  <2>1. i..m \in SUBSET (1..m) /\ i..m # {} /\ Min(i..m) = i /\ (i..m) \ {i} = (i + 1)..m
    BY IntervalEnds
  <2>2. i \in 1..(m + 1) /\ i + 1 \in 1..(m + 1) /\ (i + 1)..m \in SUBSET (1..m)
    OBVIOUS
  <2>3. GoesRight(m)[i..m] = i
    BY <2>1 DEF GoesRight
  <2>4. w[(i..m) \ {i}] \in V
    BY <1>1, <2>1, <2>2
  <2>5. w[i..m] = op[<<i, w[(i..m) \ {i}]>>]
    BY <2>1, <2>3, <2>4 DEF Folded
  <2> QED
    BY <2>1, <2>2, <2>5
<1>5. Rightwards(m, V, base, op, w[1..m], h)
  <2> HIDE DEF h
  <2> QED
    BY <1>3, <1>4 DEF Rightwards
<1> QED
  BY <1>5

-----------------------------------------------------------------------------
(* What the folds of TextPositions compute.                                *)
(* A text edit with its offsets.                                           *)
Entries == [start : Nat, end : Nat, new : Seq(Characters)]

LEMMA EntryTypes ==
  ASSUME NEW resolved \in Seq(Entries)
  PROVE  /\ Len(resolved) \in Nat /\ DOMAIN resolved = 1..Len(resolved)
         /\ IsFiniteSet(1..Len(resolved)) /\ Cardinality(1..Len(resolved)) = Len(resolved)
         /\ \A i \in 1..Len(resolved) : /\ resolved[i] \in Entries
                                        /\ resolved[i].start \in Nat
                                        /\ resolved[i].end \in Nat
                                        /\ resolved[i].new \in Seq(Characters)
<1>1. Len(resolved) \in Nat /\ DOMAIN resolved = 1..Len(resolved)
  OBVIOUS
<1>2. \A i \in 1..Len(resolved) : resolved[i] \in Entries
  OBVIOUS
<1>3. \A e \in Entries : e.start \in Nat /\ e.end \in Nat /\ e.new \in Seq(Characters)
  BY DEF Entries
<1>4. IsFiniteSet(1..Len(resolved)) /\ Cardinality(1..Len(resolved)) = Len(resolved)
  <2> DEFINE m == Len(resolved)
  <2>1. m \in Nat
    BY <1>1
  <2> HIDE DEF m
  <2>2. IsFiniteSet(1..m) /\ Cardinality(1..m) = m
    BY <2>1, FS_Interval
  <2> QED
    BY <2>2 DEF m
<1> QED
  BY <1>1, <1>2, <1>3, <1>4

(* At an offset, the listed edits' texts one after the other.               *)
Puts(resolved, k, p) ==
    /\ p \in [0..Len(resolved) -> Seq(Characters)]
    /\ p[0] = <<>>
    /\ \A i \in 1..Len(resolved) :
         p[i] = IF resolved[i].start = k THEN p[i - 1] \o resolved[i].new ELSE p[i - 1]
    /\ p[Len(resolved)] = PutAt(resolved, k)

LEMMA PutSteps ==
  ASSUME NEW resolved \in Seq(Entries), NEW k \in Nat
  PROVE  \E p : Puts(resolved, k, p)
<1> DEFINE m == Len(resolved)
           S == 1..m
           V == Seq(Characters)
           put(i, acc) == IF resolved[i].start = k THEN acc \o resolved[i].new ELSE acc
           unfold(w) == [s \in SUBSET S |-> IF s = {} THEN <<>>
                                            ELSE put(Max(s), w[s \ {Max(s)}])]
           op   == [x \in S \X V |-> put(x[1], x[2])]
<1>1. m \in Nat /\ DOMAIN resolved = S /\ \A i \in S : resolved[i] \in Entries
  OBVIOUS
<1>2. \A i \in S, acc \in V : put(i, acc) \in V
  <2>1. \A i \in S : resolved[i].new \in V
    BY <1>1 DEF Entries
  <2>2. \A x, y \in V : x \o y \in V
    BY ConcatProperties
  <2> HIDE DEF V, S
  <2> QED
    BY <2>1, <2>2
<1>3. <<>> \in V
  OBVIOUS
<1>5. PutAt(resolved, k) = (CHOOSE w : w = unfold(w))[S]
  BY <1>1 DEF PutAt, FoldLeft, MapThenFoldSet
<1>6. op \in [S \X V -> V] /\ \A i \in S, acc \in V : op[<<i, acc>>] = put(i, acc)
  <2> HIDE DEF put, V, S
  <2> QED
    BY <1>2
<1> HIDE DEF put, op, V, m
<1>4. /\ Ends(m, GoesLeft(m))
      /\ \A s \in SUBSET S : s # {} => GoesLeft(m)[s] = Max(s) /\ Max(s) \in S
  BY <1>1, EndsAreElements DEF GoesLeft, Ends
<1>7. PICK it \in [SUBSET S -> V] : Folded(m, V, <<>>, op, GoesLeft(m), it)
  BY <1>1, <1>3, <1>4, <1>6, FoldedExists
<1>8. it = unfold(it)
  <2>1. it[{}] = <<>>
    BY <1>7 DEF Folded
  <2>2. \A s \in SUBSET S : s # {} => it[s] = put(Max(s), it[s \ {Max(s)}])
    BY <1>4, <1>6, <1>7 DEF Folded
  <2>3. \A s \in SUBSET S : it[s] = unfold(it)[s]
    BY <2>1, <2>2
  <2> QED
    BY <1>7, <2>3
<1> DEFINE w == CHOOSE w : w = unfold(w)
<1>9. w = unfold(w)
  <2> HIDE DEF unfold
  <2> QED
    BY <1>8
<1>10. PutAt(resolved, k) = w[S]
  BY <1>5
<1> HIDE DEF w
<1>11. w[{}] = <<>> /\ \A s \in SUBSET S : s # {} => w[s] = put(Max(s), w[s \ {Max(s)}])
  BY <1>9
<1>12. Folded(m, V, <<>>, op, GoesLeft(m), w)
  BY <1>4, <1>6, <1>11 DEF Folded
<1>13. PICK p : Leftwards(m, V, <<>>, op, w[S], p)
  BY <1>1, <1>3, <1>6, <1>12, LeftSteps
<1>14. p \in [0..m -> V] /\ p[0] = <<>> /\ p[m] = PutAt(resolved, k)
  BY <1>10, <1>13 DEF Leftwards
<1>15. \A i \in 1..m : p[i] = put(i, p[i - 1])
  <2> SUFFICES ASSUME NEW i \in 1..m PROVE p[i] = put(i, p[i - 1])
    OBVIOUS
  <2>1. i - 1 \in 0..m
    BY <1>1
  <2>2. p[i - 1] \in V
    BY <1>14, <2>1
  <2> QED
    BY <1>6, <1>13, <2>2 DEF Leftwards
<1>16. Puts(resolved, k, p)
  BY <1>14, <1>15 DEF Puts, m, V, put
<1> QED
  BY <1>16

LEMMA PutType ==
  ASSUME NEW resolved \in Seq(Entries), NEW k \in Nat
  PROVE  PutAt(resolved, k) \in Seq(Characters)
<1>1. PICK p : Puts(resolved, k, p)
  BY PutSteps
<1>2. Len(resolved) \in 0..Len(resolved)
  OBVIOUS
<1> QED
  BY <1>1, <1>2 DEF Puts

(* The whole text, offset by offset.                                        *)
Kept(text, resolved, k) ==
    IF k < Len(text) /\ ~Replaced(resolved, k + 1) THEN <<text[k + 1]>> ELSE <<>>

Intends(text, resolved, result, q) ==
    /\ q \in [0..(Len(text) + 1) -> Seq(Characters)]
    /\ q[0] = <<>>
    /\ \A k \in 0..Len(text) :
         q[k + 1] = (q[k] \o PutAt(resolved, k)) \o Kept(text, resolved, k)
    /\ q[Len(text) + 1] = result

LEMMA IntendedSteps ==
  ASSUME NEW text \in Seq(Characters), NEW edits, NEW encoding,
         Resolved(text, edits, encoding) \in Seq(Entries)
  PROVE  \E q : Intends(text, Resolved(text, edits, encoding), Intended(text, edits, encoding), q)
<1> DEFINE resolved == Resolved(text, edits, encoding)
           m == Len(text) + 1
           S == 1..m
           V == Seq(Characters)
           places == [i \in 1..(Len(text) + 1) |-> i - 1]
           put(k, acc) == acc \o PutAt(resolved, k)
                              \o IF k < Len(text) /\ ~Replaced(resolved, k + 1)
                                 THEN <<text[k + 1]>> ELSE <<>>
           unfold(w) == [s \in SUBSET S |-> IF s = {} THEN <<>>
                                            ELSE put(places[Max(s)], w[s \ {Max(s)}])]
           op   == [x \in S \X V |-> put(x[1] - 1, x[2])]
<1>1. Len(text) \in Nat /\ m \in Nat /\ DOMAIN places = S /\ \A i \in S : places[i] = i - 1
  OBVIOUS
<1>2. \A k \in 0..Len(text), acc \in V : put(k, acc) \in V
  <2> SUFFICES ASSUME NEW k \in 0..Len(text), NEW acc \in V PROVE put(k, acc) \in V
    OBVIOUS
  <2>1. PutAt(resolved, k) \in V
    BY <1>1, PutType
  <2>2. Kept(text, resolved, k) \in V
    BY DEF Kept
  <2>3. (acc \o PutAt(resolved, k)) \o Kept(text, resolved, k) \in V
    BY <2>1, <2>2, ConcatProperties
  <2> QED
    BY <2>3 DEF Kept
<1>3. <<>> \in V
  OBVIOUS
<1>5. Intended(text, edits, encoding) = (CHOOSE w : w = unfold(w))[S]
  <2>1. DOMAIN places = S
    OBVIOUS
  <2> QED
    BY <2>1 DEF Intended, FoldLeft, MapThenFoldSet
<1>6. op \in [S \X V -> V] /\ \A i \in S, acc \in V : op[<<i, acc>>] = put(i - 1, acc)
  <2>1. \A i \in S : i - 1 \in 0..Len(text)
    BY <1>1
  <2> HIDE DEF put, V, S
  <2> QED
    BY <1>2, <2>1
<1> HIDE DEF put, op, V, m, places, resolved
<1>4. /\ Ends(m, GoesLeft(m))
      /\ \A s \in SUBSET S : s # {} => GoesLeft(m)[s] = Max(s) /\ Max(s) \in S
  BY <1>1, EndsAreElements DEF GoesLeft, Ends
<1>7. PICK it \in [SUBSET S -> V] : Folded(m, V, <<>>, op, GoesLeft(m), it)
  BY <1>1, <1>3, <1>4, <1>6, FoldedExists
<1>8. it = unfold(it)
  <2>1. it[{}] = <<>>
    BY <1>7 DEF Folded
  <2>2. \A s \in SUBSET S : s # {} => it[s] = put(places[Max(s)], it[s \ {Max(s)}])
    <3> SUFFICES ASSUME NEW s \in SUBSET S, s # {}
                 PROVE  it[s] = put(places[Max(s)], it[s \ {Max(s)}])
      OBVIOUS
    <3>1. GoesLeft(m)[s] = Max(s) /\ Max(s) \in S /\ it[s \ {Max(s)}] \in V
      BY <1>4, <1>7
    <3>2. it[s] = op[<<Max(s), it[s \ {Max(s)}]>>]
      BY <1>7, <3>1 DEF Folded
    <3> QED
      BY <1>1, <1>6, <3>1, <3>2
  <2>3. \A s \in SUBSET S : it[s] = unfold(it)[s]
    BY <2>1, <2>2
  <2> QED
    BY <1>7, <2>3
<1> DEFINE w == CHOOSE w : w = unfold(w)
<1>9. w = unfold(w)
  <2> HIDE DEF unfold
  <2> QED
    BY <1>8
<1>10. Intended(text, edits, encoding) = w[S]
  BY <1>5
<1> HIDE DEF w
<1>11. /\ w[{}] = <<>>
       /\ \A s \in SUBSET S : s # {} => w[s] = put(places[Max(s)], w[s \ {Max(s)}])
  BY <1>9
<1>12. Folded(m, V, <<>>, op, GoesLeft(m), w)
  BY <1>1, <1>4, <1>6, <1>11 DEF Folded
<1>13. PICK q : Leftwards(m, V, <<>>, op, w[S], q)
  BY <1>1, <1>3, <1>6, <1>12, LeftSteps
<1>14. q \in [0..m -> V] /\ q[0] = <<>> /\ q[m] = Intended(text, edits, encoding)
  BY <1>10, <1>13 DEF Leftwards
<1>15. ASSUME NEW k \in 0..Len(text)
       PROVE  q[k + 1] = (q[k] \o PutAt(resolved, k)) \o Kept(text, resolved, k)
  <2>1. k + 1 \in S /\ k \in 0..m /\ k = (k + 1) - 1
    BY <1>1 DEF m
  <2>2. q[k] \in V
    BY <1>14, <2>1
  <2>3. q[k + 1] = op[<<k + 1, q[(k + 1) - 1]>>]
    BY <1>13, <2>1 DEF Leftwards
  <2>4. q[k + 1] = put(k, q[k])
    BY <1>6, <2>1, <2>2, <2>3
  <2> QED
    BY <2>4 DEF put, Kept
<1>16. Intends(text, resolved, Intended(text, edits, encoding), q)
  BY <1>14, <1>15 DEF Intends, m, V, resolved
<1> QED
  BY <1>16 DEF resolved

(* The splicing from the end: h[i] is the text with the edits from the i-th *)
(* on replaced.  No splice reaches past the end of what the later ones left.*)
Splices(text, sorted, result, h) ==
    /\ h \in [1..(Len(sorted) + 1) -> Seq(Characters)]
    /\ h[Len(sorted) + 1] = text
    /\ \A i \in 1..Len(sorted) :
         h[i] = replace_range(h[i + 1], sorted[i]) /\ sorted[i].start =< Len(h[i + 1])
    /\ h[1] = result

Ascending(sorted) ==
    \A i, j \in 1..Len(sorted) : i =< j => sorted[i].start =< sorted[j].start

LEMMA ReplaceRange ==
  ASSUME NEW text \in Seq(Characters), NEW e \in Entries, e.start =< Len(text)
  PROVE  /\ replace_range(text, e) \in Seq(Characters)
         /\ Len(replace_range(text, e)) >= e.start
         /\ \A x \in 1..e.start : replace_range(text, e)[x] = text[x]
<1>1. e.start \in Nat /\ e.end \in Nat /\ e.new \in Seq(Characters) /\ Len(text) \in Nat
  BY DEF Entries
<1> DEFINE head == SubSeq(text, 1, e.start)
           tail == SubSeq(text, e.end + 1, Len(text))
<1>2. /\ head \in Seq(Characters) /\ Len(head) = e.start
      /\ \A x \in 1..e.start : head[x] = text[x]
  BY <1>1
<1>3. tail \in Seq(Characters)
  BY <1>1
<1>4. replace_range(text, e) = (head \o e.new) \o tail
  BY DEF replace_range
<1> HIDE DEF head, tail
<1>5. /\ head \o e.new \in Seq(Characters) /\ Len(head \o e.new) >= e.start
      /\ \A x \in 1..e.start : (head \o e.new)[x] = text[x]
  BY <1>1, <1>2
<1> DEFINE front == head \o e.new
<1> HIDE DEF front
<1>6. /\ front \o tail \in Seq(Characters) /\ Len(front \o tail) = Len(front) + Len(tail)
      /\ \A x \in 1..Len(front) : (front \o tail)[x] = front[x]
  <2>1. front \in Seq(Characters)
    BY <1>5 DEF front
  <2> QED
    BY <1>3, <2>1
<1>7. Len(front) \in Nat /\ Len(tail) \in Nat
  BY <1>3, <1>5 DEF front
<1>8. /\ front \o tail \in Seq(Characters) /\ Len(front \o tail) >= e.start
      /\ \A x \in 1..e.start : (front \o tail)[x] = text[x]
  BY <1>1, <1>5, <1>6, <1>7 DEF front
<1> QED
  BY <1>4, <1>8 DEF front

LEMMA SpliceSteps ==
  ASSUME NEW text \in Seq(Characters), NEW sorted \in Seq(Entries), Ascending(sorted),
         \A i \in 1..Len(sorted) : sorted[i].start =< Len(text)
  PROVE  \E h : Splices(text, sorted, SpliceFromEnd(text, sorted), h)
<1> DEFINE m == Len(sorted)
           S == 1..m
           V == Seq(Characters)
           put(i, acc) == replace_range(acc, sorted[i])
           fits(i, acc) == sorted[i].start =< Len(acc)
           unfold(w) == [s \in SUBSET S |-> IF s = {} THEN text
                                            ELSE put(Min(s), w[s \ {Min(s)}])]
           op   == [x \in S \X V |-> IF fits(x[1], x[2]) THEN put(x[1], x[2]) ELSE text]
<1>1. m \in Nat /\ DOMAIN sorted = S /\ \A i \in S : sorted[i] \in Entries
  OBVIOUS
<1>2. \A i \in S, acc \in V : fits(i, acc) => put(i, acc) \in V /\ Len(put(i, acc)) >= sorted[i].start
  BY <1>1, ReplaceRange
<1>3. \A i \in S : fits(i, text)
  OBVIOUS
<1>5. SpliceFromEnd(text, sorted) = (CHOOSE w : w = unfold(w))[S]
  BY <1>1 DEF SpliceFromEnd, FoldRight, MapThenFoldSet
<1>6. /\ op \in [S \X V -> V]
      /\ \A i \in S, acc \in V :
           op[<<i, acc>>] = IF fits(i, acc) THEN put(i, acc) ELSE text
  <2>1. text \in V
    OBVIOUS
  <2> HIDE DEF put, V, S, fits
  <2> QED
    BY <1>2, <2>1
<1>16. \A i \in S, j \in S, acc \in V : i < j => fits(i, op[<<j, acc>>])
  <2> SUFFICES ASSUME NEW i \in S, NEW j \in S, NEW acc \in V, i < j PROVE fits(i, op[<<j, acc>>])
    OBVIOUS
  <2>1. CASE fits(j, acc)
    <3>1. op[<<j, acc>>] = put(j, acc) /\ put(j, acc) \in V /\ Len(put(j, acc)) >= sorted[j].start
      BY <1>2, <1>6, <2>1
    <3>2. sorted[i].start =< sorted[j].start /\ sorted[i].start \in Nat /\ sorted[j].start \in Nat
      BY <1>1 DEF Ascending, Entries
    <3> HIDE DEF put, op
    <3> QED
      BY <3>1, <3>2
  <2>2. CASE ~fits(j, acc)
    BY <1>3, <1>6, <2>2
  <2> QED
    BY <2>1, <2>2
<1> HIDE DEF put, op, V, m, fits
<1>4. /\ Ends(m, GoesRight(m))
      /\ \A s \in SUBSET S : s # {} => /\ GoesRight(m)[s] = Min(s) /\ Min(s) \in s /\ Min(s) \in S
                                       /\ \A i \in s : Min(s) =< i
  <2>1. \A s \in SUBSET S : s \in SUBSET Nat
    OBVIOUS
  <2> QED
    BY <1>1, <2>1, EndsAreElements, MinFacts DEF GoesRight
<1>7. PICK it \in [SUBSET S -> V] : Folded(m, V, text, op, GoesRight(m), it)
  <2>1. text \in V
    BY DEF V
  <2>2. Ends(m, GoesRight(m)) /\ op \in [S \X V -> V] /\ m \in Nat
    BY <1>1, <1>4, <1>6
  <2> QED
    BY <2>1, <2>2, FoldedExists
<1>17. \A s \in SUBSET S : s # {} => it[s] = op[<<Min(s), it[s \ {Min(s)}]>>]
  BY <1>4, <1>7 DEF Folded
<1>18. ASSUME NEW s \in SUBSET S, s # {} PROVE fits(Min(s), it[s \ {Min(s)}])
  <2> DEFINE r == s \ {Min(s)}
  <2>1. CASE r = {}
    BY <1>3, <1>4, <1>7, <1>18, <2>1 DEF Folded
  <2>2. CASE r # {}
    <3>1. r \in SUBSET S /\ Min(r) \in r /\ Min(s) \in S /\ Min(r) \in S /\ Min(s) < Min(r)
      <4>1. /\ Min(s) \in s /\ Min(s) \in S /\ \A i \in s : Min(s) =< i
            /\ s \in SUBSET S
        BY <1>4, <1>18
      <4>2. r \in SUBSET S /\ Min(r) \in r /\ Min(r) \in S
        BY <1>4, <2>2
      <4>3. Min(s) # Min(r) /\ Min(s) =< Min(r)
        BY <4>1, <4>2
      <4>4. Min(s) \in Nat /\ Min(r) \in Nat
        BY <4>1, <4>2
      <4> QED
        BY <4>1, <4>2, <4>3, <4>4
    <3>2. it[r] = op[<<Min(r), it[r \ {Min(r)}]>>] /\ it[r \ {Min(r)}] \in V
      BY <1>7, <1>17, <2>2, <3>1
    <3> QED
      BY <1>16, <3>1, <3>2
  <2> QED
    BY <2>1, <2>2
<1>8. it = unfold(it)
  <2>1. it[{}] = text
    BY <1>7 DEF Folded
  <2>2. \A s \in SUBSET S : s # {} => it[s] = put(Min(s), it[s \ {Min(s)}])
    <3> SUFFICES ASSUME NEW s \in SUBSET S, s # {} PROVE it[s] = put(Min(s), it[s \ {Min(s)}])
      OBVIOUS
    <3>1. it[s \ {Min(s)}] \in V /\ Min(s) \in S
      BY <1>4, <1>7
    <3> QED
      BY <1>6, <1>17, <1>18, <3>1
  <2>3. \A s \in SUBSET S : it[s] = unfold(it)[s]
    BY <2>1, <2>2
  <2> QED
    BY <1>7, <2>3
<1> DEFINE w == CHOOSE w : w = unfold(w)
<1>9. w = unfold(w)
  <2> HIDE DEF unfold
  <2> QED
    BY <1>8
<1>10. SpliceFromEnd(text, sorted) = w[S]
  BY <1>5
<1> HIDE DEF w
<1>11. w[S] = it[S]
  <2> DEFINE same == [s \in SUBSET S |-> w[s] = it[s]]
             pick == GoesRight(m)
  <2>1. same[{}] \in {TRUE}
    BY <1>8, <1>9
  <2>2. \A s \in SUBSET S : s # {} /\ same[s \ {pick[s]}] \in {TRUE} => same[s] \in {TRUE}
    <3> SUFFICES ASSUME NEW s \in SUBSET S, s # {}, same[s \ {pick[s]}] \in {TRUE}
                 PROVE  w[s] = it[s]
      OBVIOUS
    <3>1. s \ {pick[s]} \in SUBSET S /\ pick[s] = Min(s)
      BY <1>4
    <3>2. w[s \ {Min(s)}] = it[s \ {Min(s)}]
      BY <3>1
    <3>3. w[s] = put(Min(s), w[s \ {Min(s)}])
      BY <1>9
    <3>4. it[s] = put(Min(s), it[s \ {Min(s)}])
      BY <1>8
    <3> QED
      BY <3>2, <3>3, <3>4
  <2>3. \A s \in SUBSET S : s # {} => pick[s] \in s
    BY <1>4
  <2>6. IsFiniteSet(S)
    BY <1>1, FS_Interval
  <2> DEFINE Yes == {TRUE}
  <2>7. /\ same[{}] \in Yes
        /\ \A s \in SUBSET S : s # {} /\ same[s \ {pick[s]}] \in Yes => same[s] \in Yes
    BY <2>1, <2>2
  <2> HIDE DEF same, pick, S, Yes
  <2>4. \A s \in SUBSET S : same[s] \in Yes
    BY <2>3, <2>6, <2>7, FoldStays
  <2>5. same[S] = (w[S] = it[S])
    BY DEF same
  <2> QED
    BY <2>4, <2>5 DEF Yes, S
<1>13. PICK h : Rightwards(m, V, text, op, it[S], h)
  BY <1>1, <1>6, <1>7, RightSteps DEF V
<1>14. h \in [1..(m + 1) -> V] /\ h[m + 1] = text /\ h[1] = SpliceFromEnd(text, sorted)
  BY <1>10, <1>11, <1>13 DEF Rightwards
<1>15. ASSUME NEW i \in 1..m PROVE h[i] = put(i, h[i + 1]) /\ fits(i, h[i + 1])
  <2>1. i \in S /\ i + 1 \in 1..(m + 1) /\ h[i + 1] \in V
    BY <1>1, <1>14
  <2>2. fits(i, h[i + 1])
    <3>1. CASE i = m
      BY <1>3, <1>14, <2>1, <3>1
    <3>2. CASE i # m
      <4>1. i + 1 \in S /\ (i + 1) + 1 \in 1..(m + 1) /\ i < i + 1
        BY <1>1, <3>2
      <4>2. h[i + 1] = op[<<i + 1, h[(i + 1) + 1]>>] /\ h[(i + 1) + 1] \in V
        BY <1>13, <1>14, <4>1 DEF Rightwards
      <4> QED
        BY <1>16, <2>1, <4>1, <4>2
    <3> QED
      BY <3>1, <3>2
  <2>3. h[i] = op[<<i, h[i + 1]>>]
    BY <1>13 DEF Rightwards
  <2> QED
    BY <1>6, <2>1, <2>2, <2>3
<1>19. Splices(text, sorted, SpliceFromEnd(text, sorted), h)
  BY <1>14, <1>15 DEF Splices, m, V, put, fits
<1> QED
  BY <1>19

-----------------------------------------------------------------------------
(* The sort.  A rank counts the edits up to a place in the order of starts, *)
(* the first i of the list among those that start at k.                     *)
UpTo(resolved, k, i) ==
    {j \in 1..Len(resolved) : \/ resolved[j].start < k
                              \/ resolved[j].start = k /\ j <= i}

Count(resolved, k, i) == Cardinality(UpTo(resolved, k, i))

LEMMA UpToIsFinite ==
  ASSUME NEW resolved \in Seq(Entries), NEW k, NEW i
  PROVE  /\ IsFiniteSet(UpTo(resolved, k, i))
         /\ Count(resolved, k, i) \in 0..Len(resolved)
<1>1. IsFiniteSet(1..Len(resolved)) /\ Cardinality(1..Len(resolved)) = Len(resolved)
  BY EntryTypes
<1>2. UpTo(resolved, k, i) \in SUBSET (1..Len(resolved))
  BY DEF UpTo
<1>3. /\ IsFiniteSet(UpTo(resolved, k, i))
      /\ Cardinality(UpTo(resolved, k, i)) =< Len(resolved)
  BY <1>1, <1>2, FS_Subset
<1>4. Cardinality(UpTo(resolved, k, i)) \in Nat
  BY <1>3, FS_CardinalityType
<1> QED
  BY <1>3, <1>4 DEF Count

(* A set of ranks that reaches further counts more.                         *)
LEMMA CountGrows ==
  ASSUME NEW resolved \in Seq(Entries), NEW k, NEW i, NEW l, NEW j,
         UpTo(resolved, k, i) \subseteq UpTo(resolved, l, j)
  PROVE  /\ Count(resolved, k, i) =< Count(resolved, l, j)
         /\ \A x \in UpTo(resolved, l, j) :
              x \notin UpTo(resolved, k, i) => Count(resolved, k, i) < Count(resolved, l, j)
<1>1. /\ IsFiniteSet(UpTo(resolved, l, j)) /\ Count(resolved, k, i) \in Nat
      /\ Count(resolved, l, j) \in Nat
  BY UpToIsFinite
<1>2. /\ Count(resolved, k, i) =< Count(resolved, l, j)
      /\ Count(resolved, k, i) = Count(resolved, l, j)
           => UpTo(resolved, l, j) = UpTo(resolved, k, i)
  BY <1>1, FS_Subset DEF Count
<1> QED
  BY <1>1, <1>2

LEMMA CountSteps ==
  ASSUME NEW resolved \in Seq(Entries), NEW k \in Nat
  PROVE  /\ Count(resolved, 0, 0) = 0
         /\ \A i \in 0..(Len(resolved) - 1) :
              Count(resolved, k, i + 1)
                = Count(resolved, k, i) + (IF resolved[i + 1].start = k THEN 1 ELSE 0)
         /\ Count(resolved, k + 1, 0) = Count(resolved, k, Len(resolved))
         /\ (\A i \in 1..Len(resolved) : resolved[i].start < k)
              => Count(resolved, k, 0) = Len(resolved)
<1>1. \A i \in 1..Len(resolved) : resolved[i].start \in Nat
  BY EntryTypes
<1>2. Count(resolved, 0, 0) = 0
  <2>1. UpTo(resolved, 0, 0) = {}
    BY <1>1 DEF UpTo
  <2> QED
    BY <2>1, FS_EmptySet DEF Count
<1>3. ASSUME NEW i \in 0..(Len(resolved) - 1)
      PROVE  Count(resolved, k, i + 1)
               = Count(resolved, k, i) + (IF resolved[i + 1].start = k THEN 1 ELSE 0)
  <2>1. i + 1 \in 1..Len(resolved) /\ ~(i + 1 <= i)
    OBVIOUS
  <2>2. CASE resolved[i + 1].start = k
    <3>1. UpTo(resolved, k, i + 1) = UpTo(resolved, k, i) \union {i + 1}
      BY <1>1, <2>1, <2>2 DEF UpTo
    <3>2. i + 1 \notin UpTo(resolved, k, i)
      BY <2>1, <2>2 DEF UpTo
    <3>3. IsFiniteSet(UpTo(resolved, k, i))
      BY UpToIsFinite
    <3>4. Cardinality(UpTo(resolved, k, i) \union {i + 1}) = Cardinality(UpTo(resolved, k, i)) + 1
      BY <3>2, <3>3, FS_AddElement
    <3> QED
      BY <2>2, <3>1, <3>4 DEF Count
  <2>3. CASE resolved[i + 1].start # k
    <3>1. UpTo(resolved, k, i + 1) = UpTo(resolved, k, i)
      BY <1>1, <2>1, <2>3 DEF UpTo
    <3>2. Count(resolved, k, i) \in Nat
      BY UpToIsFinite
    <3> QED
      BY <2>3, <3>1, <3>2 DEF Count
  <2> QED
    BY <2>2, <2>3
<1>4. Count(resolved, k + 1, 0) = Count(resolved, k, Len(resolved))
  <2>1. UpTo(resolved, k + 1, 0) = UpTo(resolved, k, Len(resolved))
    BY <1>1 DEF UpTo
  <2> QED
    BY <2>1 DEF Count
<1>5. ASSUME \A i \in 1..Len(resolved) : resolved[i].start < k
      PROVE  Count(resolved, k, 0) = Len(resolved)
  <2>1. UpTo(resolved, k, 0) = 1..Len(resolved)
    BY <1>5 DEF UpTo
  <2>2. Cardinality(1..Len(resolved)) = Len(resolved)
    BY EntryTypes
  <2> QED
    BY <2>1, <2>2 DEF Count
<1> QED
  BY <1>2, <1>3, <1>4, <1>5

LEMMA RankIsACount ==
  ASSUME NEW resolved \in Seq(Entries), NEW i \in 1..Len(resolved)
  PROVE  /\ RankOf(resolved, i) = Count(resolved, resolved[i].start, i)
         /\ RankOf(resolved, i) \in 1..Len(resolved)
<1>1. DOMAIN resolved = 1..Len(resolved)
  OBVIOUS
<1>2. RankOf(resolved, i) = Count(resolved, resolved[i].start, i)
  BY <1>1 DEF RankOf, Count, UpTo
<1>3. i \in UpTo(resolved, resolved[i].start, i)
  BY DEF UpTo
<1>4. Count(resolved, resolved[i].start, i) # 0
  <2>1. IsFiniteSet(UpTo(resolved, resolved[i].start, i))
    BY UpToIsFinite
  <2> QED
    BY <1>3, <2>1, FS_EmptySet DEF Count
<1>5. Count(resolved, resolved[i].start, i) \in 0..Len(resolved)
  BY UpToIsFinite
<1> QED
  BY <1>2, <1>4, <1>5

(* Ranks are a numbering: no two edits share one, and each is taken.        *)
LEMMA RanksAreANumbering ==
  ASSUME NEW resolved \in Seq(Entries)
  PROVE  /\ \A i, j \in 1..Len(resolved) : RankOf(resolved, i) = RankOf(resolved, j) => i = j
         /\ \A r \in 1..Len(resolved) : \E i \in 1..Len(resolved) : RankOf(resolved, i) = r
<1> DEFINE m == Len(resolved)
           S == 1..m
           rank == [i \in S |-> RankOf(resolved, i)]
<1>1. m \in Nat /\ \A i \in S : resolved[i].start \in Nat
  BY EntryTypes
<1>2. ASSUME NEW i \in S, NEW j \in S,
             \/ resolved[i].start < resolved[j].start
             \/ resolved[i].start = resolved[j].start /\ i < j
      PROVE  RankOf(resolved, i) < RankOf(resolved, j)
  <2>1. UpTo(resolved, resolved[i].start, i) \subseteq UpTo(resolved, resolved[j].start, j)
    <3> SUFFICES ASSUME NEW x \in UpTo(resolved, resolved[i].start, i)
                 PROVE  x \in UpTo(resolved, resolved[j].start, j)
      OBVIOUS
    <3>1. /\ x \in S /\ resolved[x].start \in Nat
          /\ resolved[i].start \in Nat /\ resolved[j].start \in Nat
          /\ \/ resolved[x].start < resolved[i].start
             \/ resolved[x].start = resolved[i].start /\ x <= i
      BY <1>1 DEF UpTo
    <3>2. \/ resolved[x].start < resolved[j].start
          \/ resolved[x].start = resolved[j].start /\ x <= j
      BY <1>2, <3>1
    <3> QED
      BY <3>1, <3>2 DEF UpTo
  <2>2. j \in UpTo(resolved, resolved[j].start, j)
    BY DEF UpTo
  <2>3. j \notin UpTo(resolved, resolved[i].start, i)
    BY <1>1, <1>2 DEF UpTo
  <2>4. Count(resolved, resolved[i].start, i) < Count(resolved, resolved[j].start, j)
    BY <2>1, <2>2, <2>3, CountGrows
  <2> QED
    BY <2>4, RankIsACount
<1>3. \A i \in S : RankOf(resolved, i) \in S
  BY RankIsACount
<1>4. ASSUME NEW i \in S, NEW j \in S, RankOf(resolved, i) = RankOf(resolved, j)
      PROVE  i = j
  <2>1. RankOf(resolved, i) \in Nat /\ RankOf(resolved, j) \in Nat
    BY <1>3
  <2>2. ~(RankOf(resolved, i) < RankOf(resolved, j)) /\ ~(RankOf(resolved, j) < RankOf(resolved, i))
    BY <1>4, <2>1
  <2>3. ~(resolved[i].start < resolved[j].start
           \/ (resolved[i].start = resolved[j].start /\ i < j))
    BY <1>2, <2>2
  <2>5. ~(resolved[j].start < resolved[i].start
           \/ (resolved[j].start = resolved[i].start /\ j < i))
    BY <1>2, <2>2
  <2>4. resolved[i].start \in Nat /\ resolved[j].start \in Nat /\ i \in Nat /\ j \in Nat
    BY <1>1
  <2>6. \A a, b, x, y \in Nat :
          ~(a < b \/ (a = b /\ x < y)) /\ ~(b < a \/ (b = a /\ y < x)) => x = y
    OBVIOUS
  <2> QED
    BY <2>3, <2>4, <2>5, <2>6, Zenon
<1>5. rank \in Injection(S, S)
  <2>1. rank \in [S -> S]
    BY <1>3
  <2>2. IsInjective(rank)
    BY <1>4 DEF IsInjective
  <2> QED
    BY <2>1, <2>2 DEF Injection
<1>6. rank \in Surjection(S, S)
  <2>1. IsFiniteSet(S)
    BY <1>1, FS_Interval
  <2> HIDE DEF S, rank
  <2> QED
    BY <1>5, <2>1, FS_Injection
<1>7. \A r \in S : \E i \in S : RankOf(resolved, i) = r
  BY <1>6 DEF Surjection
<1> QED
  BY <1>4, <1>7

(* The sorted list holds every edit at its rank.                            *)
LEMMA Sorting ==
  ASSUME NEW resolved \in Seq(Entries), NEW sorted, sorted = SortedByStart(resolved)
  PROVE  /\ sorted \in Seq(Entries) /\ Len(sorted) = Len(resolved)
         /\ \A i \in 1..Len(resolved) : sorted[RankOf(resolved, i)] = resolved[i]
<1>1. DOMAIN resolved = 1..Len(resolved) /\ Len(resolved) \in Nat
  OBVIOUS
<1> DEFINE at(r) == CHOOSE i \in DOMAIN resolved : RankOf(resolved, i) = r
<1>2. \A r \in 1..Len(resolved) : at(r) \in 1..Len(resolved) /\ RankOf(resolved, at(r)) = r
  BY <1>1, RanksAreANumbering
<1>3. sorted = [r \in 1..Len(resolved) |-> resolved[at(r)]]
  BY <1>1 DEF SortedByStart
<1> HIDE DEF at
<1>4. sorted \in [1..Len(resolved) -> Entries]
  BY <1>2, <1>3
<1>5. sorted \in Seq(Entries) /\ Len(sorted) = Len(resolved)
  BY <1>1, <1>4
<1>6. ASSUME NEW i \in 1..Len(resolved) PROVE sorted[RankOf(resolved, i)] = resolved[i]
  <2>1. RankOf(resolved, i) \in 1..Len(resolved)
    BY RankIsACount
  <2>2. at(RankOf(resolved, i)) = i
    BY <1>2, <2>1, RanksAreANumbering
  <2> QED
    BY <1>3, <2>1, <2>2
<1> QED
  BY <1>5, <1>6

Rearranged(sorted, resolved) ==
    /\ \A r \in 1..Len(resolved) : \E i \in 1..Len(resolved) : sorted[r] = resolved[i]
    /\ \A i \in 1..Len(resolved) : \E r \in 1..Len(resolved) : sorted[r] = resolved[i]

LEMMA SameEdits ==
  ASSUME NEW resolved \in Seq(Entries), NEW sorted, sorted = SortedByStart(resolved)
  PROVE  Rearranged(sorted, resolved)
<1>1. \A i \in 1..Len(resolved) : sorted[RankOf(resolved, i)] = resolved[i]
  BY Sorting
<1>2. ASSUME NEW r \in 1..Len(resolved)
      PROVE  \E i \in 1..Len(resolved) : sorted[r] = resolved[i]
  <2>1. PICK i \in 1..Len(resolved) : RankOf(resolved, i) = r
    BY RanksAreANumbering
  <2> QED
    BY <1>1, <2>1
<1>3. ASSUME NEW i \in 1..Len(resolved)
      PROVE  \E r \in 1..Len(resolved) : sorted[r] = resolved[i]
  <2>1. RankOf(resolved, i) \in 1..Len(resolved)
    BY RankIsACount
  <2> QED
    BY <1>1, <2>1
<1> QED
  BY <1>2, <1>3 DEF Rearranged

(* In the sorted list the edits that start before k come first.             *)
LEMMA SortedStarts ==
  ASSUME NEW resolved \in Seq(Entries), NEW sorted, sorted = SortedByStart(resolved),
         NEW r \in 1..Len(resolved), NEW k \in Nat
  PROVE  sorted[r].start < k <=> r =< Count(resolved, k, 0)
<1>1. PICK i \in 1..Len(resolved) : RankOf(resolved, i) = r
  BY RanksAreANumbering
<1>2. sorted[r] = resolved[i] /\ r = Count(resolved, resolved[i].start, i)
  BY <1>1, Sorting, RankIsACount
<1>3. \A j \in 1..Len(resolved) : resolved[j].start \in Nat
  BY EntryTypes
<1>4. Count(resolved, k, 0) \in Nat
  BY UpToIsFinite
<1>5. CASE resolved[i].start < k
  <2>1. UpTo(resolved, resolved[i].start, i) \subseteq UpTo(resolved, k, 0)
    BY <1>3, <1>5 DEF UpTo
  <2> QED
    BY <1>2, <1>5, <2>1, CountGrows
<1>6. CASE ~(resolved[i].start < k)
  <2>1. UpTo(resolved, k, 0) \subseteq UpTo(resolved, resolved[i].start, i)
    BY <1>3, <1>6 DEF UpTo
  <2>2. i \in UpTo(resolved, resolved[i].start, i) /\ i \notin UpTo(resolved, k, 0)
    BY <1>3, <1>6 DEF UpTo
  <2>3. Count(resolved, k, 0) < Count(resolved, resolved[i].start, i)
    BY <2>1, <2>2, CountGrows
  <2> QED
    BY <1>2, <1>4, <1>6, <2>3
<1> QED
  BY <1>5, <1>6

LEMMA SortedAscends ==
  ASSUME NEW resolved \in Seq(Entries), NEW sorted, sorted = SortedByStart(resolved)
  PROVE  Ascending(sorted)
<1>1. sorted \in Seq(Entries) /\ Len(sorted) = Len(resolved)
  BY Sorting
<1> SUFFICES ASSUME NEW i \in 1..Len(resolved), NEW j \in 1..Len(resolved), i =< j
             PROVE  sorted[i].start =< sorted[j].start
  BY <1>1 DEF Ascending
<1>2. sorted[i].start \in Nat /\ sorted[j].start \in Nat
  BY <1>1, EntryTypes
<1> DEFINE k == sorted[j].start + 1
<1>3. k \in Nat /\ sorted[j].start < k
  BY <1>2
<1> HIDE DEF k
<1>4. j =< Count(resolved, k, 0) /\ Count(resolved, k, 0) \in Nat
  BY <1>3, SortedStarts, UpToIsFinite
<1>5. i =< Count(resolved, k, 0)
  BY <1>4
<1>6. sorted[i].start < k
  BY <1>3, <1>5, SortedStarts
<1> QED
  BY <1>2, <1>6 DEF k

-----------------------------------------------------------------------------
(* Splicing from the end comes to what the edits mean.                      *)
WellPlaced(text, resolved) ==
    \A i \in 1..Len(resolved) :
        resolved[i].start =< resolved[i].end /\ resolved[i].end =< Len(text)

Rest(text, k) == SubSeq(text, k + 1, Len(text))

LEMMA Concatenation ==
  \A x, y, z \in Seq(Characters) :
      (x \o y) \o z = x \o (y \o z) /\ x \o y \in Seq(Characters) /\ x \o <<>> = x /\ <<>> \o x = x
<1> SUFFICES ASSUME NEW x \in Seq(Characters), NEW y \in Seq(Characters), NEW z \in Seq(Characters)
             PROVE  /\ (x \o y) \o z = x \o (y \o z) /\ x \o y \in Seq(Characters)
                    /\ x \o <<>> = x /\ <<>> \o x = x
  OBVIOUS
<1>1. (x \o y) \o z = x \o (y \o z)
  BY ConcatAssociative
<1>2. x \o y \in Seq(Characters) /\ x \o <<>> = x /\ <<>> \o x = x
  BY ConcatProperties, ConcatEmptySeq
<1> QED
  BY <1>1, <1>2

LEMMA Associative ==
  \A x, y, z \in Seq(Characters) : (x \o y) \o z = x \o (y \o z)
  BY Concatenation

LEMMA RestType ==
  ASSUME NEW text \in Seq(Characters), NEW k \in Nat
  PROVE  Rest(text, k) \in Seq(Characters) /\ (k >= Len(text) => Rest(text, k) = <<>>)
<1>1. Len(text) \in Nat
  OBVIOUS
<1>2. Rest(text, k) \in Seq(Characters)
  BY <1>1 DEF Rest
<1>3. k >= Len(text) => Rest(text, k) = <<>>
  BY <1>1, SubSeqEmpty DEF Rest
<1> QED
  BY <1>2, <1>3

LEMMA RestOfConcat ==
  ASSUME NEW a \in Seq(Characters), NEW b \in Seq(Characters)
  PROVE  Rest(a \o b, Len(a)) = b
<1> DEFINE r == Rest(a \o b, Len(a))
<1>1. /\ a \o b \in Seq(Characters) /\ Len(a \o b) = Len(a) + Len(b)
      /\ Len(a) \in Nat /\ Len(b) \in Nat
      /\ \A i \in 1..Len(a) + Len(b) : (a \o b)[i] = IF i <= Len(a) THEN a[i] ELSE b[i - Len(a)]
  BY ConcatProperties
<1>2. r \in Seq(Characters)
  BY <1>1, RestType
<1>3. Len(r) = Len(b) /\ \A i \in 1..Len(b) : r[i] = (a \o b)[Len(a) + i]
  <2> DEFINE c == a \o b
             k == Len(a)
  <2>1. c \in Seq(Characters) /\ k \in Nat /\ Len(c) = k + Len(b) /\ Len(b) \in Nat
    BY <1>1
  <2> HIDE DEF c, k
  <2>2. Len(SubSeq(c, k + 1, Len(c))) = Len(b)
    BY <2>1
  <2>3. \A i \in 1..Len(b) : SubSeq(c, k + 1, Len(c))[i] = c[k + i]
    BY <2>1
  <2> QED
    BY <2>2, <2>3 DEF Rest, c, k
<1>4. \A i \in 1..Len(b) : r[i] = b[i]
  <2> SUFFICES ASSUME NEW i \in 1..Len(b) PROVE r[i] = b[i]
    OBVIOUS
  <2>1. Len(a) + i \in 1..Len(a) + Len(b) /\ ~(Len(a) + i <= Len(a)) /\ (Len(a) + i) - Len(a) = i
    BY <1>1
  <2> HIDE DEF r
  <2> QED
    BY <1>1, <1>3, <2>1
<1> HIDE DEF r
<1>5. r = b
  BY <1>2, <1>3, <1>4, SeqEqual
<1> QED
  BY <1>5 DEF r

LEMMA RestOfReplaced ==
  ASSUME NEW text \in Seq(Characters), NEW e \in Entries, e.start =< Len(text)
  PROVE  Rest(replace_range(text, e), e.start) = e.new \o Rest(text, e.end)
<1>1. e.start \in Nat /\ e.end \in Nat /\ e.new \in Seq(Characters) /\ Len(text) \in Nat
  BY DEF Entries
<1> DEFINE head == SubSeq(text, 1, e.start)
           tail == Rest(text, e.end)
<1>2. head \in Seq(Characters) /\ Len(head) = e.start
  BY <1>1
<1>3. tail \in Seq(Characters)
  BY <1>1, RestType
<1>4. replace_range(text, e) = (head \o e.new) \o tail
  BY DEF replace_range, Rest
<1> HIDE DEF head, tail
<1>5. (head \o e.new) \o tail = head \o (e.new \o tail) /\ e.new \o tail \in Seq(Characters)
  <2>1. PICK x, y, z : x = head /\ y = e.new /\ z = tail
    OBVIOUS
  <2>2. x \in Seq(Characters) /\ y \in Seq(Characters) /\ z \in Seq(Characters)
    BY <1>1, <1>2, <1>3, <2>1
  <2>3. (x \o y) \o z = x \o (y \o z)
    BY <2>2, Associative, ZenonT(60)
  <2>4. y \o z \in Seq(Characters)
    BY <2>2, Concatenation
  <2> QED
    BY <2>1, <2>3, <2>4
<1>6. Rest(head \o (e.new \o tail), Len(head)) = e.new \o tail
  BY <1>2, <1>5, RestOfConcat
<1> QED
  BY <1>2, <1>4, <1>5, <1>6 DEF tail

LEMMA RestFirst ==
  ASSUME NEW text \in Seq(Characters), NEW k \in Nat, k < Len(text)
  PROVE  Rest(text, k) = <<text[k + 1]>> \o Rest(text, k + 1)
<1>1. k + 1 \in 1..Len(text) /\ Len(text) \in (k + 1)..Len(text) /\ (k + 1) + 1 \in Int
  OBVIOUS
<1> QED
  BY <1>1, SubSeqRecursiveFirst DEF Rest

(* Up to where the next edit starts, the text is as it was.                 *)
Reach(text, sorted, i) == IF i \in 1..Len(sorted) THEN sorted[i].start ELSE Len(text)

KeepsFront(text, sorted, h, i) ==
    /\ Reach(text, sorted, i) =< Len(h[i])
    /\ \A x \in 1..Reach(text, sorted, i) : h[i][x] = text[x]

LEMMA FrontsAreKept ==
  ASSUME NEW text \in Seq(Characters), NEW sorted \in Seq(Entries), Ascending(sorted),
         \A i \in 1..Len(sorted) : sorted[i].start =< Len(text),
         NEW result, NEW h, Splices(text, sorted, result, h)
  PROVE  \A i \in 1..(Len(sorted) + 1) : KeepsFront(text, sorted, h, i)
<1> DEFINE m == Len(sorted)
           done == {d \in Nat : d =< m => KeepsFront(text, sorted, h, (m + 1) - d)}
<1>1. m \in Nat /\ \A i \in 1..m : sorted[i] \in Entries /\ sorted[i].start \in Nat
  BY EntryTypes
<1>2. /\ h \in [1..(m + 1) -> Seq(Characters)] /\ h[m + 1] = text
      /\ \A i \in 1..m : h[i] = replace_range(h[i + 1], sorted[i]) /\ sorted[i].start =< Len(h[i + 1])
  BY DEF Splices
<1>3. \A i \in 1..m : sorted[i].start =< Reach(text, sorted, i + 1)
  <2> SUFFICES ASSUME NEW i \in 1..m PROVE sorted[i].start =< Reach(text, sorted, i + 1)
    OBVIOUS
  <2>1. CASE i + 1 \in 1..m
    BY <2>1 DEF Reach, Ascending
  <2>2. CASE i + 1 \notin 1..m
    BY <2>2 DEF Reach
  <2> QED
    BY <2>1, <2>2
<1> HIDE DEF m
<1>4. 0 \in done
  <2>1. (m + 1) - 0 = m + 1 /\ m + 1 \notin 1..m /\ Len(text) \in Nat
    BY <1>1
  <2> QED
    BY <1>2, <2>1 DEF KeepsFront, Reach, m
<1>5. ASSUME NEW d \in done, d + 1 =< m PROVE KeepsFront(text, sorted, h, (m + 1) - (d + 1))
  <2> DEFINE i == m - d
  <2>1. d \in Nat /\ KeepsFront(text, sorted, h, (m + 1) - d)
    BY <1>1, <1>5
  <2>2. i \in 1..m /\ (m + 1) - d = i + 1 /\ (m + 1) - (d + 1) = i /\ i + 1 \in 1..(m + 1)
    BY <1>1, <1>5, <2>1
  <2> HIDE DEF i
  <2>3. /\ h[i + 1] \in Seq(Characters) /\ sorted[i] \in Entries /\ sorted[i].start \in Nat
        /\ h[i] = replace_range(h[i + 1], sorted[i]) /\ sorted[i].start =< Len(h[i + 1])
    BY <1>1, <1>2, <2>2
  <2>4. /\ replace_range(h[i + 1], sorted[i]) \in Seq(Characters)
        /\ Len(replace_range(h[i + 1], sorted[i])) >= sorted[i].start
        /\ \A x \in 1..sorted[i].start : replace_range(h[i + 1], sorted[i])[x] = h[i + 1][x]
    BY <2>3, ReplaceRange
  <2>5. Reach(text, sorted, i) = sorted[i].start
    BY <2>2 DEF Reach, m
  <2>6. Reach(text, sorted, i + 1) \in Nat
    <3>1. Len(text) \in Nat
      OBVIOUS
    <3> QED
      BY <1>1, <3>1 DEF Reach, m
  <2>7. \A x \in 1..sorted[i].start : x \in 1..Reach(text, sorted, i + 1)
    BY <1>3, <2>2, <2>3, <2>6
  <2>8. \A x \in 1..sorted[i].start : h[i + 1][x] = text[x]
    BY <2>1, <2>2, <2>7 DEF KeepsFront
  <2>9. Len(h[i]) \in Nat /\ Reach(text, sorted, i) =< Len(h[i])
    BY <2>3, <2>4, <2>5
  <2>10. \A x \in 1..Reach(text, sorted, i) : h[i][x] = text[x]
    BY <2>3, <2>4, <2>5, <2>8
  <2> QED
    BY <2>2, <2>9, <2>10 DEF KeepsFront
<1>6. \A d \in done : d + 1 \in done
  BY <1>5
<1>7. done = Nat
  <2>1. done \in SUBSET Nat
    OBVIOUS
  <2> HIDE DEF done
  <2> QED
    BY <1>4, <1>6, <2>1, SetInduction
<1>8. ASSUME NEW i \in 1..(m + 1) PROVE KeepsFront(text, sorted, h, i)
  <2>1. (m + 1) - i \in Nat /\ (m + 1) - i =< m /\ (m + 1) - ((m + 1) - i) = i
    BY <1>1
  <2>2. (m + 1) - i \in done
    BY <1>7, <2>1
  <2> QED
    BY <2>1, <2>2
<1> QED
  BY <1>8 DEF m

(* From where the text goes on after the first c edits, seen from k.        *)
From(sorted, c, k) == IF c \in 1..Len(sorted) /\ sorted[c].end > k THEN sorted[c].end ELSE k

(* What has been put down by then is a beginning of the spliced text.       *)
Meets(sorted, result, h, written, c, k) ==
    result = written \o Rest(h[c + 1], From(sorted, c, k))

LEMMA SplicedBeforeAnOffset ==
  ASSUME NEW text \in Seq(Characters), NEW resolved \in Seq(Entries), WellPlaced(text, resolved),
         NEW sorted, sorted = SortedByStart(resolved), ~Overlapping(sorted),
         NEW result, NEW h, Splices(text, sorted, result, h),
         NEW k \in 0..Len(text), NEW written \in Seq(Characters),
         NEW p, Puts(resolved, k, p),
         Meets(sorted, result, h, written, Count(resolved, k, 0), k)
  PROVE  Meets(sorted, result, h, written \o PutAt(resolved, k), Count(resolved, k + 1, 0), k)
<1> DEFINE m == Len(resolved)
           V == Seq(Characters)
           Goal(i) == Meets(sorted, result, h, written \o p[i], Count(resolved, k, i), k)
           done == {i \in Nat : i =< m => Goal(i)}
<1>1. /\ m \in Nat /\ k \in Nat
      /\ \A i \in 1..m : resolved[i].start \in Nat /\ resolved[i].end \in Nat /\ resolved[i].new \in V
  BY EntryTypes
<1>2. /\ sorted \in Seq(Entries) /\ Len(sorted) = m
      /\ \A i \in 1..m : sorted[RankOf(resolved, i)] = resolved[i]
  BY Sorting
<1>3. /\ h \in [1..(m + 1) -> V]
      /\ \A i \in 1..m : h[i] = replace_range(h[i + 1], sorted[i]) /\ sorted[i].start =< Len(h[i + 1])
  BY <1>2 DEF Splices
<1>4. \A i \in 1..m : /\ sorted[i] \in Entries /\ sorted[i].start \in Nat /\ sorted[i].end \in Nat
                       /\ sorted[i].new \in V
  BY <1>2, EntryTypes
<1>5. \A i \in 1..(m - 1) : sorted[i].end =< sorted[i + 1].start
  <2> SUFFICES ASSUME NEW i \in 1..(m - 1) PROVE sorted[i].end =< sorted[i + 1].start
    OBVIOUS
  <2>1. i \in 1..m /\ i + 1 \in 1..m
    BY <1>1
  <2>2. ~(sorted[i].end > sorted[i + 1].start)
    BY <1>2 DEF Overlapping
  <2> QED
    BY <1>4, <2>1, <2>2
<1>6. /\ p \in [0..m -> V] /\ p[0] = <<>> /\ p[m] = PutAt(resolved, k)
      /\ \A i \in 1..m : p[i] = IF resolved[i].start = k THEN p[i - 1] \o resolved[i].new ELSE p[i - 1]
  BY DEF Puts
<1> HIDE DEF m, V
<1>7. 0 \in done
  <2>1. written \o p[0] = written
    BY <1>6, Concatenation
  <2> QED
    BY <2>1
<1>8. ASSUME NEW i \in done, i + 1 =< m PROVE Goal(i + 1)
  <2> DEFINE c == Count(resolved, k, i)
  <2>1. /\ i \in 0..(m - 1) /\ i \in 0..m /\ i + 1 \in 1..m /\ (i + 1) - 1 = i
        /\ Goal(i) /\ p[i] \in V /\ c \in 0..m
    BY <1>1, <1>6, <1>8, UpToIsFinite DEF m
  <2>2. Count(resolved, k, i + 1) = c + (IF resolved[i + 1].start = k THEN 1 ELSE 0)
    BY <1>1, <2>1, CountSteps DEF m
  <2>3. CASE resolved[i + 1].start # k
    <3>1. Count(resolved, k, i + 1) = c /\ p[i + 1] = p[i]
      BY <1>6, <2>1, <2>2, <2>3
    <3> QED
      BY <2>1, <3>1
  <2>4. CASE resolved[i + 1].start = k
    <3>1. Count(resolved, k, i + 1) = c + 1 /\ p[i + 1] = p[i] \o resolved[i + 1].new
      BY <1>6, <2>1, <2>2, <2>4
    <3>2. c + 1 \in 1..m /\ sorted[c + 1] = resolved[i + 1]
      <4>1. RankOf(resolved, i + 1) = c + 1 /\ RankOf(resolved, i + 1) \in 1..m
        BY <2>1, <2>4, <3>1, RankIsACount DEF m
      <4> QED
        BY <1>2, <2>1, <4>1
    <3> HIDE DEF c
    <3>3. From(sorted, c, k) = k
      <4>1. CASE c \in 1..Len(sorted)
        <5>1. c \in 1..(m - 1)
          BY <1>1, <1>2, <3>2, <4>1
        <5>2. sorted[c].end =< k /\ sorted[c].end \in Nat
          BY <1>4, <1>5, <2>4, <3>2, <5>1, <4>1, <1>2
        <5> QED
          BY <1>1, <5>2 DEF From
      <4>2. CASE c \notin 1..Len(sorted)
        BY <4>2 DEF From
      <4> QED
        BY <4>1, <4>2
    <3>4. /\ h[c + 1] = replace_range(h[(c + 1) + 1], sorted[c + 1])
          /\ h[(c + 1) + 1] \in V /\ k =< Len(h[(c + 1) + 1]) /\ sorted[c + 1].start = k
      <4>1. (c + 1) + 1 \in 1..(m + 1)
        BY <1>1, <3>2
      <4> QED
        BY <1>3, <2>4, <3>2, <4>1
    <3> DEFINE e == sorted[c + 1]
               after == Rest(h[(c + 1) + 1], e.end)
    <3>5. e \in Entries /\ e.new \in V /\ e.end \in Nat /\ e.new = resolved[i + 1].new
      BY <1>4, <3>2
    <3>6. Rest(h[c + 1], k) = e.new \o after
      BY <3>4, <3>5, RestOfReplaced DEF V
    <3>7. after \in V
      BY <3>4, <3>5, RestType DEF V
    <3>8. From(sorted, c + 1, k) = e.end
      <4>1. k =< e.end
        <5>1. resolved[i + 1].start =< resolved[i + 1].end
          BY <2>1 DEF WellPlaced, m
        <5> QED
          BY <2>4, <3>2, <5>1
      <4> QED
        BY <1>1, <1>2, <3>2, <3>5, <4>1 DEF From
    <3>9. result = (written \o p[i]) \o (e.new \o after)
      BY <2>1, <3>3, <3>6 DEF Meets, c
    <3> HIDE DEF e, after
    <3>10. /\ (written \o p[i]) \o (e.new \o after) = ((written \o p[i]) \o e.new) \o after
           /\ (written \o p[i]) \o e.new = written \o (p[i] \o e.new)
      <4>2. PICK new, before : new = e.new /\ before = p[i]
        OBVIOUS
      <4>3. new \in Seq(Characters) /\ before \in Seq(Characters) /\ after \in Seq(Characters)
        BY <2>1, <3>5, <3>7, <4>2 DEF V
      <4>4. PICK x \in Seq(Characters), z \in Seq(Characters) : x = written \o before /\ z = after
        BY <4>3, Concatenation
      <4>7. x \o (new \o z) = (x \o new) \o z
        BY <4>3, Associative, ZenonT(60)
      <4>5. (written \o before) \o (new \o after) = ((written \o before) \o new) \o after
        BY <4>4, <4>7
      <4>6. (written \o before) \o new = written \o (before \o new)
        BY <4>3, Associative, ZenonT(60)
      <4> QED
        BY <4>2, <4>5, <4>6
    <3>11. result = (written \o p[i + 1]) \o after
      BY <3>1, <3>5, <3>9, <3>10
    <3>12. Meets(sorted, result, h, written \o p[i + 1], c + 1, k)
      BY <3>8, <3>11 DEF Meets, after
    <3> QED
      BY <3>1, <3>12
  <2> QED
    BY <2>3, <2>4
<1>9. \A i \in done : i + 1 \in done
  BY <1>8
<1>10. done = Nat
  <2>1. done \in SUBSET Nat
    OBVIOUS
  <2> HIDE DEF done
  <2> QED
    BY <1>7, <1>9, <2>1, SetInduction
<1>11. Goal(m)
  BY <1>1, <1>10
<1>12. Count(resolved, k, m) = Count(resolved, k + 1, 0)
  BY <1>1, CountSteps DEF m
<1> QED
  BY <1>6, <1>11, <1>12

LEMMA SplicedAfterAnOffset ==
  ASSUME NEW text \in Seq(Characters), NEW resolved \in Seq(Entries), WellPlaced(text, resolved),
         NEW sorted, sorted = SortedByStart(resolved), ~Overlapping(sorted),
         NEW result, NEW h, Splices(text, sorted, result, h),
         NEW k \in 0..Len(text), NEW written \in Seq(Characters),
         Meets(sorted, result, h, written, Count(resolved, k + 1, 0), k)
  PROVE  Meets(sorted, result, h, written \o Kept(text, resolved, k),
               Count(resolved, k + 1, 0), k + 1)
<1> DEFINE m == Len(resolved)
           n == Len(text)
           V == Seq(Characters)
           c == Count(resolved, k + 1, 0)
<1>1. /\ m \in Nat /\ n \in Nat /\ k \in Nat /\ k =< n /\ c \in 0..m
      /\ \A i \in 1..m : /\ resolved[i].start \in Nat /\ resolved[i].end \in Nat
                          /\ resolved[i].start =< resolved[i].end /\ resolved[i].end =< n
  BY EntryTypes, UpToIsFinite DEF WellPlaced
<1>2. sorted \in Seq(Entries) /\ Len(sorted) = m /\ Ascending(sorted)
  BY Sorting, SortedAscends
<1>14. Rearranged(sorted, resolved)
  BY SameEdits
<1>3. \A r \in 1..m : \E i \in 1..m : sorted[r] = resolved[i]
  BY <1>14 DEF Rearranged
<1>4. \A i \in 1..m : \E r \in 1..m : sorted[r] = resolved[i]
  BY <1>14 DEF Rearranged
<1>5. \A r \in 1..m : /\ sorted[r].start \in Nat /\ sorted[r].end \in Nat
                       /\ sorted[r].start =< sorted[r].end /\ sorted[r].end =< n
  BY <1>1, <1>3
<1>6. \A r \in 1..m : sorted[r].start < k + 1 <=> r =< c
  BY <1>1, SortedStarts
<1>7. h \in [1..(m + 1) -> V] /\ h[m + 1] = text /\ KeepsFront(text, sorted, h, c + 1)
  <2>1. \A i \in 1..m : sorted[i].start =< n
    <3> SUFFICES ASSUME NEW i \in 1..m PROVE sorted[i].start =< n
      OBVIOUS
    <3>1. PICK a \in Nat, e \in Nat : a = sorted[i].start /\ e = sorted[i].end
      BY <1>5
    <3>2. a =< e /\ e =< n
      BY <1>5, <3>1
    <3> QED
      BY <1>1, <3>1, <3>2
  <2>2. c + 1 \in 1..(Len(sorted) + 1)
    BY <1>1, <1>2
  <2>3. \A i \in 1..(Len(sorted) + 1) : KeepsFront(text, sorted, h, i)
    BY <1>2, <2>1, FrontsAreKept
  <2> QED
    BY <1>2, <2>2, <2>3 DEF Splices
<1>8. \A i \in 1..(m - 1) : sorted[i].end =< sorted[i + 1].start
  <2> SUFFICES ASSUME NEW i \in 1..(m - 1) PROVE sorted[i].end =< sorted[i + 1].start
    OBVIOUS
  <2>1. i \in 1..m /\ i + 1 \in 1..m
    BY <1>1
  <2>2. ~(sorted[i].end > sorted[i + 1].start)
    BY <1>2 DEF Overlapping
  <2> QED
    BY <1>5, <2>1, <2>2
<1>9. result = written \o Rest(h[c + 1], From(sorted, c, k))
  BY DEF Meets
<1>10. c + 1 \in 1..(m + 1) /\ h[c + 1] \in V
  BY <1>1, <1>7
<1>11. Replaced(resolved, k + 1) <=> c \in 1..m /\ sorted[c].end > k
  <2>1. ASSUME Replaced(resolved, k + 1) PROVE c \in 1..m /\ sorted[c].end > k
    <3>1. PICK i \in 1..m : resolved[i].start < k + 1 /\ k + 1 <= resolved[i].end
      BY <2>1, EntryTypes DEF Replaced
    <3>2. PICK r \in 1..m : sorted[r] = resolved[i]
      BY <1>4
    <3>3. r =< c
      BY <1>6, <3>1, <3>2
    <3>4. c \in 1..m
      BY <1>1, <3>3
    <3>5. CASE r = c
      BY <1>1, <1>5, <3>1, <3>2, <3>4, <3>5
    <3>6. CASE r # c
      <4>1. r \in 1..(m - 1) /\ r + 1 \in 1..m /\ r + 1 =< c
        BY <1>1, <3>3, <3>4, <3>6
      <4>2. sorted[r].end =< sorted[r + 1].start /\ sorted[r + 1].start =< sorted[c].start
        BY <1>2, <1>8, <3>4, <4>1 DEF Ascending
      <4>3. /\ sorted[r].end \in Nat /\ sorted[r + 1].start \in Nat
            /\ sorted[c].start \in Nat /\ sorted[c].end \in Nat /\ sorted[c].start =< sorted[c].end
        BY <1>5, <3>4, <4>1
      <4>4. PICK e \in Nat, a \in Nat, b \in Nat, f \in Nat :
              /\ e = sorted[r].end /\ a = sorted[r + 1].start
              /\ b = sorted[c].start /\ f = sorted[c].end
        BY <4>3
      <4>5. e =< a /\ a =< b /\ b =< f /\ k + 1 <= e
        BY <3>1, <3>2, <4>2, <4>3, <4>4
      <4>6. f > k
        BY <1>1, <4>5
      <4> QED
        BY <3>4, <4>4, <4>6
    <3> QED
      BY <3>5, <3>6
  <2>2. ASSUME c \in 1..m, sorted[c].end > k PROVE Replaced(resolved, k + 1)
    <3>1. sorted[c].start < k + 1 /\ sorted[c].end \in Nat
      BY <1>1, <1>5, <1>6, <2>2
    <3>2. PICK i \in 1..m : sorted[c] = resolved[i]
      BY <1>3, <2>2
    <3>3. resolved[i].start < k + 1 /\ k + 1 <= resolved[i].end
      BY <1>1, <2>2, <3>1, <3>2
    <3> QED
      BY <3>3, EntryTypes DEF Replaced
  <2> QED
    BY <2>1, <2>2
<1> SUFFICES result = (written \o Kept(text, resolved, k)) \o Rest(h[c + 1], From(sorted, c, k + 1))
  BY DEF Meets
<1> HIDE DEF m, n, V, c
<1>12. CASE k < n /\ ~Replaced(resolved, k + 1)
  <2>1. From(sorted, c, k) = k /\ From(sorted, c, k + 1) = k + 1
    <3>1. CASE c \in 1..m
      <4>1. sorted[c].end \in Nat /\ ~(sorted[c].end > k) /\ ~(sorted[c].end > k + 1)
        BY <1>1, <1>5, <1>11, <1>12, <3>1
      <4> QED
        BY <4>1 DEF From
    <3>2. CASE c \notin 1..m
      BY <1>2, <3>2 DEF From
    <3> QED
      BY <3>1, <3>2
  <2>2. k + 1 =< Reach(text, sorted, c + 1) /\ Reach(text, sorted, c + 1) \in Nat
    <3>1. CASE c + 1 \in 1..m
      <4>1. ~(sorted[c + 1].start < k + 1) /\ sorted[c + 1].start \in Nat
        BY <1>1, <1>5, <1>6, <3>1
      <4> QED
        BY <1>1, <1>2, <3>1, <4>1 DEF Reach
    <3>2. CASE c + 1 \notin 1..m
      BY <1>1, <1>2, <1>12, <3>2 DEF Reach, n
    <3> QED
      BY <3>1, <3>2
  <2>3. k < Len(h[c + 1]) /\ h[c + 1][k + 1] = text[k + 1]
    <3>1. Len(h[c + 1]) \in Nat
      BY <1>10 DEF V
    <3>2. k + 1 \in 1..Reach(text, sorted, c + 1)
      BY <1>1, <2>2
    <3> QED
      BY <1>1, <1>7, <2>2, <3>1, <3>2 DEF KeepsFront
  <2>4. Rest(h[c + 1], k) = <<text[k + 1]>> \o Rest(h[c + 1], k + 1)
    BY <1>1, <1>10, <2>3, RestFirst DEF V
  <2>5. Kept(text, resolved, k) = <<text[k + 1]>>
    BY <1>12 DEF Kept, n
  <2>6. PICK x, z : x = <<text[k + 1]>> /\ z = Rest(h[c + 1], k + 1)
    OBVIOUS
  <2>7. x \in Seq(Characters) /\ z \in Seq(Characters)
    <3>1. k + 1 \in 1..Len(text)
      BY <1>1, <1>12 DEF n
    <3>2. text[k + 1] \in Characters
      BY <3>1
    <3>3. k + 1 \in Nat
      BY <1>1
    <3>4. Rest(h[c + 1], k + 1) \in Seq(Characters)
      BY <1>10, <3>3, RestType DEF V
    <3>5. <<text[k + 1]>> \in Seq(Characters)
      BY <3>2
    <3> QED
      BY <2>6, <3>4, <3>5
  <2>8. (written \o x) \o z = written \o (x \o z)
    BY <2>7, Associative, ZenonT(60)
  <2> QED
    BY <1>9, <2>1, <2>4, <2>5, <2>6, <2>8
<1>13. CASE ~(k < n /\ ~Replaced(resolved, k + 1))
  <2>1. Kept(text, resolved, k) = <<>> /\ written \o <<>> = written
    BY <1>13, Concatenation DEF Kept, n
  <2>2. Rest(h[c + 1], From(sorted, c, k)) = Rest(h[c + 1], From(sorted, c, k + 1))
    <3>1. CASE Replaced(resolved, k + 1)
      <4>1. c \in 1..m /\ sorted[c].end > k /\ sorted[c].end \in Nat
        BY <1>5, <1>11, <3>1
      <4>2. From(sorted, c, k) = sorted[c].end
        BY <1>2, <4>1 DEF From
      <4>3. From(sorted, c, k + 1) = sorted[c].end
        BY <1>1, <1>2, <4>1 DEF From
      <4> QED
        BY <4>2, <4>3
    <3>2. CASE ~Replaced(resolved, k + 1)
      <4>1. k = n
        BY <1>1, <1>13, <3>2
      <4>2. c = m
        <5>1. \A i \in 1..m : resolved[i].start < k + 1
          BY <1>1, <4>1
        <5>2. k + 1 \in Nat
          BY <1>1
        <5> QED
          BY <5>1, <5>2, CountSteps DEF m, c
      <4>3. h[c + 1] = text
        BY <1>7, <4>2
      <4>4. From(sorted, c, k) \in Nat /\ From(sorted, c, k) >= n
        BY <1>1, <1>2, <1>5, <4>1 DEF From
      <4>5. From(sorted, c, k + 1) \in Nat /\ From(sorted, c, k + 1) >= n
        BY <1>1, <1>2, <1>5, <4>1 DEF From
      <4>6. Rest(text, From(sorted, c, k)) = <<>> /\ Rest(text, From(sorted, c, k + 1)) = <<>>
        BY <4>4, <4>5, RestType DEF n
      <4> QED
        BY <4>3, <4>6
    <3> QED
      BY <3>1, <3>2
  <2> QED
    BY <1>9, <2>1, <2>2
<1> QED
  BY <1>12, <1>13

LEMMA SplicedAsIntended ==
  ASSUME NEW text \in Seq(Characters), NEW resolved \in Seq(Entries), WellPlaced(text, resolved),
         NEW sorted, sorted = SortedByStart(resolved), ~Overlapping(sorted),
         NEW result, NEW h, Splices(text, sorted, result, h),
         NEW wanted, NEW q, Intends(text, resolved, wanted, q)
  PROVE  result = wanted
<1> DEFINE n == Len(text)
           V == Seq(Characters)
           Goal(k) == Meets(sorted, result, h, q[k], Count(resolved, k, 0), k)
           done == {k \in Nat : k =< n + 1 => Goal(k)}
<1>1. n \in Nat /\ Len(resolved) \in Nat /\ sorted \in Seq(Entries) /\ Len(sorted) = Len(resolved)
  BY EntryTypes, Sorting
<1>2. /\ h \in [1..(Len(resolved) + 1) -> V] /\ h[Len(resolved) + 1] = text /\ h[1] = result
  BY <1>1 DEF Splices
<1>3. /\ q \in [0..(n + 1) -> V] /\ q[0] = <<>> /\ q[n + 1] = wanted
      /\ \A k \in 0..n : q[k + 1] = (q[k] \o PutAt(resolved, k)) \o Kept(text, resolved, k)
  BY DEF Intends
<1> HIDE DEF n, V
<1>4. 0 \in done
  <2>1. Count(resolved, 0, 0) = 0
    BY CountSteps
  <2>2. 0 \notin 1..Len(sorted) /\ 0 + 1 = 1 /\ 1 \in 1..(Len(resolved) + 1)
    BY <1>1
  <2>3. From(sorted, 0, 0) = 0
    BY <2>2 DEF From
  <2>4. h[1] \in V /\ Rest(h[1], 0) = h[1]
    <3>1. h[1] \in V
      BY <1>2, <2>2
    <3>2. SubSeq(h[1], 1, Len(h[1])) = h[1]
      BY <3>1, SubSeqFull DEF V
    <3> QED
      BY <2>2, <3>1, <3>2 DEF Rest
  <2>5. <<>> \o h[1] = h[1]
    BY <2>4, Concatenation DEF V
  <2>6. Goal(0)
    BY <1>2, <1>3, <2>1, <2>2, <2>3, <2>4, <2>5 DEF Meets
  <2> QED
    BY <2>6
<1>5. ASSUME NEW k \in done, k + 1 =< n + 1 PROVE Goal(k + 1)
  <2>1. k \in 0..n /\ k \in 0..(n + 1) /\ k \in Nat /\ Goal(k)
    BY <1>1, <1>5
  <2>2. q[k] \in V
    BY <1>3, <2>1
  <2>3. PICK p : Puts(resolved, k, p)
    BY <2>1, PutSteps
  <2>4. Meets(sorted, result, h, q[k] \o PutAt(resolved, k), Count(resolved, k + 1, 0), k)
    BY <2>1, <2>2, <2>3, SplicedBeforeAnOffset DEF n, V
  <2>5. q[k] \o PutAt(resolved, k) \in V
    BY <2>1, <2>2, PutType, Concatenation DEF V
  <2>6. Meets(sorted, result, h, (q[k] \o PutAt(resolved, k)) \o Kept(text, resolved, k),
              Count(resolved, k + 1, 0), k + 1)
    BY <2>1, <2>4, <2>5, SplicedAfterAnOffset DEF n, V
  <2> QED
    BY <1>3, <2>1, <2>6
<1>6. \A k \in done : k + 1 \in done
  BY <1>5
<1>7. done = Nat
  <2>1. done \in SUBSET Nat
    OBVIOUS
  <2> HIDE DEF done
  <2> QED
    BY <1>4, <1>6, <2>1, SetInduction
<1>8. Goal(n + 1)
  <2>1. n + 1 \in Nat /\ n + 1 =< n + 1
    BY <1>1
  <2> QED
    BY <1>7, <2>1
<1>9. Count(resolved, n + 1, 0) = Len(resolved)
  <2>1. \A i \in 1..Len(resolved) : resolved[i].start < n + 1
    <3> SUFFICES ASSUME NEW i \in 1..Len(resolved) PROVE resolved[i].start < n + 1
      OBVIOUS
    <3>1. PICK a \in Nat, e \in Nat : a = resolved[i].start /\ e = resolved[i].end
      BY EntryTypes
    <3>2. a =< e /\ e =< n
      BY <3>1 DEF WellPlaced, n
    <3> QED
      BY <1>1, <3>1, <3>2
  <2>2. n + 1 \in Nat
    BY <1>1
  <2> QED
    BY <2>1, <2>2, CountSteps
<1>10. result = q[n + 1] \o Rest(text, From(sorted, Len(resolved), n + 1))
  BY <1>2, <1>8, <1>9 DEF Meets
<1>11. From(sorted, Len(resolved), n + 1) \in Nat /\ From(sorted, Len(resolved), n + 1) >= n
  <2>1. \A i \in 1..Len(sorted) : sorted[i].end \in Nat
    BY <1>1, EntryTypes
  <2> QED
    BY <1>1, <2>1 DEF From
<1>12. Rest(text, From(sorted, Len(resolved), n + 1)) = <<>>
  BY <1>11, RestType DEF n
<1>13. q[n + 1] \o <<>> = q[n + 1]
  <2>1. q[n + 1] \in Seq(Characters)
    BY <1>1, <1>3 DEF V
  <2> QED
    BY <2>1, Concatenation
<1> QED
  BY <1>3, <1>10, <1>12, <1>13

-----------------------------------------------------------------------------
(* Positions.                                                              *)
LEMMA LineStart ==
  ASSUME NEW text \in Seq(Characters), NEW n \in Nat, nth_line_start(text, n) # NoOffset
  PROVE  /\ nth_line_start(text, n) \in 0..Len(text)
         /\ nth_line_start(text, n) # 0 => text[nth_line_start(text, n)] = "nl"
         /\ Cardinality({j \in Newlines(text) : j <= nth_line_start(text, n)}) = n
<1>1. CASE n = 0
  <2>1. nth_line_start(text, n) = 0
    BY <1>1 DEF nth_line_start
  <2>2. {j \in Newlines(text) : j <= nth_line_start(text, n)} = {}
    BY <2>1 DEF Newlines
  <2>3. Cardinality({}) = 0
    BY FS_EmptySet
  <2>4. Cardinality({j \in Newlines(text) : j <= nth_line_start(text, n)}) = 0
    BY <2>2, <2>3, Zenon
  <2>5. Len(text) \in Nat
    OBVIOUS
  <2> QED
    BY <1>1, <2>1, <2>4, <2>5
<1>2. CASE n # 0
  <2> DEFINE ends == {i \in Newlines(text) : Cardinality({j \in Newlines(text) : j <= i}) = n}
  <2>1. ends # {} /\ nth_line_start(text, n) \in ends
    BY <1>2 DEF nth_line_start
  <2> QED
    BY <2>1 DEF Newlines
<1> QED
  BY <1>1, <1>2

(* The content of the line that starts at an offset ends at or after it,   *)
(* before any newline, and not between a carriage return and a newline.    *)
LEMMA LineContent ==
  ASSUME NEW text \in Seq(Characters), NEW start \in 0..Len(text),
         start # 0 => text[start] = "nl"
  PROVE  /\ ContentEnd(text, start) \in start..Len(text)
         /\ \A i \in Newlines(text) : i <= start \/ i > ContentEnd(text, start)
         /\ \A k \in start..ContentEnd(text, start) :
              ~(k > 0 /\ k < Len(text) /\ text[k] = "cr" /\ text[k + 1] = "nl")
<1> DEFINE after == {i - 1 : i \in {j \in Newlines(text) : j > start}} \union {Len(text)}
           end   == Min(after)
<1>1. /\ after \in SUBSET Nat /\ after # {}
      /\ \A i \in after : i >= start /\ i <= Len(text)
  BY DEF Newlines
<1>2. end \in after /\ \A i \in after : end <= i
  BY <1>1, MinFacts
<1> HIDE DEF end
<1>3. \A i \in Newlines(text) : i <= start \/ i > end
  <2> SUFFICES ASSUME NEW i \in Newlines(text), i > start PROVE i > end
    BY <1>1, <1>2 DEF Newlines
  <2>1. i - 1 \in after /\ i \in Nat
    BY DEF Newlines
  <2>2. end \in Nat /\ end <= i - 1
    BY <1>1, <1>2, <2>1
  <2> QED
    BY <2>1, <2>2
<1>4. ContentEnd(text, start) = IF end > start /\ text[end] = "cr" THEN end - 1 ELSE end
  BY DEF ContentEnd, end
<1>5. end \in start..Len(text)
  BY <1>1, <1>2
<1>6. ASSUME NEW k \in start..ContentEnd(text, start), k > 0, k < Len(text),
             text[k] = "cr", text[k + 1] = "nl"
      PROVE  FALSE
  <2>1. k + 1 \in Newlines(text)
    BY <1>6 DEF Newlines
  <2>2. k + 1 > end
    BY <1>3, <1>6, <2>1
  <2>3. k = end /\ ContentEnd(text, start) = end
    BY <1>4, <1>5, <1>6, <2>2
  <2>4. end = start
    BY <1>4, <1>5, <1>6, <2>3
  <2> QED
    BY <1>6, <2>3, <2>4
<1>7. ContentEnd(text, start) \in start..Len(text) /\ ContentEnd(text, start) <= end
  BY <1>4, <1>5
<1>8. \A i \in Newlines(text) : i <= start \/ i > ContentEnd(text, start)
  BY <1>3, <1>5, <1>7 DEF Newlines
<1> QED
  BY <1>6, <1>7, <1>8

(* A position is an offset of the content of its own line.                 *)
OnItsLine(text, k, line) ==
    /\ k \in 0..Len(text)
    /\ Cardinality({i \in Newlines(text) : i <= k}) = line
    /\ ~(k > 0 /\ k < Len(text) /\ text[k] = "cr" /\ text[k + 1] = "nl")

LEMMA PositionOnItsLine ==
  ASSUME NEW text \in Seq(Characters), NEW encoding, NEW pos, pos.line \in Nat,
         NEW k, k = resolve_offset(text, pos, encoding), k # NoOffset
  PROVE  OnItsLine(text, k, pos.line)
<1> DEFINE start == nth_line_start(text, pos.line)
           end   == ContentEnd(text, start)
           reach == {j \in start..end : Units(text, start, j, encoding) >= pos.character}
                    \union {end}
<1>1. start # NoOffset /\ k = Min(reach)
  BY DEF resolve_offset
<1>2. /\ start \in 0..Len(text)
      /\ start # 0 => text[start] = "nl"
      /\ Cardinality({j \in Newlines(text) : j <= start}) = pos.line
  BY <1>1, LineStart
<1>3. /\ end \in start..Len(text)
      /\ \A i \in Newlines(text) : i <= start \/ i > end
      /\ \A j \in start..end : ~(j > 0 /\ j < Len(text) /\ text[j] = "cr" /\ text[j + 1] = "nl")
  BY <1>2, LineContent
<1> HIDE DEF start, end
<1>4. reach \in SUBSET Nat /\ reach # {} /\ reach \subseteq start..end
  BY <1>2, <1>3
<1>5. k \in start..end
  BY <1>1, <1>4, MinFacts
<1>6. {i \in Newlines(text) : i <= k} = {i \in Newlines(text) : i <= start}
  BY <1>2, <1>3, <1>5 DEF Newlines
<1> QED
  <2>1. Cardinality({i \in Newlines(text) : i <= k}) = pos.line
    BY <1>2, <1>6, Zenon
  <2> QED
    BY <1>2, <1>3, <1>5, <2>1 DEF OnItsLine

(* Units are counted, however a sum is taken apart.                         *)
LEMMA UnitsType ==
  ASSUME NEW text \in Seq(Characters), NEW encoding \in Encodings,
         NEW from \in 0..Len(text), NEW to \in 0..Len(text)
  PROVE  Units(text, from, to, encoding) \in Nat
<1> DEFINE S == (from + 1)..to
           some(s) == CHOOSE x \in s : TRUE
           put(i, acc) == encoded_len(text[i], encoding) + acc
           unfold(w) == [s \in SUBSET S |-> IF s = {} THEN 0 ELSE put(some(s), w[s \ {some(s)}])]
           op   == [x \in S \X Nat |-> put(x[1], x[2])]
           pick == [s \in SUBSET S |-> some(s)]
<1>1. S \in SUBSET (1..Len(text)) /\ IsFiniteSet(S)
  BY FS_Interval
<1>2. \A i \in S, acc \in Nat : put(i, acc) \in Nat
  <2>1. \A i \in S : text[i] \in Characters
    BY <1>1
  <2>2. \A ch \in Characters : encoded_len(ch, encoding) \in Nat
    BY DEF encoded_len, Encodings
  <2>3. \A i \in S : encoded_len(text[i], encoding) \in Nat
    BY <2>1, <2>2
  <2> HIDE DEF S
  <2> QED
    BY <2>3
<1>3. \A s \in SUBSET S : s # {} => some(s) \in s /\ pick[s] = some(s) /\ some(s) \in S
  OBVIOUS
<1>4. Units(text, from, to, encoding) = (CHOOSE w : w = unfold(w))[S]
  BY DEF Units, MapThenSumSet, MapThenFoldSet
<1>5. op \in [S \X Nat -> Nat] /\ \A i \in S, acc \in Nat : op[<<i, acc>>] = put(i, acc)
  <2> HIDE DEF put, S
  <2> QED
    BY <1>2
<1> HIDE DEF put, op, S, some, pick
<1>6. PICK it : Folds(S, Nat, 0, op, pick, it)
  <2>1. \A s \in SUBSET S : s # {} => pick[s] \in s
    BY <1>3
  <2> QED
    BY <1>1, <1>5, <2>1, FoldExists
<1>7. it \in [SUBSET S -> Nat] /\ it = Unfolded(S, 0, op, pick, it)
  BY <1>6 DEF Folds
<1>8. it = unfold(it)
  <2>1. ASSUME NEW s \in SUBSET S PROVE it[s] = unfold(it)[s]
    <3>1. CASE s = {}
      BY <1>7, <3>1 DEF Unfolded
    <3>2. CASE s # {}
      <4>1. pick[s] = some(s) /\ some(s) \in S /\ it[s \ {some(s)}] \in Nat
        BY <1>3, <1>7, <3>2
      <4>2. it[s] = op[<<pick[s], it[s \ {pick[s]}]>>]
        BY <1>7, <3>2 DEF Unfolded
      <4> QED
        BY <1>5, <3>2, <4>1, <4>2
    <3> QED
      BY <3>1, <3>2
  <2> QED
    BY <1>7, <2>1
<1> DEFINE w == CHOOSE w : w = unfold(w)
<1>9. w = unfold(w)
  <2> HIDE DEF unfold
  <2> QED
    BY <1>8
<1>10. Units(text, from, to, encoding) = w[S]
  BY <1>4
<1> HIDE DEF w
<1>11. w[{}] = 0 /\ \A s \in SUBSET S : s # {} => w[s] = put(some(s), w[s \ {some(s)}])
  BY <1>9
<1>12. \A s \in SUBSET S : w[s] \in Nat
  <2>1. \A s \in SUBSET S : s # {} /\ w[s \ {pick[s]}] \in Nat => w[s] \in Nat
    BY <1>2, <1>3, <1>11
  <2>2. \A s \in SUBSET S : s # {} => pick[s] \in s
    BY <1>3
  <2>3. w[{}] \in Nat
    BY <1>11
  <2> HIDE DEF unfold
  <2> QED
    BY <1>1, <2>1, <2>2, <2>3, FoldStays
<1> QED
  BY <1>10, <1>12

(* Positions in order are offsets in order.                                 *)
LEMMA OffsetsInOrder ==
  ASSUME NEW text \in Seq(Characters), NEW encoding \in Encodings,
         NEW p \in LspPosition, NEW q \in LspPosition, Before(p, q),
         NEW j, j = resolve_offset(text, p, encoding), j # NoOffset,
         NEW k, k = resolve_offset(text, q, encoding), k # NoOffset
  PROVE  j =< k
<1>1. p.line \in Nat /\ q.line \in Nat /\ p.character \in Nat /\ q.character \in Nat
  BY DEF LspPosition
<1>2. /\ j \in 0..Len(text) /\ Cardinality({i \in Newlines(text) : i <= j}) = p.line
      /\ k \in 0..Len(text) /\ Cardinality({i \in Newlines(text) : i <= k}) = q.line
  <2>1. OnItsLine(text, j, p.line) /\ OnItsLine(text, k, q.line)
    BY <1>1, PositionOnItsLine
  <2> QED
    BY <2>1, Zenon DEF OnItsLine
<1>3. CASE p.line < q.line
  <2> SUFFICES ASSUME k < j PROVE FALSE
    BY <1>2
  <2> DEFINE upto(x) == {i \in Newlines(text) : i <= x}
  <2>1. IsFiniteSet(upto(j))
    <3>1. Len(text) \in Nat
      OBVIOUS
    <3>2. IsFiniteSet(1..Len(text))
      BY <3>1, FS_Interval
    <3>3. upto(j) \in SUBSET (1..Len(text))
      BY DEF Newlines
    <3> QED
      BY <3>2, <3>3, FS_Subset
  <2>2. upto(k) \in SUBSET upto(j)
    BY <1>2 DEF Newlines
  <2>3. Cardinality(upto(k)) =< Cardinality(upto(j))
    BY <2>1, <2>2, FS_Subset
  <2> QED
    BY <1>1, <1>2, <1>3, <2>3
<1>4. CASE p.line = q.line /\ p.character <= q.character
  <2> DEFINE start == nth_line_start(text, p.line)
             end   == ContentEnd(text, start)
             reach(c) == {i \in start..end : Units(text, start, i, encoding) >= c} \union {end}
  <2>1. start # NoOffset /\ j = Min(reach(p.character)) /\ k = Min(reach(q.character))
    BY <1>4 DEF resolve_offset
  <2>2. /\ start \in 0..Len(text)
        /\ start # 0 => text[start] = "nl"
    BY <1>1, <2>1, LineStart
  <2>3. end \in start..Len(text)
    BY <2>2, LineContent
  <2> HIDE DEF start, end
  <2>4. \A i \in start..end : Units(text, start, i, encoding) \in Nat
    <3>1. \A i \in start..end : i \in 0..Len(text)
      BY <2>2, <2>3
    <3> QED
      BY <2>2, <3>1, UnitsType
  <2>5. reach(q.character) \subseteq reach(p.character)
    BY <1>1, <1>4, <2>4
  <2>6. /\ reach(p.character) \in SUBSET Nat /\ reach(p.character) # {}
        /\ reach(q.character) \in SUBSET Nat /\ reach(q.character) # {}
    BY <2>2, <2>3
  <2> HIDE DEF reach
  <2>7. k \in reach(q.character) /\ \A i \in reach(p.character) : j =< i
    BY <2>1, <2>6, MinFacts
  <2> QED
    BY <2>5, <2>7
<1> QED
  BY <1>3, <1>4 DEF Before

(* The edits of a file that can be rewritten are at offsets of its text.    *)
LEMMA ResolvedType ==
  ASSUME NEW text \in Seq(Characters), NEW encoding \in Encodings,
         NEW edits \in Seq(TextEdits), CanRewrite(text, edits, encoding)
  PROVE  /\ Resolved(text, edits, encoding) \in Seq(Entries)
         /\ WellPlaced(text, Resolved(text, edits, encoding))
         /\ ~Overlapping(SortedByStart(Resolved(text, edits, encoding)))
<1> DEFINE m == Len(edits)
           resolved == Resolved(text, edits, encoding)
           at(pos) == resolve_offset(text, pos, encoding)
<1>1. m \in Nat /\ DOMAIN edits = 1..m
  OBVIOUS
<1>2. \A i \in 1..m : /\ edits[i].start \in LspPosition /\ edits[i].end \in LspPosition
                       /\ edits[i].new \in Seq(Characters) /\ Before(edits[i].start, edits[i].end)
  BY DEF TextEdits
<1>3. resolved = [i \in 1..m |-> [start |-> at(edits[i].start), end |-> at(edits[i].end),
                                 new |-> edits[i].new]]
  BY <1>1 DEF Resolved
<1>4. \A i \in 1..m : at(edits[i].start) # NoOffset /\ at(edits[i].end) # NoOffset
  <2>1. DOMAIN edits = 1..m /\ \A i \in 1..m : resolved[i].start = at(edits[i].start)
                                               /\ resolved[i].end = at(edits[i].end)
    BY <1>1, <1>3
  <2> QED
    BY <2>1 DEF CanRewrite, OutOfRange
<1>5. ASSUME NEW i \in 1..m
      PROVE  /\ at(edits[i].start) \in 0..Len(text) /\ at(edits[i].end) \in 0..Len(text)
             /\ at(edits[i].start) =< at(edits[i].end)
  <2>1. edits[i].start.line \in Nat /\ edits[i].end.line \in Nat
    BY <1>2 DEF LspPosition
  <2>2. at(edits[i].start) \in 0..Len(text) /\ at(edits[i].end) \in 0..Len(text)
    BY <1>4, <2>1, PositionOnItsLine DEF OnItsLine
  <2>3. at(edits[i].start) =< at(edits[i].end)
    BY <1>2, <1>4, OffsetsInOrder
  <2> QED
    BY <2>2, <2>3
<1> HIDE DEF at
<1>6. \A i \in 1..m : resolved[i] \in Entries
  <2> SUFFICES ASSUME NEW i \in 1..m PROVE resolved[i] \in Entries
    OBVIOUS
  <2>1. Len(text) \in Nat
    OBVIOUS
  <2>2. at(edits[i].start) \in Nat /\ at(edits[i].end) \in Nat /\ edits[i].new \in Seq(Characters)
    BY <1>2, <1>5, <2>1
  <2> QED
    BY <1>3, <2>2 DEF Entries
<1> HIDE DEF m, resolved
<1>7. resolved \in Seq(Entries) /\ Len(resolved) = m
  <2>1. resolved \in [1..m -> Entries]
    BY <1>3, <1>6
  <2> QED
    BY <1>1, <2>1
<1>8. WellPlaced(text, resolved)
  <2>1. \A i \in 1..m : /\ resolved[i].start = at(edits[i].start)
                         /\ resolved[i].end = at(edits[i].end)
    BY <1>3
  <2> QED
    BY <1>5, <1>7, <2>1 DEF WellPlaced
<1> QED
  BY <1>7, <1>8 DEF resolved, CanRewrite

(* A rewritten file is a text, and the one its edits mean: in whatever      *)
(* order they are listed, every edit put at its place of the original.      *)
THEOREM RewriteIsIntended ==
  ASSUME NEW text \in Seq(Characters), NEW encoding \in Encodings,
         NEW edits \in Seq(TextEdits), CanRewrite(text, edits, encoding)
  PROVE  /\ rewrite_file(text, edits, encoding) = Intended(text, edits, encoding)
         /\ rewrite_file(text, edits, encoding) \in Seq(Characters)
<1> DEFINE resolved == Resolved(text, edits, encoding)
           sorted == SortedByStart(resolved)
<1>1. resolved \in Seq(Entries) /\ WellPlaced(text, resolved) /\ ~Overlapping(sorted)
  BY ResolvedType
<1>2. sorted \in Seq(Entries) /\ Len(sorted) = Len(resolved) /\ Ascending(sorted)
  BY <1>1, Sorting, SortedAscends
<1>3. PICK q : Intends(text, resolved, Intended(text, edits, encoding), q)
  BY <1>1, IntendedSteps
<1>4. rewrite_file(text, edits, encoding) = SpliceFromEnd(text, sorted)
  BY DEF rewrite_file
<1> HIDE DEF resolved
<1>5. \A r \in 1..Len(sorted) : sorted[r].start =< Len(text)
  <2> SUFFICES ASSUME NEW r \in 1..Len(resolved) PROVE sorted[r].start =< Len(text)
    BY <1>2
  <2>1. Rearranged(sorted, resolved)
    BY <1>1, SameEdits
  <2>2. PICK i \in 1..Len(resolved) : sorted[r] = resolved[i]
    BY <2>1 DEF Rearranged
  <2>3. PICK a \in Nat, e \in Nat : a = resolved[i].start /\ e = resolved[i].end
    BY <1>1, EntryTypes
  <2>4. a =< e /\ e =< Len(text) /\ Len(text) \in Nat
    BY <1>1, <2>3 DEF WellPlaced
  <2> QED
    BY <2>2, <2>3, <2>4
<1>6. PICK h : Splices(text, sorted, SpliceFromEnd(text, sorted), h)
  <2> HIDE DEF sorted
  <2> QED
    BY <1>2, <1>5, SpliceSteps
<1>7. SpliceFromEnd(text, sorted) = Intended(text, edits, encoding)
  <2>1. sorted = SortedByStart(resolved)
    OBVIOUS
  <2> HIDE DEF sorted
  <2> QED
    BY <1>1, <1>3, <1>6, <2>1, SplicedAsIntended
<1>8. Intended(text, edits, encoding) \in Seq(Characters)
  <2>1. Len(text) + 1 \in 0..(Len(text) + 1)
    OBVIOUS
  <2> QED
    BY <1>3, <2>1 DEF Intends
<1> QED
  BY <1>4, <1>7, <1>8
=============================================================================
