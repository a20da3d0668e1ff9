---------------------------- MODULE FoldTheorems ----------------------------
(***************************************************************************)
(* Recursion over finite sets, as the folds and sums of the models define  *)
(* it: from the least element of a set of naturals it is shown that such a *)
(* recursion defines a function, that the function keeps what one of its   *)
(* steps keeps and goes through the stages its steps go through, and that  *)
(* a sum counts what the set holds.                                        *)
(***************************************************************************)
EXTENDS Naturals, Sequences, FiniteSets, FiniteSetsExt, SequencesExt, FiniteSetTheorems, TLAPS

-----------------------------------------------------------------------------
(* Recursion over finite sets.                                             *)

(* A set of naturals has a least element. *)
LEMMA LeastOf ==
  ASSUME NEW T, T \subseteq Nat, T # {}
  PROVE  \E n \in T : \A m \in T : n <= m
<1> DEFINE R == {ss \in Nat \X Nat : ss[1] < ss[2]}
<1>1. IsWellFoundedOn(R, Nat)
  BY NatLessThanWellFounded DEF OpToRel
<1>2. \E n \in T : \A m \in T : ~(<<m, n>> \in R)
  <2> HIDE DEF R
  <2> QED
    BY <1>1, WFMin, Zenon
<1>3. PICK n \in T : \A m \in T : ~(<<m, n>> \in R)
  BY <1>2, Zenon
<1>4. ASSUME NEW m \in T PROVE n <= m
  <2>1. m \in Nat /\ n \in Nat /\ ~(<<m, n>> \in R)
    BY <1>3
  <2>2. ~(m < n)
    BY <2>1
  <2>3. QED
    BY <2>1, <2>2
<1>5. QED
  BY <1>4

(* A recursion that takes one element out of a finite set at a time defines *)
(* a function.                                                              *)
Recurses(g, U, base, step, pick) ==
  \A s \in U : g[s] = IF s = {} THEN base ELSE step[<<s, g[s \ {pick[s]}]>>]

LEMMA RecursionExists ==
  ASSUME NEW S, IsFiniteSet(S), NEW X, NEW base \in X,
         NEW step \in [(SUBSET S) \X X -> X],
         NEW pick, \A s \in SUBSET S : s # {} => pick[s] \in s
  PROVE  \E g \in [SUBSET S -> X] : Recurses(g, SUBSET S, base, step, pick)
<1> DEFINE Upto(n) == {s \in SUBSET S : Cardinality(s) <= n}
           Good(n) == \E g \in [Upto(n) -> X] : Recurses(g, Upto(n), base, step, pick)
           Bad == {n \in Nat : ~Good(n)}
<1>1. \A s \in SUBSET S : /\ IsFiniteSet(s) /\ Cardinality(s) \in Nat
                          /\ Cardinality(s) = 0 <=> s = {}
                          /\ Cardinality(s) <= Cardinality(S)
  BY FS_Subset, FS_CardinalityType, FS_EmptySet
<1>2. \A s \in SUBSET S : s # {} => /\ s \ {pick[s]} \in SUBSET S
                                    /\ Cardinality(s \ {pick[s]}) = Cardinality(s) - 1
  BY <1>1, FS_RemoveElement
<1>3. Good(0)
  <2> DEFINE g == [s \in Upto(0) |-> base]
  <2>1. \A s \in Upto(0) : s = {}
    BY <1>1
  <2>2. g \in [Upto(0) -> X] /\ Recurses(g, Upto(0), base, step, pick)
    BY <2>1 DEF Recurses
  <2>3. QED
    BY <2>2
<1>4. ASSUME NEW n \in Nat, Good(n) PROVE Good(n + 1)
  <2>1. PICK g \in [Upto(n) -> X] : Recurses(g, Upto(n), base, step, pick)
    BY <1>4
  <2> DEFINE h == [s \in Upto(n + 1) |-> IF s \in Upto(n) THEN g[s]
                                         ELSE step[<<s, g[s \ {pick[s]}]>>]]
  <2>2. \A s \in Upto(n + 1) : s # {} => s \ {pick[s]} \in Upto(n)
    <3> TAKE s \in Upto(n + 1)
    <3>1. s \in SUBSET S /\ Cardinality(s) \in Nat /\ Cardinality(s) <= n + 1
      BY <1>1
    <3>2. s # {} => Cardinality(s \ {pick[s]}) <= n /\ s \ {pick[s]} \in SUBSET S
      BY <3>1, <1>2
    <3>3. QED
      BY <3>2
  <2>3. {} \in Upto(n)
    BY <1>1
  <2>4. ASSUME NEW s \in Upto(n + 1)
        PROVE  h[s] \in X /\ h[s] = IF s = {} THEN base ELSE step[<<s, h[s \ {pick[s]}]>>]
    <3>1. s \in SUBSET S
      OBVIOUS
    <3>2. CASE s \in Upto(n)
      <4>1. h[s] = g[s] /\ g[s] \in X
        BY <3>2
      <4>2. g[s] = IF s = {} THEN base ELSE step[<<s, g[s \ {pick[s]}]>>]
        BY <2>1, <3>2 DEF Recurses
      <4>3. s # {} => s \ {pick[s]} \in Upto(n) /\ s \ {pick[s]} \in Upto(n + 1)
        BY <2>2, <1>1
      <4>4. s # {} => h[s \ {pick[s]}] = g[s \ {pick[s]}]
        BY <4>3
      <4>5. QED
        BY <4>1, <4>2, <4>4
    <3>3. CASE s \notin Upto(n)
      <4>1. s # {}
        BY <3>3, <2>3
      <4>2. s \ {pick[s]} \in Upto(n) /\ s \ {pick[s]} \in Upto(n + 1)
        BY <4>1, <2>2, <1>1
      <4>3. h[s] = step[<<s, g[s \ {pick[s]}]>>] /\ h[s \ {pick[s]}] = g[s \ {pick[s]}]
        BY <3>3, <4>2
      <4>4. <<s, g[s \ {pick[s]}]>> \in (SUBSET S) \X X
        BY <3>1, <4>2
      <4>5. QED
        BY <4>1, <4>3, <4>4
    <3>4. QED
      BY <3>2, <3>3
  <2>5. h \in [Upto(n + 1) -> X] /\ Recurses(h, Upto(n + 1), base, step, pick)
    <3> HIDE DEF h
    <3>1. h = [s \in Upto(n + 1) |-> h[s]]
      BY DEF h
    <3>2. QED
      BY <2>4, <3>1 DEF Recurses
  <2>6. QED
    BY <2>5
<1>5. Bad = {}
  <2> SUFFICES ASSUME Bad # {} PROVE FALSE
    OBVIOUS
  <2> HIDE DEF Good
  <2>1. PICK n \in Bad : \A m \in Bad : n <= m
    BY LeastOf
  <2>2. n \in Nat /\ ~Good(n) /\ n # 0
    BY <1>3
  <2>3. n - 1 \in Nat /\ ~(n <= n - 1)
    BY <2>2
  <2>4. Good(n - 1)
    BY <2>1, <2>3
  <2>5. QED
    BY <2>2, <2>3, <2>4, <1>4
<1>6. Cardinality(S) \in Nat /\ Upto(Cardinality(S)) = SUBSET S
  BY <1>1
<1>7. Good(Cardinality(S))
  BY <1>5, <1>6
<1>8. PICK g \in [Upto(Cardinality(S)) -> X] :
        Recurses(g, Upto(Cardinality(S)), base, step, pick)
  BY <1>7
<1>9. QED
  <2> HIDE DEF Upto
  <2> QED
    BY <1>6, <1>8

(* What one step of a recursion over a finite set keeps, the whole keeps;  *)
(* Kept relates a set to the value the recursion has there.                *)
LEMMA RecursionKeeps ==
  ASSUME NEW S, IsFiniteSet(S), NEW g, NEW Kept, <<{}, g[{}]>> \in Kept,
         \A s \in SUBSET S : s # {} =>
            \E x \in s : <<s \ {x}, g[s \ {x}]>> \in Kept => <<s, g[s]>> \in Kept
  PROVE  \A s \in SUBSET S : <<s, g[s]>> \in Kept
<1> SUFFICES ASSUME NEW t \in SUBSET S, <<t, g[t]>> \notin Kept PROVE FALSE
  OBVIOUS
<1> DEFINE Bad == {n \in Nat : \E s \in SUBSET S : Cardinality(s) = n /\ <<s, g[s]>> \notin Kept}
<1>1. Cardinality(t) \in Bad
  BY FS_Subset, FS_CardinalityType
<1>2. PICK n \in Bad : \A m \in Bad : n <= m
  BY <1>1, LeastOf
<1>3. PICK s \in SUBSET S : Cardinality(s) = n /\ <<s, g[s]>> \notin Kept
  OBVIOUS
<1>4. PICK x \in s : <<s \ {x}, g[s \ {x}]>> \in Kept => <<s, g[s]>> \in Kept
  BY <1>3
<1>5. IsFiniteSet(s) /\ s \ {x} \in SUBSET S
  BY FS_Subset
<1>6. Cardinality(s \ {x}) = n - 1 /\ Cardinality(s \ {x}) \in Nat
  BY <1>3, <1>4, <1>5, FS_RemoveElement, FS_CardinalityType
<1>7. <<s \ {x}, g[s \ {x}]>> \notin Kept
  BY <1>3, <1>4
<1>8. Cardinality(s \ {x}) \in Bad
  BY <1>5, <1>6, <1>7
<1>9. n <= Cardinality(s \ {x})
  <2> HIDE DEF Bad
  <2> QED
    BY <1>2, <1>8
<1>10. QED
  BY <1>6, <1>9

(* A non-empty set of numbers up to N has a greatest one. *)
LEMMA GreatestOf ==
  ASSUME NEW N \in Nat, NEW S \in SUBSET (0..N), S # {}
  PROVE  Max(S) \in S /\ \A y \in S : Max(S) >= y
<1> DEFINE T == {n \in Nat : N - n \in S}
<1>1. \A x \in S : N - x \in T
  OBVIOUS
<1>2. T # {}
  BY <1>1
<1>3. PICK n \in T : \A m \in T : n <= m
  BY <1>2, LeastOf
<1>4. N - n \in S /\ \A y \in S : N - n >= y
  BY <1>1, <1>3
<1>5. QED
  BY <1>4 DEF Max

LEMMA MaxIsIn ==
  ASSUME NEW N \in Nat, NEW S \in SUBSET (1..N), S # {}
  PROVE  Max(S) \in S /\ Max(S) \in 1..N
<1>1. S \in SUBSET (0..N)
  OBVIOUS
<1>2. QED
  BY <1>1, GreatestOf

(* A fold over 1..N whose steps stay in X is defined. *)
FoldsBy(g, N, base, step) ==
  \A s \in SUBSET (1..N) : g[s] = IF s = {} THEN base ELSE step[<<g[s \ {Max(s)}], Max(s)>>]

LEMMA FoldExists ==
  ASSUME NEW N \in Nat, NEW X, NEW base \in X, NEW step \in [X \X (1..N) -> X]
  PROVE  \E g \in [SUBSET (1..N) -> X] : FoldsBy(g, N, base, step)
<1> DEFINE pick == [s \in SUBSET (1..N) |-> Max(s)]
           turn == [x \in (SUBSET (1..N)) \X X |->
                      IF x[1] = {} THEN base ELSE step[<<x[2], Max(x[1])>>]]
<1>1. IsFiniteSet(1..N)
  BY FS_Interval
<1>2. \A s \in SUBSET (1..N) : s # {} => pick[s] \in s /\ pick[s] = Max(s)
  BY MaxIsIn
<1>3. turn \in [(SUBSET (1..N)) \X X -> X]
  BY MaxIsIn
<1>4. PICK g \in [SUBSET (1..N) -> X] : Recurses(g, SUBSET (1..N), base, turn, pick)
  <2> HIDE DEF pick, turn
  <2> QED
    BY <1>1, <1>2, <1>3, RecursionExists
<1>5. ASSUME NEW s \in SUBSET (1..N), s # {}
      PROVE  g[s] = step[<<g[s \ {Max(s)}], Max(s)>>]
  <2>1. g[s] = turn[<<s, g[s \ {Max(s)}]>>]
    BY <1>2, <1>4, <1>5 DEF Recurses
  <2>2. <<s, g[s \ {Max(s)}]>> \in (SUBSET (1..N)) \X X
    OBVIOUS
  <2>3. QED
    BY <2>1, <2>2, <1>5
<1>6. g[{}] = base
  BY <1>4 DEF Recurses
<1>7. QED
  BY <1>5, <1>6 DEF FoldsBy

(* A fold over 1..N keeps what its steps keep. *)
LEMMA FoldKeepsAll ==
  ASSUME NEW N \in Nat, NEW X, NEW g, g[{}] \in X,
         \A s \in SUBSET (1..N) : s # {} => (g[s \ {Max(s)}] \in X => g[s] \in X)
  PROVE  \A s \in SUBSET (1..N) : g[s] \in X
<1> DEFINE Kept == (SUBSET (1..N)) \X X
<1>1. IsFiniteSet(1..N)
  BY FS_Interval
<1>2. ASSUME NEW s \in SUBSET (1..N), s # {}
      PROVE  <<s \ {Max(s)}, g[s \ {Max(s)}]>> \in Kept => <<s, g[s]>> \in Kept
  BY <1>2
<1>3. \A s \in SUBSET (1..N) : s # {} =>
         \E x \in s : <<s \ {x}, g[s \ {x}]>> \in Kept => <<s, g[s]>> \in Kept
  BY <1>2, MaxIsIn
<1>4. <<{}, g[{}]>> \in Kept
  OBVIOUS
<1>5. \A s \in SUBSET (1..N) : <<s, g[s]>> \in Kept
  <2> HIDE DEF Kept
  <2> QED
    BY <1>1, <1>3, <1>4, RecursionKeeps
<1>6. QED
  BY <1>5

LEMMA FoldKeeps ==
  ASSUME NEW N \in Nat, NEW X, NEW g, g[{}] \in X,
         \A s \in SUBSET (1..N) : s # {} => (g[s \ {Max(s)}] \in X => g[s] \in X)
  PROVE  g[1..N] \in X
<1>1. \A s \in SUBSET (1..N) : g[s] \in X
  BY FoldKeepsAll
<1>2. QED
  BY <1>1

(* The greatest of the first numbers. *)
LEMMA PrefixIs ==
  ASSUME NEW k \in Nat, k # 0
  PROVE  Max(1..k) = k /\ (1..k) \ {Max(1..k)} = 1..(k - 1)
<1>1. Max(1..k) \in 1..k /\ \A y \in 1..k : Max(1..k) >= y
  <2>1. (1..k) \in SUBSET (0..k) /\ (1..k) # {}
    OBVIOUS
  <2>2. QED
    BY <2>1, GreatestOf
<1>2. QED
  BY <1>1

(* A fold over 1..N is the end of a run through the values it takes there. *)
FoldsIn(g, N, X, base, step) ==
  /\ g[{}] = base
  /\ \A s \in SUBSET (1..N) : s # {} /\ g[s \ {Max(s)}] \in X => g[s] = step[<<g[s \ {Max(s)}], Max(s)>>]
HasRun(g, N, X, base, step) ==
  \E f \in [0..N -> X] : /\ f[0] = base /\ f[N] = g[1..N]
                         /\ \A k \in 1..N : f[k] = step[<<f[k - 1], k>>]

LEMMA RunOfFold ==
  ASSUME NEW N, NEW X, NEW base, NEW step, NEW g, N \in Nat /\ base \in X /\ step \in [X \X (1..N) -> X],
         FoldsIn(g, N, X, base, step)
  PROVE  HasRun(g, N, X, base, step)
<1>0. /\ g[{}] = base
      /\ \A s \in SUBSET (1..N) : s # {} /\ g[s \ {Max(s)}] \in X => g[s] = step[<<g[s \ {Max(s)}], Max(s)>>]
  BY DEF FoldsIn
<1> DEFINE f == [k \in 0..N |-> g[1..k]]
<1>1. \A s \in SUBSET (1..N) : g[s] \in X
  <2>1. ASSUME NEW s \in SUBSET (1..N), s # {}, g[s \ {Max(s)}] \in X PROVE g[s] \in X
    BY <1>0, <2>1, MaxIsIn
  <2>2. g[{}] \in X
    BY <1>0
  <2>3. QED
    BY <2>1, <2>2, FoldKeepsAll
<1>2. f \in [0..N -> X]
  <2>1. \A k \in 0..N : (1..k) \in SUBSET (1..N)
    OBVIOUS
  <2>2. QED
    BY <1>1, <2>1
<1>3. f[0] = base
  <2>1. 1..0 = {}
    OBVIOUS
  <2>2. QED
    BY <1>0, <2>1
<1>4. ASSUME NEW k \in 1..N PROVE f[k] = step[<<f[k - 1], k>>]
  <2>1. (1..k) \in SUBSET (1..N) /\ k \in Nat /\ k # 0 /\ k \in 0..N /\ k - 1 \in 0..N
    <3>1. k \in Nat /\ k # 0 /\ k \in 0..N /\ k - 1 \in 0..N
      OBVIOUS
    <3>2. \A i \in 1..k : i \in 1..N
      OBVIOUS
    <3>3. QED
      BY <3>1, <3>2
  <2>2. Max(1..k) = k /\ (1..k) \ {Max(1..k)} = 1..(k - 1) /\ 1..k # {}
    BY <2>1, PrefixIs
  <2>3. g[1..(k - 1)] \in X
    <3>1. f[k - 1] = g[1..(k - 1)] /\ f[k - 1] \in X
      BY <1>2, <2>1
    <3>2. QED
      BY <3>1
  <2>4. g[1..k] = step[<<g[1..(k - 1)], k>>]
    BY <1>0, <2>1, <2>2, <2>3
  <2>5. QED
    BY <2>1, <2>4
<1>5. f[N] = g[1..N]
  OBVIOUS
<1> HIDE DEF f
<1>6. QED
  BY <1>2, <1>3, <1>4, <1>5 DEF HasRun

(* Two runs that begin alike and go on alike are alike. *)
LEMMA RunsAgree ==
  ASSUME NEW N \in Nat, NEW f, NEW g, f[0] = g[0],
         \A k \in 1..N : f[k - 1] = g[k - 1] => f[k] = g[k]
  PROVE  f[N] = g[N]
<1> SUFFICES ASSUME f[N] # g[N] PROVE FALSE
  OBVIOUS
<1> DEFINE Bad == {n \in 0..N : f[n] # g[n]}
<1>1. Bad # {} /\ Bad \subseteq Nat
  OBVIOUS
<1>2. PICK n \in Bad : \A i \in Bad : n <= i
  BY <1>1, LeastOf
<1>3. n \in 1..N /\ n - 1 \in 0..N /\ ~ (n <= n - 1)
  OBVIOUS
<1>4. f[n - 1] = g[n - 1]
  BY <1>2, <1>3
<1>5. QED
  BY <1>3, <1>4

(* The sum of a function of naturals over a finite set. *)
Sum(f, S) == MapThenSumSet(LAMBDA x : f[x], S)

SumRecurs(g, f, S) ==
  g = [s \in SUBSET S |-> IF s = {} THEN 0
                          ELSE LET x == CHOOSE x \in s : TRUE IN f[x] + g[s \ {x}]]

LEMMA SumExists ==
  ASSUME NEW S, IsFiniteSet(S), NEW f, \A x \in S : f[x] \in Nat
  PROVE  \E g \in [SUBSET S -> Nat] : SumRecurs(g, f, S) /\ Sum(f, S) = g[S]
<1> DEFINE pick == [s \in SUBSET S |-> CHOOSE x \in s : TRUE]
           turn == [x \in (SUBSET S) \X Nat |->
                      IF x[1] = {} THEN 0 ELSE f[CHOOSE y \in x[1] : TRUE] + x[2]]
           sum == CHOOSE g : SumRecurs(g, f, S)
<1>1. \A s \in SUBSET S : s # {} => pick[s] \in s /\ pick[s] = CHOOSE x \in s : TRUE
  OBVIOUS
<1>2. turn \in [(SUBSET S) \X Nat -> Nat]
  OBVIOUS
<1>3. PICK g \in [SUBSET S -> Nat] : Recurses(g, SUBSET S, 0, turn, pick)
  <2> HIDE DEF pick, turn
  <2> QED
    BY <1>1, <1>2, RecursionExists
<1>4. ASSUME NEW s \in SUBSET S, s # {}
      PROVE  g[s] = f[CHOOSE x \in s : TRUE] + g[s \ {CHOOSE x \in s : TRUE}]
  <2>1. g[s] = turn[<<s, g[s \ {CHOOSE x \in s : TRUE}]>>]
    BY <1>1, <1>3, <1>4 DEF Recurses
  <2>2. <<s, g[s \ {CHOOSE x \in s : TRUE}]>> \in (SUBSET S) \X Nat
    OBVIOUS
  <2>3. QED
    BY <2>1, <2>2, <1>4
<1>5. g[{}] = 0
  BY <1>3 DEF Recurses
<1>6. SumRecurs(g, f, S)
  BY <1>4, <1>5 DEF SumRecurs
<1>7. SumRecurs(sum, f, S)
  BY <1>6
<1>8. Sum(f, S) = sum[S]
  BY DEF Sum, MapThenSumSet, MapThenFoldSet, SumRecurs
<1>9. \A s \in SUBSET S : sum[s] \in Nat
  <2> DEFINE Kept == (SUBSET S) \X Nat
  <2> HIDE DEF sum
  <2>1. <<{}, sum[{}]>> \in Kept
    BY <1>7 DEF SumRecurs
  <2>2. ASSUME NEW s \in SUBSET S, s # {}
        PROVE  \E x \in s : <<s \ {x}, sum[s \ {x}]>> \in Kept => <<s, sum[s]>> \in Kept
    <3>1. (CHOOSE x \in s : TRUE) \in s
      BY <2>2
    <3>2. sum[s] = f[CHOOSE x \in s : TRUE] + sum[s \ {CHOOSE x \in s : TRUE}]
      BY <1>7, <2>2 DEF SumRecurs
    <3>3. sum[s \ {CHOOSE x \in s : TRUE}] \in Nat => sum[s] \in Nat
      BY <3>1, <3>2
    <3>4. QED
      BY <3>1, <3>3
  <2>3. \A s \in SUBSET S : <<s, sum[s]>> \in Kept
    <3> HIDE DEF Kept
    <3> QED
      BY <2>1, <2>2, RecursionKeeps
  <2>4. QED
    BY <2>3
<1>10. sum = [s \in SUBSET S |-> sum[s]]
  <2> HIDE DEF sum
  <2> QED
    BY <1>7 DEF SumRecurs
<1>11. QED
  <2> HIDE DEF sum
  <2> QED
    BY <1>7, <1>8, <1>9, <1>10

LEMMA SumType ==
  ASSUME NEW S, IsFiniteSet(S), NEW f, \A x \in S : f[x] \in Nat
  PROVE  Sum(f, S) \in Nat
<1>1. PICK g \in [SUBSET S -> Nat] : SumRecurs(g, f, S) /\ Sum(f, S) = g[S]
  BY SumExists
<1>2. QED
  BY <1>1

(* What holds of the empty set, and of a set when it holds of that set less *)
(* some element, holds of every finite set.                                 *)
LEMMA SetsAreGood ==
  ASSUME NEW S, IsFiniteSet(S), NEW Good, {} \in Good,
         \A s \in SUBSET S : s # {} => \E x \in s : s \ {x} \in Good => s \in Good
  PROVE  S \in Good
<1> DEFINE g == [s \in SUBSET S |-> 0]
           Kept == Good \X {0}
<1>1. <<{}, g[{}]>> \in Kept
  OBVIOUS
<1>2. \A s \in SUBSET S : s # {} =>
         \E x \in s : <<s \ {x}, g[s \ {x}]>> \in Kept => <<s, g[s]>> \in Kept
  <2> TAKE s \in SUBSET S
  <2> HAVE s # {}
  <2>1. PICK x \in s : s \ {x} \in Good => s \in Good
    OBVIOUS
  <2>2. g[s] = 0 /\ g[s \ {x}] = 0
    OBVIOUS
  <2>3. <<s \ {x}, g[s \ {x}]>> \in Kept => <<s, g[s]>> \in Kept
    BY <2>1, <2>2
  <2>4. QED
    BY <2>3
<1>3. \A s \in SUBSET S : <<s, g[s]>> \in Kept
  <2> HIDE DEF g, Kept
  <2> QED
    BY <1>1, <1>2, RecursionKeeps
<1>4. QED
  BY <1>3

(* The sum over a set is the element the sum takes first, and the rest. *)
LEMMA SumTakesOne ==
  ASSUME NEW S, IsFiniteSet(S), S # {}, NEW f, \A x \in S : f[x] \in Nat
  PROVE  LET c == CHOOSE x \in S : TRUE
         IN  c \in S /\ Sum(f, S) = f[c] + Sum(f, S \ {c})
<1> DEFINE c == CHOOSE x \in S : TRUE
           rest == S \ {c}
<1>1. c \in S
  OBVIOUS
<1>2. IsFiniteSet(rest)
  BY FS_Subset
<1>3. PICK g \in [SUBSET S -> Nat] : SumRecurs(g, f, S) /\ Sum(f, S) = g[S]
  BY SumExists
<1>4. PICK h \in [SUBSET rest -> Nat] : SumRecurs(h, f, rest) /\ Sum(f, rest) = h[rest]
  <2> HIDE DEF rest
  <2>1. \A x \in rest : f[x] \in Nat
    BY DEF rest
  <2>2. QED
    BY <1>2, <2>1, SumExists
<1>5. \A s \in SUBSET S : g[s] = IF s = {} THEN 0
        ELSE f[CHOOSE x \in s : TRUE] + g[s \ {CHOOSE x \in s : TRUE}]
  BY <1>3 DEF SumRecurs
<1>6. \A s \in SUBSET rest : h[s] = IF s = {} THEN 0
        ELSE f[CHOOSE x \in s : TRUE] + h[s \ {CHOOSE x \in s : TRUE}]
  BY <1>4 DEF SumRecurs
<1> DEFINE Kept == {z \in (SUBSET rest) \X Nat : z[2] = g[z[1]]}
<1>7. \A s \in SUBSET rest : <<s, h[s]>> \in Kept
  <2>1. <<{}, h[{}]>> \in Kept
    BY <1>5, <1>6
  <2>2. ASSUME NEW s \in SUBSET rest, s # {}
        PROVE  \E x \in s : <<s \ {x}, h[s \ {x}]>> \in Kept => <<s, h[s]>> \in Kept
    <3> DEFINE x == CHOOSE x \in s : TRUE
    <3>1. x \in s
      BY <2>2
    <3>2. h[s] = f[x] + h[s \ {x}] /\ g[s] = f[x] + g[s \ {x}]
      BY <1>5, <1>6, <2>2
    <3> HIDE DEF x
    <3>3. <<s \ {x}, h[s \ {x}]>> \in Kept => <<s, h[s]>> \in Kept
      BY <1>4, <3>1, <3>2
    <3>4. QED
      BY <3>1, <3>3
  <2> HIDE DEF Kept, rest
  <2>3. QED
    BY <1>2, <2>1, <2>2, RecursionKeeps
<1>8. h[rest] = g[rest]
  BY <1>7
<1>9. g[S] = f[c] + g[rest]
  BY <1>5
<1>10. QED
  BY <1>1, <1>3, <1>4, <1>8, <1>9

LEMMA EmptySum ==
  ASSUME NEW f
  PROVE  Sum(f, {}) = 0
<1>1. IsFiniteSet({}) /\ \A x \in {} : f[x] \in Nat
  BY FS_EmptySet
<1>2. PICK g \in [SUBSET {} -> Nat] : SumRecurs(g, f, {}) /\ Sum(f, {}) = g[{}]
  BY <1>1, SumExists
<1>3. QED
  BY <1>2 DEF SumRecurs

(* The sum over a set is any element of it and the rest. *)
LEMMA SumRemoves ==
  ASSUME NEW S, IsFiniteSet(S), NEW f, \A x \in S : f[x] \in Nat, NEW e \in S
  PROVE  Sum(f, S) = f[e] + Sum(f, S \ {e})
<1> DEFINE Holds(s) == \A x \in s : Sum(f, s) = f[x] + Sum(f, s \ {x})
           Bad == {n \in Nat : \E s \in SUBSET S : Cardinality(s) = n /\ ~Holds(s)}
<1> SUFFICES ASSUME ~Holds(S) PROVE FALSE
  OBVIOUS
<1> HIDE DEF Holds
<1>1. Cardinality(S) \in Bad
  BY FS_CardinalityType
<1>2. PICK n \in Bad : \A m \in Bad : n <= m
  BY <1>1, LeastOf
<1>3. PICK s \in SUBSET S : Cardinality(s) = n /\ ~Holds(s)
  OBVIOUS
<1>4. PICK x \in s : Sum(f, s) # f[x] + Sum(f, s \ {x})
  BY <1>3 DEF Holds
<1>5. \A t \in SUBSET S : IsFiniteSet(t) /\ \A y \in t : f[y] \in Nat
  BY FS_Subset
<1>6. ASSUME NEW y \in s PROVE Holds(s \ {y})
  <2>1. Cardinality(s \ {y}) = n - 1 /\ Cardinality(s \ {y}) \in Nat
    BY <1>3, <1>5, FS_RemoveElement, FS_CardinalityType
  <2>2. Cardinality(s \ {y}) \notin Bad
    <3> HIDE DEF Bad
    <3>1. n \in Nat
      BY DEF Bad
    <3>2. QED
      BY <1>2, <2>1, <3>1
  <2>3. QED
    BY <2>1, <2>2
<1>7. PICK c \in s : Sum(f, s) = f[c] + Sum(f, s \ {c})
  BY <1>4, <1>5, SumTakesOne
<1>8. c # x
  BY <1>4, <1>7
<1>9. Sum(f, s \ {c}) = f[x] + Sum(f, (s \ {c}) \ {x})
  BY <1>6, <1>8 DEF Holds
<1>10. Sum(f, s \ {x}) = f[c] + Sum(f, (s \ {x}) \ {c})
  BY <1>6, <1>8 DEF Holds
<1> DEFINE rest == (s \ {c}) \ {x}
<1>11. (s \ {x}) \ {c} = rest
  OBVIOUS
<1>12. Sum(f, rest) \in Nat /\ f[c] \in Nat /\ f[x] \in Nat
  BY <1>5, SumType
<1> HIDE DEF rest
<1>13. Sum(f, s \ {c}) = f[x] + Sum(f, rest) /\ Sum(f, s \ {x}) = f[c] + Sum(f, rest)
  BY <1>9, <1>10, <1>11 DEF rest
<1>14. QED
  BY <1>4, <1>7, <1>12, <1>13

(* A part of a set sums to no more. *)
LEMMA SumOfPart ==
  ASSUME NEW T, IsFiniteSet(T), NEW f, \A x \in T : f[x] \in Nat, NEW S \in SUBSET T
  PROVE  Sum(f, S) <= Sum(f, T)
<1> DEFINE Good == {s \in SUBSET T : Sum(f, s \cap S) <= Sum(f, s)}
<1>1. \A s \in SUBSET T : /\ IsFiniteSet(s) /\ Sum(f, s) \in Nat
                          /\ \A x \in s : Sum(f, s) = f[x] + Sum(f, s \ {x})
  BY FS_Subset, SumType, SumRemoves
<1>2. {} \in Good
  <2>1. {} \cap S = {}
    OBVIOUS
  <2>2. QED
    BY <2>1, EmptySum
<1>3. ASSUME NEW s \in SUBSET T, NEW x \in s, s \ {x} \in Good
      PROVE  s \in Good
  <2> DEFINE kept == (s \ {x}) \cap S
             part == s \cap S
  <2>1. Sum(f, kept) <= Sum(f, s \ {x}) /\ Sum(f, s) = f[x] + Sum(f, s \ {x})
    BY <1>1, <1>3
  <2>2. f[x] \in Nat /\ Sum(f, s \ {x}) \in Nat /\ Sum(f, kept) \in Nat
    BY <1>1
  <2>3. part \in SUBSET T /\ IF x \in S THEN x \in part /\ part \ {x} = kept ELSE part = kept
    OBVIOUS
  <2> HIDE DEF kept, part
  <2>4. CASE x \in S
    <3>1. Sum(f, part) = f[x] + Sum(f, kept)
      BY <1>1, <2>3, <2>4
    <3>2. QED
      BY <2>1, <2>2, <3>1 DEF part
  <2>5. CASE x \notin S
    <3>1. Sum(f, part) = Sum(f, kept)
      BY <2>3, <2>5
    <3>2. QED
      BY <2>1, <2>2, <3>1 DEF part
  <2>6. QED
    BY <2>4, <2>5
<1>4. \A s \in SUBSET T : s # {} => \E x \in s : s \ {x} \in Good => s \in Good
  BY <1>3
<1>5. T \in Good
  <2> HIDE DEF Good
  <2> QED
    BY <1>2, <1>4, SetsAreGood
<1>6. T \cap S = S
  OBVIOUS
<1>7. QED
  BY <1>5, <1>6

(* What is matched one to one with as much elsewhere sums to no more. *)
LEMMA SumDominated ==
  ASSUME NEW S, IsFiniteSet(S), NEW f, \A x \in S : f[x] \in Nat,
         NEW T, IsFiniteSet(T), NEW g, \A y \in T : g[y] \in Nat, NEW e,
         \A x \in S : f[x] # 0 => e[x] \in T /\ f[x] <= g[e[x]],
         \A x, y \in S : f[x] # 0 /\ f[y] # 0 /\ e[x] = e[y] => x = y
  PROVE  Sum(f, S) <= Sum(g, T)
<1> DEFINE Image(s) == {e[x] : x \in {x \in s : f[x] # 0}}
           Good == {s \in SUBSET S : Sum(f, s) <= Sum(g, Image(s))}
<1>1. \A s \in SUBSET S : /\ Sum(f, s) \in Nat
                          /\ \A x \in s : Sum(f, s) = f[x] + Sum(f, s \ {x})
  BY FS_Subset, SumType, SumRemoves
<1>2. \A t \in SUBSET T : /\ Sum(g, t) \in Nat
                          /\ \A y \in t : Sum(g, t) = g[y] + Sum(g, t \ {y})
  BY FS_Subset, SumType, SumRemoves
<1>3. \A s \in SUBSET S : Image(s) \in SUBSET T
  OBVIOUS
<1>4. {} \in Good
  <2>1. Image({}) = {}
    OBVIOUS
  <2> HIDE DEF Image
  <2>2. QED
    BY <2>1, EmptySum
<1>5. ASSUME NEW s \in SUBSET S, NEW x \in s, s \ {x} \in Good
      PROVE  s \in Good
  <2>1. /\ Sum(f, s) = f[x] + Sum(f, s \ {x}) /\ Sum(f, s \ {x}) <= Sum(g, Image(s \ {x}))
        /\ f[x] \in Nat /\ Sum(f, s \ {x}) \in Nat /\ Sum(g, Image(s \ {x})) \in Nat
    BY <1>1, <1>2, <1>3, <1>5
  <2>2. CASE f[x] = 0
    <3>1. Image(s) = Image(s \ {x})
      BY <2>2
    <3> HIDE DEF Image
    <3>2. QED
      BY <2>1, <2>2, <3>1
  <2>3. CASE f[x] # 0
    <3>1. e[x] \in Image(s) /\ Image(s \ {x}) = Image(s) \ {e[x]}
      BY <2>3
    <3>2. f[x] <= g[e[x]] /\ g[e[x]] \in Nat
      BY <2>3
    <3> HIDE DEF Image
    <3>3. Sum(g, Image(s)) = g[e[x]] + Sum(g, Image(s \ {x}))
      BY <1>2, <1>3, <3>1
    <3>4. QED
      BY <2>1, <3>2, <3>3
  <2>4. QED
    BY <2>2, <2>3
<1>6. \A s \in SUBSET S : s # {} => \E x \in s : s \ {x} \in Good => s \in Good
  BY <1>5
<1>7. S \in Good
  <2> HIDE DEF Good
  <2> QED
    BY <1>4, <1>6, SetsAreGood
<1>8. Sum(g, Image(S)) <= Sum(g, T)
  <2>1. Image(S) \in SUBSET T
    BY <1>3
  <2> HIDE DEF Image
  <2>2. QED
    BY <2>1, SumOfPart
<1>9. Sum(f, S) \in Nat /\ Sum(g, T) \in Nat /\ Sum(g, Image(S)) \in Nat
  BY <1>1, <1>2, <1>3
<1>10. QED
  <2> HIDE DEF Image
  <2> QED
    BY <1>7, <1>8, <1>9

(* Sums of two functions are added point by point. *)
LEMMA SumAdds ==
  ASSUME NEW S, IsFiniteSet(S), NEW f, NEW g, NEW h,
         \A x \in S : f[x] \in Nat /\ g[x] \in Nat /\ h[x] = f[x] + g[x]
  PROVE  Sum(h, S) = Sum(f, S) + Sum(g, S)
<1> DEFINE Good == {s \in SUBSET S : Sum(h, s) = Sum(f, s) + Sum(g, s)}
<1>1. \A x \in S : h[x] \in Nat
  OBVIOUS
<1>2. \A s \in SUBSET S : /\ Sum(f, s) \in Nat /\ Sum(g, s) \in Nat /\ Sum(h, s) \in Nat
                          /\ \A x \in s : /\ Sum(f, s) = f[x] + Sum(f, s \ {x})
                                          /\ Sum(g, s) = g[x] + Sum(g, s \ {x})
                                          /\ Sum(h, s) = h[x] + Sum(h, s \ {x})
  <2> TAKE s \in SUBSET S
  <2>1. IsFiniteSet(s) /\ \A x \in s : f[x] \in Nat /\ g[x] \in Nat /\ h[x] \in Nat
    BY <1>1, FS_Subset
  <2>2. Sum(f, s) \in Nat /\ Sum(g, s) \in Nat /\ Sum(h, s) \in Nat
    BY <2>1, SumType
  <2>3. ASSUME NEW x \in s
        PROVE  /\ Sum(f, s) = f[x] + Sum(f, s \ {x})
               /\ Sum(g, s) = g[x] + Sum(g, s \ {x})
               /\ Sum(h, s) = h[x] + Sum(h, s \ {x})
    BY <2>1, SumRemoves
  <2>4. QED
    BY <2>2, <2>3
<1>3. {} \in Good
  BY EmptySum
<1>4. ASSUME NEW s \in SUBSET S, NEW x \in s, s \ {x} \in Good PROVE s \in Good
  <2>1. Sum(h, s \ {x}) = Sum(f, s \ {x}) + Sum(g, s \ {x})
    BY <1>4
  <2>2. Sum(f, s \ {x}) \in Nat /\ Sum(g, s \ {x}) \in Nat /\ f[x] \in Nat /\ g[x] \in Nat
        /\ h[x] = f[x] + g[x]
    BY <1>2
  <2>3. /\ Sum(f, s) = f[x] + Sum(f, s \ {x}) /\ Sum(g, s) = g[x] + Sum(g, s \ {x})
        /\ Sum(h, s) = h[x] + Sum(h, s \ {x})
    BY <1>2
  <2>4. QED
    BY <2>1, <2>2, <2>3
<1>5. \A s \in SUBSET S : s # {} => \E x \in s : s \ {x} \in Good => s \in Good
  BY <1>4
<1>6. S \in Good
  <2> HIDE DEF Good
  <2> QED
    BY <1>3, <1>5, SetsAreGood
<1>7. QED
  BY <1>6

(* Equal functions have equal sums. *)
LEMMA SumIsOfValues ==
  ASSUME NEW S, IsFiniteSet(S), NEW f, NEW g, \A x \in S : f[x] \in Nat /\ g[x] = f[x]
  PROVE  Sum(g, S) = Sum(f, S)
<1> DEFINE e == [x \in S |-> x]
<1>1. \A x \in S : g[x] \in Nat /\ e[x] = x
  OBVIOUS
<1>2. Sum(f, S) \in Nat /\ Sum(g, S) \in Nat
  BY <1>1, SumType
<1> HIDE DEF e
<1>3. Sum(f, S) <= Sum(g, S)
  <2>1. \A x \in S : f[x] # 0 => e[x] \in S /\ f[x] <= g[e[x]]
    BY <1>1
  <2>2. \A x, y \in S : f[x] # 0 /\ f[y] # 0 /\ e[x] = e[y] => x = y
    BY <1>1
  <2>3. QED
    BY <1>1, <2>1, <2>2, SumDominated
<1>4. Sum(g, S) <= Sum(f, S)
  <2>1. \A x \in S : g[x] # 0 => e[x] \in S /\ g[x] <= f[e[x]]
    BY <1>1
  <2>2. \A x, y \in S : g[x] # 0 /\ g[y] # 0 /\ e[x] = e[y] => x = y
    BY <1>1
  <2>3. QED
    BY <1>1, <2>1, <2>2, SumDominated
<1>5. QED
  BY <1>2, <1>3, <1>4

=============================================================================
