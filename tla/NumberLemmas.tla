---------------------------- MODULE NumberLemmas ----------------------------
(***************************************************************************)
(* Lemmas the proofs of several components need: induction over numbers    *)
(* without an operator parameter, what MapThenSumSet computes, and what    *)
(* becomes of counters that wrap.                                          *)
(***************************************************************************)
EXTENDS Integers, FiniteSets, FiniteSetsExt, FiniteSetTheorems, TLAPS

\* A set of numbers has a least one.  Proofs by induction start from it: of the
\* numbers a claim fails for, the least.  (The library orders finite sets by
\* inclusion; a number stands for the set of those below it.)
LEMMA LeastNumber ==
    ASSUME NEW T \in SUBSET Nat, T # {}
    PROVE  \E n \in T : \A m \in T : n <= m
<1> DEFINE R == StrictSubsetOrdering(Nat)
           F == FiniteSubsetsOf(Nat)
           U == {1 .. n : n \in T}
<1>1. U \subseteq F
  BY FS_Interval DEF FiniteSubsetsOf
<1>2. \E x \in U : \A y \in U : <<y, x>> \notin R
  <2> HIDE DEF R, F, U
  <2>1. IsWellFoundedOn(R, F)
    BY FS_StrictSubsetOrderingWellFounded DEF R, F
  <2>2. U # {}
    BY DEF U
  <2> QED
    BY <1>1, <2>1, <2>2, WFMin
<1>3. PICK n \in T : \A y \in U : <<y, 1 .. n>> \notin R
  BY <1>2
<1>4. ASSUME NEW m \in T, ~(n <= m) PROVE FALSE
  <2>1. 1 .. m \subseteq 1 .. n
    BY <1>4
  <2>2. n \in 1 .. n /\ n \notin 1 .. m
    BY <1>4
  <2>3. <<1 .. m, 1 .. n>> \in R
    BY <2>1, <2>2 DEF StrictSubsetOrdering
  <2> QED
    BY <2>3, <1>3
<1> QED
  BY <1>4

LEMMA MinOf ==
    ASSUME NEW S \in SUBSET Nat, S # {}
    PROVE  Min(S) \in S /\ \A x \in S : Min(S) <= x
BY LeastNumber DEF Min

\* A claim that holds of k when it holds of k - 1 holds of all (T: where it fails).
LEMMA NoLeast ==
    ASSUME NEW T \in SUBSET Nat, \A n \in T : \E m \in T : m < n
    PROVE  T = {}
BY LeastNumber

\* A set of numbers that has a bound has a greatest one.
LEMMA MaxOf ==
    ASSUME NEW S \in SUBSET Nat, S # {}, NEW b \in Nat, \A x \in S : x <= b
    PROVE  Max(S) \in S /\ \A x \in S : x <= Max(S)
<1> DEFINE T == {n \in Nat : \E x \in S : n = b - x}
<1>1. PICK n \in T : \A m \in T : n <= m
  <2>1. T \in SUBSET Nat /\ T # {}
    <3>1. PICK x : x \in S
      OBVIOUS
    <3>2. b - x \in Nat
      BY <3>1
    <3> QED
      BY <3>1, <3>2
  <2> HIDE DEF T
  <2> QED
    BY <2>1, LeastNumber
<1>2. PICK x \in S : n = b - x
  OBVIOUS
<1>3. ASSUME NEW y \in S PROVE y <= x
  <2>1. b - y \in T
    BY <1>3
  <2>2. n <= b - y
    BY <1>1, <2>1
  <2> QED
    BY <1>2, <2>2
<1>4. \E m \in S : \A y \in S : m >= y
  BY <1>3
<1> QED
  BY <1>4 DEF Max

-----------------------------------------------------------------------------
(***************************************************************************)
(* The sum of c[x] over a finite set is the number of pairs <<x, k>> with  *)
(* k in 1 .. c[x]: what the recursion of MapThenSumSet computes, without   *)
(* recursion.                                                              *)
(***************************************************************************)
Copies(c, s) == UNION {{x} \X (1 .. c[x]) : x \in s}
SumOver(c, s) == Cardinality(Copies(c, s))

\* f satisfies the recursion of MapThenSumSet over the subsets of S.
SumsUp(f, c, S) ==
    f = [s \in SUBSET S |->
            IF s = {} THEN 0
            ELSE c[CHOOSE x \in s : TRUE] + f[s \ {CHOOSE x \in s : TRUE}]]

LEMMA CopiesFinite ==
    ASSUME NEW S, IsFiniteSet(S), NEW c \in [S -> Nat], NEW s \in SUBSET S
    PROVE  IsFiniteSet(Copies(c, s)) /\ SumOver(c, s) \in Nat
<1> DEFINE f == [x \in s |-> {x} \X (1 .. c[x])]
           T == {{x} \X (1 .. c[x]) : x \in s}
<1>1. IsFiniteSet(s)
  BY FS_Subset
<1>2. f \in Surjection(s, T)
  BY DEF Surjection
<1>3. IsFiniteSet(T)
  <2> HIDE DEF f, T
  <2> QED
    BY <1>1, <1>2, FS_Surjection
<1>4. \A x \in s : IsFiniteSet({x} \X (1 .. c[x]))
  <2> TAKE x \in s
  <2>1. IsFiniteSet({x}) /\ IsFiniteSet(1 .. c[x])
    <3>1. c[x] \in Nat
      OBVIOUS
    <3>2. IsFiniteSet(1 .. c[x])
      BY <3>1, FS_Interval
    <3> QED
      BY <3>2, FS_Singleton
  <2> QED
    BY <2>1, FS_Product
<1>5. IsFiniteSet(UNION T)
  <2>1. \A t \in T : IsFiniteSet(t)
    BY <1>4
  <2> HIDE DEF T
  <2> QED
    BY <1>3, <2>1, FS_UNION
<1> QED
  BY <1>5, FS_CardinalityType DEF Copies, SumOver

\* One element more adds its share.
LEMMA SumGrows ==
    ASSUME NEW S, IsFiniteSet(S), NEW c \in [S -> Nat], NEW s \in SUBSET S,
           NEW x \in S, x \notin s
    PROVE  SumOver(c, s \cup {x}) = SumOver(c, s) + c[x]
<1> DEFINE A == Copies(c, s)
           B == {x} \X (1 .. c[x])
<1>1. Copies(c, s \cup {x}) = A \cup B
  BY DEF Copies
<1>2. A \cap B = {}
  BY DEF Copies
<1>3. IsFiniteSet(A) /\ Cardinality(A) \in Nat
  BY CopiesFinite DEF SumOver
<1>4. IsFiniteSet(B) /\ Cardinality(B) = c[x]
  <2>1. IsFiniteSet({x}) /\ Cardinality({x}) = 1
    BY FS_Singleton
  <2>2. IsFiniteSet(1 .. c[x]) /\ Cardinality(1 .. c[x]) = c[x]
    <3>1. c[x] \in Nat
      OBVIOUS
    <3> QED
      BY <3>1, FS_Interval
  <2>3. IsFiniteSet(B) /\ Cardinality(B) = 1 * c[x]
    BY <2>1, <2>2, FS_Product, SMTT(30)
  <2>4. c[x] \in Nat
    OBVIOUS
  <2> QED
    BY <2>3, <2>4
<1>5. Cardinality(A \cup B) = Cardinality(A) + Cardinality(B)
  <2> HIDE DEF A, B
  <2>1. Cardinality(A \cup B) = Cardinality(A) + Cardinality(B) - Cardinality(A \cap B)
    BY <1>3, <1>4, FS_Union
  <2>2. Cardinality(A \cap B) = 0
    BY <1>2, FS_EmptySet
  <2>3. Cardinality(B) \in Nat
    BY <1>4
  <2> QED
    BY <1>3, <2>1, <2>2, <2>3
<1> QED
  BY <1>1, <1>4, <1>5 DEF SumOver

LEMMA SumOfNothing == \A c : SumOver(c, {}) = 0
<1>1. \A c : Copies(c, {}) = {}
  BY DEF Copies
<1> QED
  BY <1>1, FS_EmptySet DEF SumOver

\* The numbers of pairs satisfy the recursion, and nothing else does.
LEMMA SumExists ==
    ASSUME NEW S, IsFiniteSet(S), NEW c \in [S -> Nat]
    PROVE  SumsUp([s \in SUBSET S |-> SumOver(c, s)], c, S)
<1> DEFINE f == [s \in SUBSET S |-> SumOver(c, s)]
<1>1. ASSUME NEW s \in SUBSET S, s # {}, NEW x, x = CHOOSE y \in s : TRUE
      PROVE  f[s] = c[x] + f[s \ {x}]
  <2>1. x \in s /\ x \in S
    BY <1>1
  <2>2. SumOver(c, (s \ {x}) \cup {x}) = SumOver(c, s \ {x}) + c[x]
    BY <2>1, SumGrows
  <2>3. (s \ {x}) \cup {x} = s
    BY <2>1
  <2>4. SumOver(c, s \ {x}) \in Nat /\ c[x] \in Nat
    BY <2>1, CopiesFinite
  <2>5. SumOver(c, s) = c[x] + SumOver(c, s \ {x})
    BY <2>2, <2>3, <2>4
  <2>6. f[s] = SumOver(c, s) /\ f[s \ {x}] = SumOver(c, s \ {x})
    OBVIOUS
  <2> QED
    BY <2>5, <2>6
<1>2. f[{}] = 0
  BY SumOfNothing
<1> QED
  BY <1>1, <1>2 DEF SumsUp

LEMMA SumUnique ==
    ASSUME NEW S, IsFiniteSet(S), NEW c \in [S -> Nat], NEW f, SumsUp(f, c, S)
    PROVE  f[S] = SumOver(c, S)
<1> DEFINE Wrong == {n \in Nat : \E s \in SUBSET S :
                        Cardinality(s) = n /\ f[s] # SumOver(c, s)}
<1>1. ASSUME NEW n \in Wrong PROVE \E m \in Wrong : m < n
  <2>1. PICK s \in SUBSET S : Cardinality(s) = n /\ f[s] # SumOver(c, s)
    OBVIOUS
  <2>2. PICK x : x = CHOOSE y \in s : TRUE
    OBVIOUS
  <2>3. s # {}
    BY <2>1, SumOfNothing DEF SumsUp
  <2>4. x \in s /\ x \in S
    BY <2>2, <2>3
  <2>5. f[s] = c[x] + f[s \ {x}]
    BY <2>2, <2>3 DEF SumsUp
  <2>6. SumOver(c, s) = c[x] + SumOver(c, s \ {x})
    <3>1. SumsUp([t \in SUBSET S |-> SumOver(c, t)], c, S)
      BY SumExists
    <3> DEFINE g == [t \in SUBSET S |-> SumOver(c, t)]
    <3>2. g[s] = c[x] + g[s \ {x}]
      BY <2>2, <2>3, <3>1 DEF SumsUp
    <3> QED
      BY <3>2
  <2>7. IsFiniteSet(s) /\ Cardinality(s) \in Nat
    BY FS_Subset, FS_CardinalityType
  <2>8. Cardinality(s \ {x}) = n - 1 /\ n - 1 \in Nat
    <3>1. n \in Nat /\ n # 0
      BY <2>1, <2>3, <2>7, FS_EmptySet
    <3>2. Cardinality(s \ {x}) = n - 1
      BY <2>1, <2>4, <2>7, FS_RemoveElement
    <3> QED
      BY <3>1, <3>2
  <2>9. n - 1 \in Wrong /\ n - 1 < n
    BY <2>1, <2>5, <2>6, <2>8
  <2> QED
    BY <2>9
<1>2. Wrong = {}
  <2> HIDE DEF Wrong
  <2>1. Wrong \in SUBSET Nat
    BY DEF Wrong
  <2> QED
    BY <1>1, <2>1, NoLeast
<1>3. Cardinality(S) \in Nat
  BY FS_CardinalityType
<1> QED
  BY <1>2, <1>3

\* The next number adds its share.
LEMMA SumStep ==
    ASSUME NEW n \in Nat, NEW S, IsFiniteSet(S), 1 .. n + 1 \subseteq S, NEW c \in [S -> Nat]
    PROVE  SumOver(c, 1 .. n + 1) = SumOver(c, 1 .. n) + c[n + 1]
<1>1. PICK x : x = n + 1
  OBVIOUS
<1>2. PICK t : t = 1 .. n
  OBVIOUS
<1>3. 1 .. n + 1 = t \cup {x} /\ x \notin t
  BY <1>1, <1>2
<1>4. x \in S /\ t \in SUBSET S
  BY <1>1, <1>2, <1>3
<1>5. SumOver(c, t \cup {x}) = SumOver(c, t) + c[x]
  BY <1>3, <1>4, SumGrows
<1> QED
  BY <1>1, <1>2, <1>3, <1>5

\* Only the elements of the set count.
LEMMA SumSame ==
    ASSUME NEW s, NEW c, NEW d, \A x \in s : c[x] = d[x]
    PROVE  SumOver(c, s) = SumOver(d, s)
<1>1. Copies(c, s) = Copies(d, s)
  BY DEF Copies
<1> QED
  BY <1>1 DEF SumOver

\* One share more or less shows in the sum as it is.
LEMMA SumChanges ==
    ASSUME NEW S, IsFiniteSet(S), NEW c \in [S -> Nat], NEW d \in [S -> Nat],
           NEW z \in S, \A x \in S \ {z} : d[x] = c[x]
    PROVE  SumOver(d, S) = (SumOver(c, S) - c[z]) + d[z]
<1> DEFINE s == S \ {z}
<1>1. S = s \cup {z} /\ z \notin s /\ s \in SUBSET S
  OBVIOUS
<1>2. SumOver(d, s) = SumOver(c, s)
  BY SumSame
<1> HIDE DEF s
<1>3. SumOver(c, s \cup {z}) = SumOver(c, s) + c[z]
  BY <1>1, SumGrows
<1>4. SumOver(d, s \cup {z}) = SumOver(d, s) + d[z]
  BY <1>1, SumGrows
<1>5. SumOver(c, s) \in Nat /\ c[z] \in Nat /\ d[z] \in Nat
  BY <1>1, CopiesFinite
<1> QED
  BY <1>1, <1>2, <1>3, <1>4, <1>5

-----------------------------------------------------------------------------
(* Counters that wrap.                                                     *)

LEMMA DivMod ==
    ASSUME NEW a \in Int, NEW m \in Nat \ {0}
    PROVE  \E q \in Int, r \in Int :
              a = (q * m) + r /\ 0 <= r /\ r < m /\ a % m = r
<1>1. a = ((a \div m) * m) + (a % m)
  BY SMT
<1>2. a \div m \in Int /\ a % m \in Int /\ 0 <= a % m /\ a % m < m
  BY SMT
<1> QED
  BY <1>1, <1>2

LEMMA ModIs ==
    ASSUME NEW a \in Int, NEW m \in Nat \ {0}, NEW q \in Int, NEW r \in Int,
           a = (q * m) + r, 0 <= r, r < m
    PROVE  a % m = r
BY SMT

\* Whole turns of a counter do not show.
LEMMA ModTurns ==
    ASSUME NEW m \in Nat \ {0}, NEW a \in Int, NEW b \in Int, NEW k \in Int,
           a = b + (k * m)
    PROVE  a % m = b % m
<1>1. PICK q \in Int, r \in Int : b = (q * m) + r /\ 0 <= r /\ r < m /\ b % m = r
  BY DivMod
<1>2. PICK p \in Int : p = q + k
  OBVIOUS
<1>3. a = (p * m) + r
  BY <1>1, <1>2, SMT
<1>4. a % m = r
  BY <1>1, <1>3, ModIs
<1> QED
  BY <1>1, <1>4

\* Wrapping on the way to a sum or a difference does not show at its end.
LEMMA ModAdd ==
    ASSUME NEW m \in Nat \ {0}, NEW a \in Int, NEW b \in Int
    PROVE  ((a % m) + b) % m = (a + b) % m
<1>1. PICK q \in Int, r \in Int : a = (q * m) + r /\ 0 <= r /\ r < m /\ a % m = r
  BY DivMod
<1>2. PICK c \in Int, d \in Int : c = a + b /\ d = r + b
  BY <1>1
<1>3. c = d + (q * m)
  BY <1>1, <1>2, SMT
<1>4. c % m = d % m
  BY <1>3, ModTurns
<1> QED
  BY <1>1, <1>2, <1>4

LEMMA ModSubtract ==
    ASSUME NEW m \in Nat \ {0}, NEW a \in Int, NEW b \in Int
    PROVE  (b - (a % m)) % m = (b - a) % m
<1>1. PICK q \in Int, r \in Int : a = (q * m) + r /\ 0 <= r /\ r < m /\ a % m = r
  BY DivMod
<1>2. PICK e \in Int, f \in Int, p \in Int : e = b - r /\ f = b - a /\ p = 0 - q
  BY <1>1
<1>3. f = e + (p * m)
  BY <1>1, <1>2, SMT
<1>4. f % m = e % m
  BY <1>3, ModTurns
<1> QED
  BY <1>1, <1>2, <1>4
=============================================================================
