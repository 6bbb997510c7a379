---------------------------- MODULE BenchProofs -----------------------------
(***************************************************************************)
(* What holds of the benchmark for any number of event loops and requests, *)
(* and of the clients that its threads construct and destroy at once:      *)
(* global_mutex keeps libcurl set up while any client exists, although     *)
(* libcurl's own count is not atomic.                                      *)
(***************************************************************************)
EXTENDS Bench, FiniteSetTheorems, TLAPS

-----------------------------------------------------------------------------
(* GlobalInit, for every set of threads.                                   *)

(* The invariant holds at first: no thread has a client.                   *)
LEMMA LibraryInitInv == LibraryInit => LibraryInv
<1> SUFFICES ASSUME LibraryInit PROVE LibraryInv
  OBVIOUS
<1> USE DEF LibraryInit
<1>1. LibraryTypeOK
  BY DEF LibraryTypeOK, Stations
<1>2. Using = {}
  BY DEF Using
<1>3. OwnerCounts /\ CountIsFresh
  BY ThreadsAssumption DEF OwnerCounts, CountIsFresh, Locked
<1>4. UsersCounted /\ LibraryUp
  BY <1>2, FS_EmptySet DEF UsersCounted, LibraryUp
<1>5. QED
  BY <1>1, <1>3, <1>4 DEF LibraryInv

(* The threads with a client are finitely many, and t comes or goes alone. *)
LEMMA UsingCount ==
  ASSUME LibraryTypeOK, NEW t \in Threads
  PROVE  /\ IsFiniteSet(Using) /\ Cardinality(Using) \in Nat
         /\ Cardinality(Using) = 0 <=> Using = {}
         /\ t \notin Using => Cardinality(Using \union {t}) = Cardinality(Using) + 1
         /\ t \in Using => Cardinality(Using \ {t}) = Cardinality(Using) - 1
         /\ Cardinality(Using \ {t}) = 0 <=> Using \ {t} = {}
<1>1. IsFiniteSet(Using)
  BY ThreadsAssumption, FS_Subset DEF Using
<1>2. QED
  BY <1>1, FS_CardinalityType, FS_EmptySet, FS_AddElement, FS_RemoveElement

(* Every step keeps it: who counts is alone.                               *)
LEMMA LibraryNextInv == LibraryInv /\ [LibraryNext]_libraryVars => LibraryInv'
<1> SUFFICES ASSUME LibraryInv, [LibraryNext]_libraryVars PROVE LibraryInv'
  OBVIOUS
<1>0. LibraryTypeOK /\ OwnerCounts /\ CountIsFresh /\ UsersCounted /\ LibraryUp
  BY DEF LibraryInv
<1>1. CASE UNCHANGED libraryVars
  BY <1>0, <1>1 DEF libraryVars, LibraryInv, LibraryTypeOK, OwnerCounts,
                    CountIsFresh, UsersCounted, LibraryUp, Using
<1>2. ASSUME NEW t \in Threads, Construct(t) \/ Destruct(t)
      PROVE  LibraryInv'
  <2>1. Using' = Using
    BY <1>0, <1>2 DEF Construct, Destruct, Go, Using, LibraryTypeOK
  <2>2. LibraryTypeOK'
    BY <1>0, <1>2 DEF Construct, Destruct, Go, Take, LibraryTypeOK, Stations
  <2>3. OwnerCounts'
    BY <1>0, <1>2, ThreadsAssumption
    DEF Construct, Destruct, Go, Take, OwnerCounts, Locked, LibraryTypeOK
  <2>4. CountIsFresh'
    BY <1>0, <1>2 DEF Construct, Destruct, Go, CountIsFresh, LibraryTypeOK
  <2>5. UsersCounted' /\ LibraryUp'
    BY <1>0, <1>2, <2>1 DEF Construct, Destruct, UsersCounted, LibraryUp
  <2>6. QED
    BY <2>2, <2>3, <2>4, <2>5 DEF LibraryInv
<1>3. ASSUME NEW t \in Threads, ReadCount(t)
      PROVE  LibraryInv'
  <2>1. Using' = Using
    BY <1>0, <1>3 DEF ReadCount, Go, Using, LibraryTypeOK
  <2>2. LibraryTypeOK'
    BY <1>0, <1>3 DEF ReadCount, Go, LibraryTypeOK, Stations
  <2>3. OwnerCounts'
    BY <1>0, <1>3 DEF ReadCount, Go, OwnerCounts, Locked, LibraryTypeOK
  <2>4. CountIsFresh'
    BY <1>0, <1>3 DEF ReadCount, Go, CountIsFresh, LibraryTypeOK
  <2>5. UsersCounted' /\ LibraryUp'
    BY <1>0, <1>3, <2>1 DEF ReadCount, UsersCounted, LibraryUp
  <2>6. QED
    BY <2>2, <2>3, <2>4, <2>5 DEF LibraryInv
<1>4. ASSUME NEW t \in Threads, CountIn(t) \/ CountOut(t)
      PROVE  LibraryInv'
  (* No other thread counts: t holds the lock. *)
  <2>1. /\ at[t] \in {"counting_in", "counting_out"}
        /\ lock = t /\ seen[t] = users
        /\ \A s \in Threads \ {t} : at[s] \notin Locked
    BY <1>0, <1>4 DEF CountIn, CountOut, Go, OwnerCounts, CountIsFresh, Locked
  <2>2. LibraryTypeOK'
    <3>1. up' \in BOOLEAN
      BY <1>4, Zenon DEF CountIn, CountOut
    <3>2. users' \in Nat /\ at' \in [Threads -> Stations]
      BY <1>0, <1>4 DEF CountIn, CountOut, Go, LibraryTypeOK, Stations
    <3>3. lock' \in Threads \union {None} /\ seen' \in [Threads -> Nat]
      BY <1>0, <1>4 DEF CountIn, CountOut, LibraryTypeOK
    <3>4. QED
      BY <3>1, <3>2, <3>3 DEF LibraryTypeOK
  <2>3. OwnerCounts'
    BY <1>0, <1>4, <2>1, ThreadsAssumption
    DEF CountIn, CountOut, Go, OwnerCounts, Locked, LibraryTypeOK
  <2>4. CountIsFresh'
    BY <1>0, <1>4, <2>1
    DEF CountIn, CountOut, Go, CountIsFresh, Locked, LibraryTypeOK
  <2>5. UsersCounted' /\ LibraryUp'
    <3>1. CASE CountIn(t)
      <4>1. t \notin Using /\ Using' = Using \union {t}
        BY <1>0, <3>1 DEF CountIn, Go, Using, LibraryTypeOK
      <4>2. users' = users + 1 /\ up'
        BY <1>0, <2>1, <3>1, UsingCount DEF CountIn, UsersCounted, LibraryUp
      <4>3. QED
        BY <1>0, <4>1, <4>2, UsingCount DEF UsersCounted, LibraryUp
    <3>2. CASE CountOut(t)
      <4>1. t \in Using /\ Using' = Using \ {t}
        BY <1>0, <3>2 DEF CountOut, Go, Using, LibraryTypeOK
      <4>2. users # 0 /\ users' = users - 1 /\ (up' <=> users # 1)
        BY <1>0, <2>1, <3>2, <4>1, UsingCount DEF CountOut, UsersCounted, LibraryUp
      <4>3. QED
        BY <1>0, <4>1, <4>2, UsingCount DEF UsersCounted, LibraryUp
    <3>3. QED
      BY <1>4, <3>1, <3>2
  <2>6. QED
    BY <2>2, <2>3, <2>4, <2>5 DEF LibraryInv
<1>5. QED
  BY <1>1, <1>2, <1>3, <1>4 DEF LibraryNext, LibraryStep

(* The inductive invariant holds.                                          *)
THEOREM LibraryInvHolds == LibrarySpec => []LibraryInv
  BY LibraryInitInv, LibraryNextInv, PTL DEF LibrarySpec

(* libcurl is set up exactly while a client exists, for every number of    *)
(* threads that construct and destroy clients at once.                     *)
THEOREM LibraryStaysUp == LibrarySpec => []LibraryUp
<1>1. LibraryInv => LibraryUp
  BY DEF LibraryInv
<1>2. QED
  BY <1>1, LibraryInvHolds, PTL

-----------------------------------------------------------------------------
(* The event loops of the benchmark construct and destroy their clients as *)
(* GlobalInit says.                                                        *)

(* Each step of the benchmark is a step of GlobalInit or none of its.      *)
LEMMA StepsAreLibrarySteps == [Next]_vars => [LibraryNext]_libraryVars
<1> SUFFICES ASSUME [Next]_vars PROVE [LibraryNext]_libraryVars
  OBVIOUS
<1>1. CASE UNCHANGED vars
  BY <1>1 DEF vars
<1>2. ASSUME NEW t \in Threads, Lives(t)
      PROVE  [LibraryNext]_libraryVars
  BY <1>2 DEF Lives, LibraryNext
<1>3. ASSUME NEW t \in Threads,
             \/ Opens(t) \/ Returns(t) \/ Adds(t) \/ TakesNumber(t)
             \/ \E a \in Answers : Handler(t, a) \/ Answered(t, a)
      PROVE  UNCHANGED libraryVars
  BY <1>3 DEF Opens, Returns, Adds, TakesNumber, Handler, Answered
<1>4. CASE Reports
  BY <1>4 DEF Reports
<1>5. QED
  BY <1>1, <1>2, <1>3, <1>4 DEF Next, Works

(* The benchmark implements GlobalInit.                                    *)
THEOREM ImplementsGlobalInit == Spec => LibrarySpec
<1>1. Init => LibraryInit
  BY DEF Init
<1>2. QED
  BY <1>1, StepsAreLibrarySteps, PTL DEF Spec, LibrarySpec

(* In the benchmark libcurl is set up exactly while an event loop has its  *)
(* client, for any number of loops and requests.                           *)
THEOREM LoopsKeepLibraryUp == Spec => []LibraryUp
  BY ImplementsGlobalInit, LibraryStaysUp, PTL

-----------------------------------------------------------------------------
(* Induction over the natural numbers, without an operator parameter: a    *)
(* set that has 0 and, with each number, the next one has them all.        *)

Less == {p \in Nat \X Nat : p[1] < p[2]}

(* A set of numbers that is not empty has a least member.                  *)
LEMMA LeastNumber ==
  ASSUME NEW S \in SUBSET Nat, S # {}
  PROVE  \E n \in S : \A m \in S : n <= m
<1>1. IsWellFoundedOn(Less, Nat)
  BY NatLessThanWellFounded DEF Less, OpToRel
<1>2. PICK n \in S : \A m \in S : <<m, n>> \notin Less
  BY <1>1, WFMin
<1>3. ASSUME NEW m \in S PROVE n <= m
  <2>1. m \in Nat /\ n \in Nat /\ <<m, n>> \notin Less
    BY <1>2
  <2>2. ~(m < n)
    BY <2>1 DEF Less
  <2>3. QED
    BY <2>1, <2>2
<1>4. QED
  BY <1>3

(* The set has every number.                                               *)
LEMMA Induction ==
  ASSUME NEW S, 0 \in S, \A n \in Nat : n \in S => n + 1 \in S
  PROVE  \A n \in Nat : n \in S
<1> SUFFICES ASSUME Nat \ S # {} PROVE FALSE
  OBVIOUS
<1>1. PICK n \in Nat \ S : \A m \in Nat \ S : n <= m
  BY LeastNumber
<1>2. n # 0 /\ n - 1 \in Nat /\ n - 1 \in S
  BY <1>1
<1>3. QED
  BY <1>1, <1>2

-----------------------------------------------------------------------------
(* What SumFunction computes.  Its definition is a choice of a function on *)
(* sets of indices, which takes any index from a set.                      *)

Any(q) == CHOOSE x \in q : TRUE

(* Some index is taken, and fewer are left.                                *)
LEMMA AnyFacts ==
  ASSUME NEW T, NEW q \in SUBSET T, q # {}
  PROVE  Any(q) \in q /\ q \ {Any(q)} \in SUBSET T /\ q \ {Any(q)} # q
<1>1. Any(q) \in q
  BY DEF Any
<1>2. QED
  BY <1>1

(* Induction over the subsets of a finite set, without an operator         *)
(* parameter: K has every set that it has without some element.            *)
LEMMA SubsetInduction ==
  ASSUME NEW T, IsFiniteSet(T), NEW K, {} \in K,
         \A q \in SUBSET T : q # {} /\ q \ {Any(q)} \in K => q \in K
  PROVE  \A q \in SUBSET T : q \in K
<1> DEFINE Bad == (SUBSET T) \ K
           R == StrictSubsetOrdering(T)
<1> SUFFICES ASSUME Bad # {} PROVE FALSE
  OBVIOUS
<1>1. IsWellFoundedOn(R, SUBSET T)
  <2>1. IsWellFoundedOn(R, FiniteSubsetsOf(T))
    BY FS_StrictSubsetOrderingWellFounded
  <2>2. FiniteSubsetsOf(T) = SUBSET T
    BY FS_FiniteSubsetsOfFinite
  <2>3. QED
    BY <2>1, <2>2
<1>2. Bad \subseteq SUBSET T
  OBVIOUS
<1> HIDE DEF R
<1>3. PICK q \in Bad : \A r \in Bad : ~ (<<r, q>> \in R)
  BY <1>1, <1>2, WFMin
<1>4. q \in SUBSET T /\ q # {} /\ q \notin K
  BY <1>3
<1>5. q \ {Any(q)} \in SUBSET T /\ q \ {Any(q)} # q
  BY <1>4, AnyFacts
<1>6. <<q \ {Any(q)}, q>> \in R
  BY <1>4, <1>5 DEF R, StrictSubsetOrdering
<1>7. q \ {Any(q)} \notin Bad
  BY <1>3, <1>6
<1>8. QED
  BY <1>4, <1>5, <1>7

(* One step of the sum, as a function of the sums of fewer indices.        *)
Sums(f, g, T) ==
  [q \in SUBSET T |-> IF q = {} THEN 0 ELSE f[Any(q)] + g[q \ {Any(q)}]]

Summing(f, g, T) == g = Sums(f, g, T)

(* The sums of a finite function are integers ...                          *)
LEMMA SummingType ==
  ASSUME NEW T, IsFiniteSet(T), NEW f \in [T -> Int], NEW g, Summing(f, g, T)
  PROVE  \A q \in SUBSET T : g[q] \in Int
<1> DEFINE K == {q \in SUBSET T : g[q] \in Int}
<1>1. {} \in K
  BY DEF Summing, Sums
<1>2. ASSUME NEW q \in SUBSET T, q # {}, q \ {Any(q)} \in K
      PROVE  q \in K
  <2>1. g[q] = f[Any(q)] + g[q \ {Any(q)}]
    BY <1>2 DEF Summing, Sums
  <2>2. f[Any(q)] \in Int /\ g[q \ {Any(q)}] \in Int
    BY <1>2, AnyFacts
  <2>3. QED
    BY <2>1, <2>2
<1> HIDE DEF K
<1>3. \A q \in SUBSET T : q \in K
  BY <1>1, <1>2, SubsetInduction
<1>4. QED
  BY <1>3 DEF K

(* ... and exist: where sums of up to k indices are right, one more step   *)
(* makes those of k + 1 right too.                                         *)
LEMMA SummingExists ==
  ASSUME NEW T, IsFiniteSet(T), NEW f \in [T -> Int]
  PROVE  \E g : Summing(f, g, T)
<1> DEFINE Right(g, k) == \A q \in SUBSET T :
                            Cardinality(q) <= k => g[q] = Sums(f, g, T)[q]
           S == {k \in Nat : \E g : Right(g, k)}
<1>1. \A q \in SUBSET T : /\ Cardinality(q) \in Nat
                          /\ Cardinality(q) = 0 <=> q = {}
                          /\ Cardinality(q) <= Cardinality(T)
  <2>1. \A q \in SUBSET T : IsFiniteSet(q) /\ Cardinality(q) <= Cardinality(T)
    BY FS_Subset
  <2>2. QED
    BY <2>1, FS_CardinalityType, FS_EmptySet
<1>2. \A q \in SUBSET T : q # {} =>
        Cardinality(q \ {Any(q)}) = Cardinality(q) - 1
  <2>1. \A q \in SUBSET T : IsFiniteSet(q)
    BY FS_Subset
  <2>2. QED
    BY <2>1, AnyFacts, FS_RemoveElement
<1>3. 0 \in S
  <2> DEFINE g == [q \in SUBSET T |-> 0]
  <2>1. Right(g, 0)
    BY <1>1 DEF Sums
  <2>2. QED
    BY <2>1
<1>4. ASSUME NEW k \in Nat, k \in S
      PROVE  k + 1 \in S
  <2>1. PICK g : Right(g, k)
    BY <1>4
  <2> DEFINE h == Sums(f, g, T)
  <2>2. ASSUME NEW q \in SUBSET T, Cardinality(q) <= k + 1
        PROVE  h[q] = Sums(f, h, T)[q]
    <3>1. CASE q = {}
      BY <3>1 DEF Sums
    <3>2. CASE q # {}
      <4> DEFINE r == q \ {Any(q)}
      <4>1. r \in SUBSET T /\ Cardinality(r) <= k
        <5>1. Cardinality(r) = Cardinality(q) - 1
          BY <1>2, <3>2
        <5>2. QED
          BY <1>1, <2>2, <3>2, <5>1, AnyFacts
      <4>2. g[r] = h[r]
        BY <2>1, <4>1
      <4>3. h[q] = f[Any(q)] + g[r]
        BY <3>2 DEF Sums
      <4>4. Sums(f, h, T)[q] = f[Any(q)] + h[r]
        BY <3>2 DEF Sums
      <4>5. QED
        BY <4>2, <4>3, <4>4
    <3>3. QED
      BY <3>1, <3>2
  <2> HIDE DEF h
  <2>3. Right(h, k + 1)
    BY <2>2
  <2> HIDE DEF Right
  <2>4. QED
    BY <2>3
<1> HIDE DEF S
<1>5. Cardinality(T) \in S
  <2>1. Cardinality(T) \in Nat
    BY FS_CardinalityType
  <2>2. \A k \in Nat : k \in S
    BY <1>3, <1>4, Induction
  <2>3. QED
    BY <2>1, <2>2
<1>6. PICK g : Right(g, Cardinality(T))
  BY <1>5 DEF S
<1> DEFINE h == Sums(f, g, T)
<1>7. \A q \in SUBSET T : g[q] = h[q]
  BY <1>1, <1>6
<1>8. Sums(f, h, T) = h
  <2>1. ASSUME NEW q \in SUBSET T, q # {}
        PROVE  g[q \ {Any(q)}] = h[q \ {Any(q)}]
    BY <1>7, <2>1, AnyFacts
  <2>2. \A q \in SUBSET T :
          (IF q = {} THEN 0 ELSE f[Any(q)] + g[q \ {Any(q)}]) =
          (IF q = {} THEN 0 ELSE f[Any(q)] + h[q \ {Any(q)}])
    BY <2>1
  <2> HIDE DEF h
  <2>3. Sums(f, g, T) = Sums(f, h, T)
    BY <2>2 DEF Sums
  <2>4. QED
    BY <2>3 DEF h
<1>9. QED
  BY <1>8 DEF Summing

(* SumFunction is such a sum, over the whole domain.                       *)
LEMMA SumIs ==
  ASSUME NEW T, IsFiniteSet(T), NEW f \in [T -> Int]
  PROVE  \E g : Summing(f, g, T) /\ SumFunction(f) = g[T]
<1> DEFINE c == CHOOSE g : Summing(f, g, T)
<1>1. Summing(f, c, T)
  BY SummingExists
<1>2. SumFunction(f) = c[T]
  <2>1. DOMAIN f = T
    OBVIOUS
  <2>2. QED
    BY <2>1 DEF SumFunction, SumFunctionOnSet, FoldFunctionOnSet,
                MapThenFoldSet, Summing, Sums, Any
<1> HIDE DEF c
<1>3. QED
  BY <1>1, <1>2

Plus(T, f, g, h) ==
  /\ f \in [T -> Int] /\ g \in [T -> Int] /\ h \in [T -> Int]
  /\ \A t \in T : h[t] = f[t] + g[t]

(* Sums add up index by index.                                             *)
LEMMA SumPlus ==
  ASSUME NEW T, IsFiniteSet(T), NEW f, NEW g, NEW h, Plus(T, f, g, h)
  PROVE  SumFunction(h) = SumFunction(f) + SumFunction(g)
<1>0. /\ f \in [T -> Int] /\ g \in [T -> Int] /\ h \in [T -> Int]
      /\ \A t \in T : h[t] = f[t] + g[t]
  BY DEF Plus
<1>1. PICK F : Summing(f, F, T) /\ SumFunction(f) = F[T]
  BY <1>0, SumIs
<1>2. PICK G : Summing(g, G, T) /\ SumFunction(g) = G[T]
  BY <1>0, SumIs
<1>3. PICK H : Summing(h, H, T) /\ SumFunction(h) = H[T]
  BY <1>0, SumIs
<1> DEFINE K == {q \in SUBSET T : H[q] = F[q] + G[q]}
<1>4. {} \in K
  BY <1>1, <1>2, <1>3 DEF Summing, Sums
<1>5. ASSUME NEW q \in SUBSET T, q # {}, q \ {Any(q)} \in K
      PROVE  q \in K
  <2> DEFINE x == Any(q)
             r == q \ {Any(q)}
  <2>1. x \in T /\ r \in SUBSET T
    BY <1>5, AnyFacts
  <2>2. /\ F[q] = f[x] + F[r] /\ G[q] = g[x] + G[r] /\ H[q] = h[x] + H[r]
    BY <1>1, <1>2, <1>3, <1>5 DEF Summing, Sums
  <2>3. F[r] \in Int /\ G[r] \in Int
    BY <1>0, <1>1, <1>2, <2>1, SummingType
  <2>4. H[r] = F[r] + G[r] /\ h[x] = f[x] + g[x]
    BY <1>0, <1>5, <2>1
  <2>5. f[x] \in Int /\ g[x] \in Int
    BY <1>0, <2>1
  <2> HIDE DEF x, r
  <2>6. H[q] = F[q] + G[q]
    BY <2>2, <2>3, <2>4, <2>5
  <2>7. QED
    BY <2>6
<1> HIDE DEF K
<1>6. \A q \in SUBSET T : q \in K
  BY <1>4, <1>5, SubsetInduction
<1>7. T \in K
  BY <1>6
<1>8. QED
  BY <1>1, <1>2, <1>3, <1>7 DEF K

(* A sum of smaller numbers is smaller.                                    *)
LEMMA SumMonotone ==
  ASSUME NEW T, IsFiniteSet(T), NEW f \in [T -> Int], NEW g \in [T -> Int],
         \A t \in T : f[t] <= g[t]
  PROVE  SumFunction(f) <= SumFunction(g)
<1>1. PICK F : Summing(f, F, T) /\ SumFunction(f) = F[T]
  BY SumIs
<1>2. PICK G : Summing(g, G, T) /\ SumFunction(g) = G[T]
  BY SumIs
<1> DEFINE K == {q \in SUBSET T : F[q] <= G[q]}
<1>4. {} \in K
  BY <1>1, <1>2 DEF Summing, Sums
<1>5. ASSUME NEW q \in SUBSET T, q # {}, q \ {Any(q)} \in K
      PROVE  q \in K
  <2> DEFINE x == Any(q)
             r == q \ {Any(q)}
  <2>1. x \in T /\ r \in SUBSET T
    BY <1>5, AnyFacts
  <2>2. F[q] = f[x] + F[r] /\ G[q] = g[x] + G[r]
    BY <1>1, <1>2, <1>5 DEF Summing, Sums
  <2>3. F[r] \in Int /\ G[r] \in Int
    BY <1>1, <1>2, <2>1, SummingType
  <2>4. F[r] <= G[r] /\ f[x] <= g[x]
    BY <1>5, <2>1
  <2>5. f[x] \in Int /\ g[x] \in Int
    BY <2>1
  <2> HIDE DEF x, r
  <2>6. F[q] <= G[q]
    BY <2>2, <2>3, <2>4, <2>5
  <2>7. QED
    BY <2>6
<1> HIDE DEF K
<1>6. \A q \in SUBSET T : q \in K
  BY <1>4, <1>5, SubsetInduction
<1>7. T \in K
  BY <1>6
<1>8. QED
  BY <1>1, <1>2, <1>7 DEF K

(* A sum is an integer.                                                    *)
LEMMA SumType ==
  ASSUME NEW T, IsFiniteSet(T), NEW f \in [T -> Int]
  PROVE  SumFunction(f) \in Int
<1>1. PICK F : Summing(f, F, T) /\ SumFunction(f) = F[T]
  BY SumIs
<1>2. QED
  BY <1>1, SummingType

Constant(T, A, w, f) ==
  f \in [T -> Int] /\ \A t \in T : f[t] = IF t \in A THEN w ELSE 0

(* w at each of some indices is w times their number.                      *)
LEMMA SumOfConstant ==
  ASSUME NEW T, IsFiniteSet(T), NEW A \in SUBSET T, NEW w \in Int, NEW f,
         Constant(T, A, w, f)
  PROVE  SumFunction(f) = w * Cardinality(A)
<1> DEFINE Count(q) == Cardinality(q \intersect A)
<1>0. f \in [T -> Int] /\ \A t \in T : f[t] = IF t \in A THEN w ELSE 0
  BY DEF Constant
<1>1. \A q \in SUBSET T : IsFiniteSet(q \intersect A)
  <2>1. \A q \in SUBSET T : q \intersect A \in SUBSET T
    OBVIOUS
  <2>2. QED
    BY <2>1, FS_Subset
<1>2. \A q \in SUBSET T : Count(q) \in Nat
  BY <1>1, FS_CardinalityType
<1>3. \A q \in SUBSET T : q # {} =>
        Count(q) = Count(q \ {Any(q)}) + (IF Any(q) \in A THEN 1 ELSE 0)
  <2> SUFFICES ASSUME NEW q \in SUBSET T, q # {}
               PROVE  Count(q) = Count(q \ {Any(q)})
                                   + (IF Any(q) \in A THEN 1 ELSE 0)
    OBVIOUS
  <2>1. Any(q) \in q /\ q \ {Any(q)} \in SUBSET T
    BY AnyFacts
  <2>2. (q \ {Any(q)}) \intersect A = (q \intersect A) \ {Any(q)}
    OBVIOUS
  <2>3. Any(q) \in q \intersect A <=> Any(q) \in A
    BY <2>1
  <2>4. Cardinality((q \intersect A) \ {Any(q)}) =
          IF Any(q) \in q \intersect A THEN Cardinality(q \intersect A) - 1
                                       ELSE Cardinality(q \intersect A)
    BY <1>1, FS_RemoveElement
  <2>5. Cardinality(q \intersect A) \in Nat
    BY <1>2
  <2>6. QED
    BY <2>2, <2>3, <2>4, <2>5
<1> HIDE DEF Count
<1>4. PICK F : Summing(f, F, T) /\ SumFunction(f) = F[T]
  BY <1>0, SumIs
<1> DEFINE K == {q \in SUBSET T : F[q] = w * Count(q)}
<1>5. {} \in K
  <2>1. F[{}] = 0
    BY <1>4 DEF Summing, Sums
  <2>2. Count({}) = 0
    <3>1. {} \intersect A = {}
      OBVIOUS
    <3>2. QED
      BY <3>1, FS_EmptySet DEF Count
  <2>3. w * 0 = 0
    OBVIOUS
  <2>4. QED
    BY <2>1, <2>2, <2>3
<1>6. ASSUME NEW q \in SUBSET T, q # {}, q \ {Any(q)} \in K
      PROVE  q \in K
  <2> DEFINE x == Any(q)
             r == q \ {Any(q)}
  <2>1. x \in T /\ r \in SUBSET T
    BY <1>6, AnyFacts
  <2>2. F[q] = f[x] + F[r]
    BY <1>4, <1>6 DEF Summing, Sums
  <2>3. F[r] = w * Count(r) /\ Count(r) \in Nat
    BY <1>2, <1>6, <2>1
  <2>4. Count(q) = Count(r) + (IF x \in A THEN 1 ELSE 0)
    BY <1>3, <1>6
  <2>5. f[x] = IF x \in A THEN w ELSE 0
    BY <1>0, <2>1
  <2> HIDE DEF x, r
  <2>6. \A n \in Nat : w * (n + 1) = w + w * n /\ w * n \in Int
    OBVIOUS
  <2>7. F[q] = w * Count(q)
    BY <2>2, <2>3, <2>4, <2>5, <2>6
  <2>8. QED
    BY <2>7
<1> HIDE DEF K
<1>7. \A q \in SUBSET T : q \in K
  BY <1>5, <1>6, SubsetInduction
<1>8. F[T] = w * Count(T)
  BY <1>7 DEF K
<1>9. Count(T) = Cardinality(A)
  <2>1. T \intersect A = A
    OBVIOUS
  <2>2. QED
    BY <2>1 DEF Count
<1>10. QED
  BY <1>4, <1>8, <1>9

(* Where functions differ at one index, their sums differ by as much.      *)
LEMMA SumChange ==
  ASSUME NEW T, IsFiniteSet(T), NEW f \in [T -> Int], NEW h \in [T -> Int],
         NEW t \in T, \A s \in T \ {t} : h[s] = f[s]
  PROVE  SumFunction(h) = SumFunction(f) + (h[t] - f[t])
<1> DEFINE w == h[t] - f[t]
           g == [s \in T |-> IF s \in {t} THEN w ELSE 0]
<1>1. w \in Int /\ f[t] \in Int /\ h[t] \in Int
  OBVIOUS
<1>2. g \in [T -> Int]
  BY <1>1
<1>3. \A s \in T : h[s] = f[s] + g[s]
  <2> SUFFICES ASSUME NEW s \in T PROVE h[s] = f[s] + g[s]
    OBVIOUS
  <2>1. CASE s = t
    BY <1>1, <2>1
  <2>2. CASE s # t
    <3>1. g[s] = 0 /\ h[s] = f[s] /\ f[s] \in Int
      BY <2>2
    <3>2. QED
      BY <3>1
  <2>3. QED
    BY <2>1, <2>2
<1>4. SumFunction(g) = w * 1
  <2>1. {t} \in SUBSET T /\ Cardinality({t}) = 1
    BY FS_Singleton
  <2>2. QED
    BY <1>1, <1>2, <2>1, SumOfConstant DEF Constant
<1> HIDE DEF w, g
<1>5. SumFunction(h) = SumFunction(f) + SumFunction(g)
  BY <1>2, <1>3, SumPlus DEF Plus
<1>6. w * 1 = w
  BY <1>1
<1>7. SumFunction(g) = w
  BY <1>4, <1>6
<1>8. QED
  BY <1>5, <1>7 DEF w

(* Zeros sum up to zero.                                                   *)
LEMMA SumOfZeros ==
  ASSUME NEW T, IsFiniteSet(T), NEW f, f = [t \in T |-> 0]
  PROVE  SumFunction(f) = 0
<1>1. Constant(T, {}, 0, f)
  BY DEF Constant
<1>2. SumFunction(f) = 0 * Cardinality({})
  BY <1>1, SumOfConstant
<1>3. Cardinality({}) = 0 /\ 0 * 0 = 0
  BY FS_EmptySet
<1>4. QED
  BY <1>2, <1>3

-----------------------------------------------------------------------------
(* The counters of the event loops, for any number of loops, requests and  *)
(* any concurrency.                                                        *)

(* A quotient is a number, a remainder less than the divisor.              *)
LEMMA Division ==
  \A n \in Nat, d \in Nat \ {0} : n \div d \in Nat /\ n % d \in 0..(d - 1)
<1>1. \A n \in Nat, d \in Nat \ {0} : n \div d \in Nat
  BY Z3
<1>2. \A n \in Nat, d \in Nat \ {0} : n % d \in 0..(d - 1)
  BY Z3
<1>3. QED
  BY <1>1, <1>2

(* The greater of two integers.                                            *)
LEMMA MaxOfTwo ==
  ASSUME NEW a \in Int, NEW b \in Int
  PROVE  Max({a, b}) = IF a > b THEN a ELSE b
<1>1. PICK m \in {a, b} : \A x \in {a, b} : m >= x
  OBVIOUS
<1>2. Max({a, b}) \in {a, b} /\ \A x \in {a, b} : Max({a, b}) >= x
  BY <1>1 DEF Max
<1>3. QED
  BY <1>2

(* The smaller of two integers.                                            *)
LEMMA MinOfTwo ==
  ASSUME NEW a \in Int, NEW b \in Int
  PROVE  Min({a, b}) = IF a < b THEN a ELSE b
<1>1. PICK m \in {a, b} : \A x \in {a, b} : m <= x
  OBVIOUS
<1>2. Min({a, b}) \in {a, b} /\ \A x \in {a, b} : Min({a, b}) <= x
  BY <1>1 DEF Min
<1>3. QED
  BY <1>2

(* The arguments give every loop a share of the requests and a window.     *)
LEMMA SharesAndWindows ==
  ASSUME args \in Args
  PROVE  /\ Threads \subseteq Nat
         /\ args.scenario \in Scenarios /\ args.total \in Nat
         /\ Window \in Nat
         /\ \A t \in Threads : Share(t) \in Nat
<1>1. /\ args.scenario \in Scenarios /\ args.total \in Totals
      /\ args.concurrency \in Concurrencies /\ args.loops \in Threads
  BY DEF Args
<1>2. args.total \in Nat /\ args.concurrency \in Nat
  BY <1>1, ArgumentsAssumption
<1>3. Cardinality(Threads) \in Nat
  BY ThreadsAssumption, FS_CardinalityType
<1>4. Threads \subseteq Nat /\ args.loops \in Nat \ {0}
  BY <1>1, <1>3, ArgumentsAssumption
<1>5. Window \in Nat
  BY <1>2, <1>4, Division DEF Window
<1>6. args.total \div args.loops \in Nat
  BY <1>2, <1>4, Division
<1>7. \A t \in Threads : Share(t) \in Nat
  BY <1>6 DEF Share
<1>8. QED
  BY <1>1, <1>2, <1>4, <1>5, <1>7

(* A refill launches a number of requests.                                 *)
LEMMA RefillType ==
  ASSUME TypeOK, NEW t \in Threads, NEW pending \in Nat, NEW answered \in Nat
  PROVE  Refill(t, pending, answered) \in Nat
<1>1. Window \in Nat /\ Share(t) \in Nat /\ launched[t] \in Nat
  BY SharesAndWindows DEF TypeOK
<1> DEFINE room == Window - pending
           left == Share(t) - launched[t]
<1>2. room \in Int /\ left \in Int
  BY <1>1
<1> HIDE DEF room, left
<1>3. Min({room, left}) \in Int
  BY <1>2, MinOfTwo
<1>4. Max({0, Min({room, left})}) \in Nat
  BY <1>3, MaxOfTwo
<1>5. QED
  BY <1>4 DEF Refill, room, left

(* A refill that finds a window full up to the answer just counted, or one *)
(* that starts from nothing, leaves it full.                               *)
LEMMA RefillFills ==
  ASSUME TypeOK, args.scenario = "refill", NEW t \in Threads,
         NEW pending \in Nat, NEW answered \in Nat,
         launched[t] = pending + answered,
         pending <= Window, launched[t] <= Share(t)
  PROVE  pending + Refill(t, pending, answered)
           = Min({Window, Share(t) - answered})
<1>1. Window \in Nat /\ Share(t) \in Nat
  BY SharesAndWindows DEF TypeOK
<1> DEFINE room == Window - pending
           left == Share(t) - launched[t]
<1>2. /\ room \in Int /\ left \in Int /\ room >= 0
      /\ room = Window - pending
      /\ left = Share(t) - (pending + answered)
  BY <1>1
<1> HIDE DEF room, left
<1>3. Min({room, left}) = IF room < left THEN room ELSE left
  BY <1>2, MinOfTwo
<1>4. Max({0, Min({room, left})}) =
        IF Min({room, left}) < 0 THEN 0 ELSE Min({room, left})
  <2>1. Min({room, left}) \in Int
    BY <1>2, <1>3
  <2>2. QED
    BY <2>1, MaxOfTwo
<1>5. Refill(t, pending, answered) = Max({0, Min({room, left})})
  BY DEF Refill, room, left
<1>6. Min({Window, Share(t) - answered}) =
        IF Window < Share(t) - answered THEN Window ELSE Share(t) - answered
  BY <1>1, MinOfTwo
<1>7. QED
  BY <1>1, <1>2, <1>3, <1>4, <1>5, <1>6

-----------------------------------------------------------------------------

(* It holds at first: no thread has launched anything.                     *)
LEMMA WindowInvInit == Init => WindowInv
<1> SUFFICES ASSUME Init PROVE WindowInv
  OBVIOUS
<1>1. LibraryTypeOK
  BY LibraryInitInv DEF Init, LibraryInv
<1>2. TypeOK
  BY <1>1 DEF Init, TypeOK
<1>3. FreshInv /\ LaunchedInv /\ WindowsFull
  BY DEF Init, FreshInv, LaunchedInv, WindowsFull
<1>4. QED
  BY <1>2, <1>3 DEF WindowInv

(* Each step keeps the counters natural numbers.                           *)
LEMMA TypeStep == LibraryInv /\ TypeOK /\ [Next]_vars => TypeOK'
<1> SUFFICES ASSUME LibraryInv, TypeOK, [Next]_vars PROVE TypeOK'
  OBVIOUS
<1>1. LibraryTypeOK'
  BY StepsAreLibrarySteps, LibraryNextInv DEF LibraryInv
<1>2. CASE UNCHANGED vars
  BY <1>1, <1>2 DEF vars, workVars, TypeOK
<1>3. ASSUME NEW t \in Threads, Opens(t)
      PROVE  TypeOK'
  <2>1. FirstRefill(t) \in Nat
    BY RefillType DEF FirstRefill
  <2>2. QED
    BY <1>1, <1>3, <2>1 DEF Opens, Become, TypeOK
<1>4. ASSUME NEW t \in Threads, NEW a \in Answers, Handler(t, a)
      PROVE  TypeOK'
  <2>1. in_flight[t] - 1 \in Nat /\ done[t] + 1 \in Nat
    BY <1>4 DEF Handler, TypeOK
  <2>2. PICK more \in Nat :
          /\ in_flight' = [in_flight EXCEPT ![t] = @ - 1 + more]
          /\ launched' = [launched EXCEPT ![t] = @ + more]
    BY <1>4, <2>1, RefillType DEF Handler
  <2>3. in_flight' \in [Threads -> Nat] /\ launched' \in [Threads -> Nat]
    BY <2>1, <2>2 DEF TypeOK
  <2>4. QED
    BY <1>1, <1>4, <2>3 DEF Handler, TypeOK
<1>5. ASSUME NEW t \in Threads, Returns(t) \/ Adds(t)
      PROVE  TypeOK'
  BY <1>1, <1>5 DEF Returns, Adds, Add, Become, TypeOK
<1>6. ASSUME NEW t \in Threads, Lives(t)
      PROVE  TypeOK'
  BY <1>1, <1>6 DEF Lives, workVars, TypeOK
<1>7. ASSUME NEW t \in Threads, TakesNumber(t)
      PROVE  TypeOK'
  BY <1>1, <1>7 DEF TakesNumber, Become, TypeOK
<1>8. ASSUME NEW t \in Threads, NEW a \in Answers, Answered(t, a)
      PROVE  TypeOK'
  BY <1>1, <1>8 DEF Answered, Add, TypeOK
<1>9. CASE Reports
  BY <1>1, <1>9 DEF Reports, TypeOK
<1>10. QED
  BY <1>2, <1>3, <1>4, <1>5, <1>6, <1>7, <1>8, <1>9 DEF Next, Works

(* Each step keeps what a loop launched in flight or done, and its window  *)
(* full.                                                                   *)
LEMMA WindowStep ==
  WindowInv /\ TypeOK' /\ [Next]_vars => (FreshInv /\ LaunchedInv /\ WindowsFull)'
<1> SUFFICES ASSUME WindowInv, TypeOK', [Next]_vars
             PROVE  FreshInv' /\ LaunchedInv' /\ WindowsFull'
  OBVIOUS
<1>0. TypeOK /\ FreshInv /\ LaunchedInv /\ WindowsFull
  BY DEF WindowInv
<1>1. CASE UNCHANGED <<args, stage, in_flight, launched, done>>
  BY <1>0, <1>1 DEF FreshInv, LaunchedInv, WindowsFull, Window, Share
<1> DEFINE Kept(s) ==
      /\ stage'[s] = stage[s] /\ in_flight'[s] = in_flight[s]
      /\ launched'[s] = launched[s] /\ done'[s] = done[s]
    SameArgs == /\ args' = args /\ Window' = Window
                /\ \A s \in Threads : Share(s)' = Share(s)
(* It is enough to look at the thread that stepped. *)
<1>2. ASSUME NEW t \in Threads, args' = args,
             \A s \in Threads \ {t} : Kept(s),
             stage'[t] # "new",
             stage'[t] = "running" =>
               /\ launched'[t] = done'[t] + in_flight'[t]
               /\ args.scenario = "refill" =>
                    in_flight'[t] = Min({Window, Share(t) - done'[t]})
      PROVE  FreshInv' /\ LaunchedInv' /\ WindowsFull'
  <2>1. Window' = Window /\ \A s \in Threads : Share(s)' = Share(s)
    BY <1>2 DEF Window, Share
  <2>2. FreshInv' /\ LaunchedInv'
    BY <1>0, <1>2 DEF FreshInv, LaunchedInv
  <2>3. WindowsFull'
    BY <1>0, <1>2, <2>1 DEF WindowsFull
  <2>4. QED
    BY <2>2, <2>3
<1>3. ASSUME NEW t \in Threads, Opens(t)
      PROVE  FreshInv' /\ LaunchedInv' /\ WindowsFull'
  <2>1. /\ args' = args /\ done' = done /\ stage[t] = "new"
        /\ stage' = [stage EXCEPT ![t] = "running"]
        /\ in_flight' = [in_flight EXCEPT ![t] = FirstRefill(t)]
        /\ launched' = [launched EXCEPT ![t] = FirstRefill(t)]
    BY <1>3 DEF Opens, Become
  <2>2. launched[t] = 0 /\ done[t] = 0
    BY <1>0, <2>1 DEF FreshInv
  <2>3. FirstRefill(t) \in Nat
    BY <1>0, RefillType DEF FirstRefill
  <2>4. /\ stage'[t] = "running" /\ done'[t] = 0
        /\ in_flight'[t] = FirstRefill(t) /\ launched'[t] = FirstRefill(t)
        /\ \A s \in Threads \ {t} : Kept(s)
    BY <1>0, <2>1, <2>2 DEF TypeOK
  <2>5. args.scenario = "refill" =>
          in_flight'[t] = Min({Window, Share(t) - done'[t]})
    <3> SUFFICES ASSUME args.scenario = "refill"
                 PROVE  in_flight'[t] = Min({Window, Share(t) - 0})
      BY <2>4
    <3>1. Window \in Nat /\ Share(t) \in Nat
      BY <1>0, SharesAndWindows DEF TypeOK
    <3>2. 0 + Refill(t, 0, 0) = Min({Window, Share(t) - 0})
      BY <1>0, <2>2, <3>1, RefillFills
    <3>3. FirstRefill(t) = Refill(t, 0, 0)
      BY DEF FirstRefill
    <3>4. QED
      BY <2>3, <2>4, <3>2, <3>3
  <2>6. QED
    BY <1>2, <2>1, <2>3, <2>4, <2>5
<1>4. ASSUME NEW t \in Threads, NEW a \in Answers, Handler(t, a)
      PROVE  FreshInv' /\ LaunchedInv' /\ WindowsFull'
  <2> DEFINE pending == in_flight[t] - 1
             answered == done[t] + 1
             more == IF Ends(a) THEN 0 ELSE Refill(t, pending, answered)
  <2>1. /\ args' = args /\ stage' = stage /\ stage[t] = "running"
        /\ in_flight[t] > 0
        /\ in_flight' = [in_flight EXCEPT ![t] = @ - 1 + more]
        /\ launched' = [launched EXCEPT ![t] = @ + more]
        /\ done' = [done EXCEPT ![t] = @ + 1]
    BY <1>4 DEF Handler
  <2>2. pending \in Nat /\ answered \in Nat
    BY <1>0, <2>1 DEF TypeOK
  <2>3. launched[t] = pending + answered
    BY <1>0, <2>1 DEF LaunchedInv, TypeOK
  <2>4. more \in Nat
    BY <1>0, <2>2, RefillType
  <2>5. /\ in_flight'[t] = pending + more
        /\ launched'[t] = launched[t] + more
        /\ done'[t] = answered
        /\ \A s \in Threads \ {t} : Kept(s)
    BY <1>0, <2>1 DEF TypeOK
  <2>6. args.scenario = "refill" =>
          in_flight'[t] = Min({Window, Share(t) - done'[t]})
    <3> SUFFICES ASSUME args.scenario = "refill"
                 PROVE  pending + more = Min({Window, Share(t) - answered})
      BY <2>5
    <3>1. Window \in Nat /\ Share(t) \in Nat
      BY <1>0, SharesAndWindows DEF TypeOK
    <3>2. in_flight[t] = Min({Window, Share(t) - done[t]})
      BY <1>0, <2>1 DEF WindowsFull
    <3>3. in_flight[t] <= Window /\ in_flight[t] <= Share(t) - done[t]
      <4>1. Share(t) - done[t] \in Int
        BY <1>0, <3>1 DEF TypeOK
      <4>2. QED
        BY <3>1, <3>2, <4>1, MinOfTwo
    <3>4. pending <= Window /\ launched[t] <= Share(t)
      BY <1>0, <2>3, <3>1, <3>3 DEF TypeOK
    <3>5. more = Refill(t, pending, answered)
      BY DEF Ends
    <3> HIDE DEF pending, answered, more
    <3>6. QED
      BY <1>0, <2>2, <2>3, <3>4, <3>5, RefillFills
  <2> HIDE DEF pending, answered, more
  <2>7. launched'[t] = done'[t] + in_flight'[t]
    BY <2>2, <2>3, <2>4, <2>5
  <2>8. QED
    BY <1>2, <2>1, <2>5, <2>6, <2>7
<1>5. ASSUME NEW t \in Threads, Returns(t) \/ Adds(t)
      PROVE  FreshInv' /\ LaunchedInv' /\ WindowsFull'
  <2>1. /\ args' = args /\ stage'[t] \in {"returned", "over"}
        /\ \A s \in Threads \ {t} : Kept(s)
    BY <1>0, <1>5 DEF Returns, Adds, Become, TypeOK
  <2>2. QED
    BY <1>2, <2>1
<1>6. ASSUME NEW t \in Threads, Lives(t)
      PROVE  UNCHANGED <<args, stage, in_flight, launched, done>>
  BY <1>6 DEF Lives, workVars
(* The threads of a pool have no window. *)
<1>7. ASSUME NEW t \in Threads, TakesNumber(t)
      PROVE  FreshInv' /\ LaunchedInv' /\ WindowsFull'
  <2>1. args.scenario = "pool" /\ args' = args /\ done' = done
        /\ in_flight[t] = 0
    BY <1>7 DEF TakesNumber, Pooled
  <2>2. CASE next < args.total
    <3>1. /\ stage[t] \in {"new", "running"}
          /\ stage' = [stage EXCEPT ![t] = "running"]
          /\ in_flight' = [in_flight EXCEPT ![t] = 1]
          /\ launched' = [launched EXCEPT ![t] = @ + 1]
      BY <1>7, <2>2 DEF TakesNumber
    <3>2. launched[t] = done[t]
      BY <1>0, <2>1, <3>1 DEF FreshInv, LaunchedInv, TypeOK
    <3>3. /\ stage'[t] = "running" /\ launched'[t] = done'[t] + in_flight'[t]
          /\ \A s \in Threads \ {t} : Kept(s)
      BY <1>0, <2>1, <3>1, <3>2 DEF TypeOK
    <3>4. QED
      BY <1>2, <2>1, <3>3
  <2>3. CASE ~(next < args.total)
    <3>1. /\ stage' = [stage EXCEPT ![t] = "over"]
          /\ UNCHANGED <<in_flight, launched>>
      BY <1>7, <2>3 DEF TakesNumber, Become
    <3>2. stage'[t] = "over" /\ \A s \in Threads \ {t} : Kept(s)
      BY <1>0, <2>1, <3>1 DEF TypeOK
    <3>3. QED
      BY <1>2, <2>1, <3>2
  <2>4. QED
    BY <2>2, <2>3
<1>8. ASSUME NEW t \in Threads, NEW a \in Answers, Answered(t, a)
      PROVE  FreshInv' /\ LaunchedInv' /\ WindowsFull'
  <2>1. /\ args.scenario = "pool" /\ UNCHANGED <<args, stage, launched>>
        /\ in_flight[t] = 1
        /\ in_flight' = [in_flight EXCEPT ![t] = 0]
        /\ done' = [done EXCEPT ![t] = @ + 1]
    BY <1>8 DEF Answered, Pooled
  <2>2. stage[t] # "new"
    BY <1>0, <2>1 DEF FreshInv
  <2>3. /\ stage'[t] = stage[t] /\ launched'[t] = launched[t]
        /\ done'[t] = done[t] + 1 /\ in_flight'[t] = 0
        /\ \A s \in Threads \ {t} : Kept(s)
    BY <1>0, <2>1 DEF TypeOK
  <2>4. stage[t] = "running" => launched[t] = done[t] + 1
    BY <1>0, <2>1 DEF LaunchedInv
  <2>5. done[t] + 1 \in Nat
    BY <1>0 DEF TypeOK
  <2>6. QED
    BY <1>2, <2>1, <2>2, <2>3, <2>4, <2>5
<1>9. CASE Reports
  BY <1>1, <1>9 DEF Reports
<1>10. CASE UNCHANGED vars
  BY <1>1, <1>10 DEF vars, workVars
<1>11. QED
  BY <1>1, <1>3, <1>4, <1>5, <1>6, <1>7, <1>8, <1>9, <1>10 DEF Next, Works

-----------------------------------------------------------------------------
(* How requests and concurrency are divided between loops.                 *)

(* A quotient times its divisor, with the remainder, is the dividend.      *)
LEMMA Divides ==
  ASSUME NEW n \in Nat, NEW d \in Nat, d # 0
  PROVE  d * (n \div d) + (n % d) = n /\ d * (n \div d) <= n
<1>1. n % d = n - d * (n \div d)
  OBVIOUS
<1>2. d * (n \div d) <= n
  OBVIOUS
<1>3. d * (n \div d) \in Int
  OBVIOUS
<1>4. \A p \in Int : p + (n - p) = n
  OBVIOUS
<1>5. d * (n \div d) + (n - d * (n \div d)) = n
  BY <1>3, <1>4, Zenon
<1>6. QED
  BY <1>1, <1>2, <1>5, Zenon

(* The threads that the arguments ask for.                                 *)
LEMMA ActiveThreads ==
  ASSUME args \in Args
  PROVE  /\ IsFiniteSet(Threads)
         /\ Active \in SUBSET Threads /\ 1 \in Active
         /\ args.total \in Nat /\ args.concurrency \in Nat
         /\ args.loops \in Nat \ {0}
         /\ ~Pooled => Active = 1..args.loops /\ Cardinality(Active) = args.loops
         /\ args.scenario \in {"callbacks", "coroutine"} =>
              Active = {1} /\ Share(1) = args.total
<1>1. Cardinality(Threads) \in Nat /\ IsFiniteSet(Threads)
  BY ThreadsAssumption, FS_CardinalityType
<1>2. /\ args.loops \in Threads /\ args.total \in Totals
      /\ args.concurrency \in Concurrencies
      /\ args.scenario = "pool" => args.concurrency \in Threads
      /\ args.scenario # "refill" => args.loops = 1
  BY DEF Args
<1>3. Threads = 1..Cardinality(Threads)
  BY ArgumentsAssumption
<1>4. args.total \in Nat /\ args.concurrency \in Nat
  BY <1>2, ArgumentsAssumption
<1>5. args.loops \in 1..Cardinality(Threads)
  BY <1>2, <1>3
<1>6. args.scenario = "pool" => args.concurrency \in 1..Cardinality(Threads)
  BY <1>2, <1>3
<1>7. Active \subseteq 1..Cardinality(Threads) /\ 1 \in Active
  BY <1>1, <1>5, <1>6 DEF Active
<1>8. ~Pooled => Active = 1..args.loops
  BY DEF Active, Pooled
<1>9. Cardinality(1..args.loops) = args.loops
  BY <1>1, <1>5, FS_Interval
<1>10. args.loops = 1 => Share(1) = args.total
  <2>1. \A n \in Nat : n \div 1 = n /\ n % 1 = 0
    BY Z3
  <2>2. args.loops = 1 => args.total \div args.loops = args.total
                          /\ args.total % args.loops = 0
    BY <1>4, <2>1
  <2>3. QED
    BY <1>4, <2>2 DEF Share
<1>11. args.scenario \in {"callbacks", "coroutine"} =>
         args.loops = 1 /\ args.scenario # "pool"
  BY <1>2
<1>12. 1..1 = {1}
  OBVIOUS
<1>13. QED
  BY <1>1, <1>3, <1>4, <1>5, <1>7, <1>8, <1>9, <1>10, <1>11, <1>12 DEF Pooled

(* The shares of the loops add up to the requests asked for: the first of  *)
(* them take one of the remainder each.                                    *)
LEMMA SharesAddUp ==
  ASSUME args \in Args, ~Pooled
  PROVE  SumFunction([t \in Threads |-> IF t \in Active THEN Share(t) ELSE 0])
           = args.total
<1> DEFINE quotient == args.total \div args.loops
           remainder == args.total % args.loops
           first == 1..remainder
           f == [t \in Threads |-> IF t \in Active THEN quotient ELSE 0]
           g == [t \in Threads |-> IF t \in first THEN 1 ELSE 0]
           h == [t \in Threads |-> IF t \in Active THEN Share(t) ELSE 0]
<1>1. /\ IsFiniteSet(Threads) /\ Active \in SUBSET Threads
      /\ args.total \in Nat /\ args.loops \in Nat \ {0}
      /\ Active = 1..args.loops /\ Cardinality(Active) = args.loops
  BY ActiveThreads
<1>2. quotient \in Nat /\ remainder \in 0..(args.loops - 1)
  BY <1>1, Division
<1>3. args.loops * quotient + remainder = args.total
  BY <1>1, Divides
<1>4. \A t \in Threads : Share(t) = quotient + (IF t - 1 < remainder THEN 1 ELSE 0)
  BY DEF Share
<1> HIDE DEF quotient, remainder
<1>5. first \in SUBSET Threads /\ Cardinality(first) = remainder
  <2>1. first \subseteq Active
    BY <1>1, <1>2
  <2>2. Cardinality(1..remainder) = remainder
    BY <1>2, FS_Interval
  <2>3. QED
    BY <1>1, <2>1, <2>2
<1>6. Threads \subseteq Nat /\ IsFiniteSet(Threads)
  BY <1>1, SharesAndWindows
<1>7. \A t \in Threads : h[t] = f[t] + g[t]
  <2> SUFFICES ASSUME NEW t \in Threads PROVE h[t] = f[t] + g[t]
    OBVIOUS
  <2>1. t \in Nat
    BY <1>6
  <2>2. CASE t \in Active
    <3>1. t - 1 < remainder <=> t \in first
      BY <1>1, <1>2, <2>1, <2>2
    <3>2. QED
      BY <1>2, <1>4, <2>2, <3>1
  <2>3. CASE t \notin Active
    <3>1. t \notin first
      BY <1>1, <1>2, <2>3
    <3>2. QED
      BY <2>3, <3>1
  <2>4. QED
    BY <2>2, <2>3
<1>8. f \in [Threads -> Int] /\ g \in [Threads -> Int] /\ h \in [Threads -> Int]
  <2>1. \A t \in Threads : Share(t) \in Nat
    BY SharesAndWindows
  <2>2. QED
    BY <1>2, <2>1
<1>9. SumFunction(f) = args.loops * quotient
  <2>1. quotient \in Int /\ Constant(Threads, Active, quotient, f)
    BY <1>2, <1>8 DEF Constant
  <2>2. SumFunction(f) = quotient * Cardinality(Active)
    BY <1>1, <1>6, <2>1, SumOfConstant
  <2>3. quotient * args.loops = args.loops * quotient
    BY <1>1, <2>1
  <2>4. QED
    BY <1>1, <2>2, <2>3
<1>10. SumFunction(g) = 1 * remainder
  <2>1. Constant(Threads, first, 1, g)
    BY <1>8 DEF Constant
  <2> HIDE DEF first, g
  <2>2. SumFunction(g) = 1 * Cardinality(first)
    <3>1. 1 \in Int
      OBVIOUS
    <3>2. QED
      BY <1>5, <1>6, <2>1, <3>1, SumOfConstant, Zenon
  <2>3. QED
    BY <1>5, <2>2
<1> HIDE DEF f, g, h
<1>11. SumFunction(h) = SumFunction(f) + SumFunction(g)
  <2>1. Plus(Threads, f, g, h)
    BY <1>7, <1>8 DEF Plus
  <2>2. QED
    BY <1>6, <2>1, SumPlus
<1>12. 1 * remainder = remainder
  BY <1>2
<1>13. SumFunction(h) = args.total
  BY <1>3, <1>9, <1>10, <1>11, <1>12
<1>14. QED
  BY <1>13 DEF h

(* The windows of the loops together are what the division leaves of the   *)
(* concurrency.                                                            *)
LEMMA WindowsAddUp ==
  ASSUME args \in Args, args.scenario = "refill"
  PROVE  /\ args.loops * Window \in Nat
         /\ args.loops * Window
              = args.concurrency - (args.concurrency % args.loops)
         /\ args.loops * Window <= args.concurrency
<1>1. args.concurrency \in Nat /\ args.loops \in Nat \ {0} /\ Window \in Nat
  BY ActiveThreads, SharesAndWindows
<1>2. args.loops * Window \in Nat
  BY <1>1
<1>3. CASE args.loops > 1
  <2>1. Window = args.concurrency \div args.loops
    BY <1>3 DEF Window
  <2>2. args.concurrency % args.loops \in Int
    BY <1>1, Division
  <2>3. /\ args.loops * Window + (args.concurrency % args.loops)
             = args.concurrency
        /\ args.loops * Window <= args.concurrency
    BY <1>1, <2>1, Divides
  <2>4. \A p, m \in Int : p + m = args.concurrency => p = args.concurrency - m
    BY <1>1
  <2>5. QED
    BY <1>2, <2>2, <2>3, <2>4
<1>4. CASE ~(args.loops > 1)
  <2>1. args.loops = 1 /\ Window = args.concurrency
    BY <1>1, <1>4 DEF Window
  <2>2. args.concurrency % 1 = 0
    BY <1>1
  <2>3. QED
    BY <1>1, <2>1, <2>2
<1>5. QED
  BY <1>2, <1>3, <1>4

(* So are the requests in flight, when every loop has more to make, and    *)
(* never more.                                                             *)
LEMMA WindowsFit ==
  ASSUME IInv
  PROVE  ConcurrencyDivided
<1>1. TypeOK /\ WindowsFull /\ LaunchedInv /\ IdleInv
  BY DEF IInv, WindowInv
<1> SUFFICES ASSUME args.scenario = "refill"
             PROVE  /\ SumFunction(in_flight) <= args.concurrency
                    /\ AllBusy =>
                         SumFunction(in_flight)
                           = args.concurrency - (args.concurrency % args.loops)
  BY <1>1 DEF ConcurrencyDivided
<1>2. args \in Args /\ in_flight \in [Threads -> Nat] /\ done \in [Threads -> Nat]
  BY <1>1 DEF TypeOK
<1>3. /\ IsFiniteSet(Threads) /\ Active \in SUBSET Threads
      /\ args.concurrency \in Nat /\ args.loops \in Nat \ {0}
      /\ Cardinality(Active) = args.loops
  BY <1>2, ActiveThreads DEF Pooled
<1>4. Window \in Nat /\ \A t \in Threads : Share(t) \in Nat
  BY <1>2, SharesAndWindows
<1> DEFINE g == [t \in Threads |-> IF t \in Active THEN Window ELSE 0]
<1>5. \A t \in Threads :
        stage[t] = "running" =>
          in_flight[t] = IF Window < Share(t) - done[t] THEN Window
                                                        ELSE Share(t) - done[t]
  <2> SUFFICES ASSUME NEW t \in Threads, stage[t] = "running"
               PROVE  in_flight[t] = IF Window < Share(t) - done[t]
                                       THEN Window ELSE Share(t) - done[t]
    OBVIOUS
  <2>1. in_flight[t] = Min({Window, Share(t) - done[t]})
    BY <1>1 DEF WindowsFull
  <2>2. Share(t) - done[t] \in Int
    BY <1>2, <1>4
  <2>3. QED
    BY <1>4, <2>1, <2>2, MinOfTwo
<1>6. \A t \in Threads : in_flight[t] <= g[t]
  <2> SUFFICES ASSUME NEW t \in Threads PROVE in_flight[t] <= g[t]
    OBVIOUS
  <2>1. CASE stage[t] = "running"
    <3>1. t \in Active
      BY <1>1, <2>1 DEF IdleInv
    <3>2. in_flight[t] <= Window
      BY <1>2, <1>4, <1>5, <2>1
    <3>3. QED
      BY <3>1, <3>2
  <2>2. CASE stage[t] # "running"
    BY <1>1, <1>4, <2>2 DEF IdleInv
  <2>3. QED
    BY <2>1, <2>2
<1>7. g \in [Threads -> Int] /\ in_flight \in [Threads -> Int]
  BY <1>2, <1>4
<1>8. SumFunction(g) = args.loops * Window
  <2>1. SumFunction(g) = Window * Cardinality(Active)
    BY <1>3, <1>4, SumOfConstant DEF Constant
  <2>2. Window * args.loops = args.loops * Window
    BY <1>3, <1>4
  <2>3. QED
    BY <1>3, <2>1, <2>2
<1>9. AllBusy => in_flight = g
  <2> SUFFICES ASSUME AllBusy PROVE in_flight = g
    OBVIOUS
  <2>1. ASSUME NEW t \in Threads PROVE in_flight[t] = g[t]
    <3>1. CASE t \in Active
      <4>1. stage[t] = "running" /\ launched[t] < Share(t)
        BY <3>1 DEF AllBusy
      <4>2. launched[t] = done[t] + in_flight[t]
        BY <1>1, <4>1 DEF LaunchedInv
      <4>3. in_flight[t] = Window
        BY <1>2, <1>4, <1>5, <4>1, <4>2
      <4>4. QED
        BY <3>1, <4>3
    <3>2. CASE t \notin Active
      BY <1>1, <3>2 DEF IdleInv
    <3>3. QED
      BY <3>1, <3>2
  <2>2. QED
    BY <1>2, <2>1
<1> HIDE DEF g
<1>10. SumFunction(in_flight) <= SumFunction(g)
  BY <1>3, <1>6, <1>7, SumMonotone
<1>11. SumFunction(in_flight) \in Int
  BY <1>3, <1>7, SumType
<1>12. QED
  BY <1>2, <1>3, <1>8, <1>9, <1>10, <1>11, WindowsAddUp

(* How long a chain is, and how much of it its only loop completes.        *)
LEMMA ChainFacts ==
  ASSUME args \in Args, args.scenario \in {"callbacks", "coroutine"}
  PROVE  /\ Active = {1} /\ Share(1) = args.total /\ args.total \in Nat
         /\ ~Pooled /\ ~NoWindow
         /\ args.scenario = "coroutine" => ~args.poll
         /\ Chain = IF args.scenario = "callbacks" /\ args.total = 0
                      THEN 1 ELSE args.total
         /\ Goal(1) = IF args.scenario = "callbacks" /\ args.total = 0 /\ ~args.poll
                        THEN 1 ELSE args.total
<1>1. Active = {1} /\ Share(1) = args.total /\ args.total \in Nat
  BY ActiveThreads
<1>2. ~Pooled /\ ~NoWindow
  BY DEF Pooled, NoWindow
<1>3. args.scenario = "coroutine" => ~args.poll
  BY DEF Args
<1>4. Max({1, args.total}) = IF args.total = 0 THEN 1 ELSE args.total
  <2>1. Max({1, args.total}) = IF 1 > args.total THEN 1 ELSE args.total
    BY <1>1, MaxOfTwo
  <2>2. QED
    BY <1>1, <2>1
<1>5. Chain = IF args.scenario = "callbacks" /\ args.total = 0
                THEN 1 ELSE args.total
  BY <1>4 DEF Chain
<1>6. QED
  BY <1>1, <1>2, <1>3, <1>5 DEF Goal

(* The answers that its loops end with are those to the requests made.     *)
LEMMA GoalsAddUp ==
  ASSUME args \in Args, ~Pooled, NEW f,
         f = [t \in Threads |-> IF t \in Active THEN Goal(t) ELSE 0]
  PROVE  SumFunction(f) = Made
<1>1. IsFiniteSet(Threads) /\ Active \in SUBSET Threads /\ 1 \in Active
  BY ActiveThreads
<1>2. CASE NoWindow
  <2>1. f = [t \in Threads |-> 0]
    BY <1>2 DEF Goal
  <2>2. QED
    BY <1>1, <1>2, <2>1, SumOfZeros DEF Made
<1>3. CASE args.scenario = "callbacks" /\ ~args.poll
  <2>1. Active = {1} /\ ~NoWindow /\ Chain \in Int
    BY <1>3, ChainFacts
  <2>2. Goal(1) = Chain /\ Made = Chain
    BY <1>3, <2>1 DEF Goal, Made, Chain
  <2>3. Constant(Threads, {1}, Chain, f)
    BY <2>1, <2>2 DEF Constant
  <2>4. SumFunction(f) = Chain * Cardinality({1})
    BY <1>1, <2>1, <2>3, SumOfConstant
  <2>5. Cardinality({1}) = 1
    BY FS_Singleton
  <2>6. QED
    BY <2>1, <2>2, <2>4, <2>5
<1>4. CASE ~NoWindow /\ ~(args.scenario = "callbacks" /\ ~args.poll)
  <2>1. \A t \in Threads : Goal(t) = Share(t)
    BY <1>4 DEF Goal
  <2>2. f = [t \in Threads |-> IF t \in Active THEN Share(t) ELSE 0]
    BY <2>1
  <2>3. QED
    BY <1>4, <2>2, SharesAddUp DEF Made
<1>5. QED
  BY <1>2, <1>3, <1>4

(* A chain's answers are those of its only loop.                           *)
LEMMA ChainSum ==
  ASSUME TypeOK, IdleInv, args.scenario \in {"callbacks", "coroutine"}
  PROVE  SumFunction(done) = done[1] /\ done[1] \in Nat
<1>1. args \in Args /\ done \in [Threads -> Nat]
  BY DEF TypeOK
<1>2. IsFiniteSet(Threads) /\ 1 \in Threads /\ Active = {1}
  BY <1>1, ActiveThreads
<1>3. done[1] \in Nat /\ \A t \in Threads : t # 1 => done[t] = 0
  BY <1>1, <1>2 DEF IdleInv
<1>4. Constant(Threads, {1}, done[1], done)
  BY <1>1, <1>3 DEF Constant
<1>5. SumFunction(done) = done[1] * Cardinality({1})
  BY <1>2, <1>3, <1>4, SumOfConstant
<1>6. Cardinality({1}) = 1
  BY FS_Singleton
<1>7. QED
  BY <1>3, <1>5, <1>6

(* Once every thread is over the answers are those to the requests made,   *)
(* and the failures reported those of the answers.                         *)
LEMMA OverAddsUp ==
  ASSUME IInv
  PROVE  ReportAddsUp
<1> DEFINE answered == answers["ok"] + answers["status"] + answers["error"]
<1> SUFFICES ASSUME report # None
             PROVE  /\ ~Stopped => answered = Made
                    /\ Stopped => answered <= args.total /\ answers["error"] = 1
                    /\ report = answers["status"] + ErrorsCounted
  BY DEF ReportAddsUp
<1>1. TypeOK /\ IdleInv /\ FinishedInv /\ PoolInv /\ CountsInv
  BY DEF IInv, WindowInv
<1>2. /\ args \in Args /\ done \in [Threads -> Nat] /\ launched \in [Threads -> Nat]
      /\ in_flight \in [Threads -> Nat] /\ next \in Nat /\ failed \in Nat
      /\ answers["status"] \in Nat /\ answers["error"] \in Nat
  BY <1>1 DEF TypeOK, Answers
<1>3. \A t \in Threads : stage[t] = "over"
  BY <1>1 DEF CountsInv
<1>4. IsFiniteSet(Threads) /\ Active \in SUBSET Threads /\ 1 \in Active
      /\ args.total \in Nat
  BY <1>2, ActiveThreads
<1>5. SumFunction(Unreported) = 0
  <2>1. Unreported = [t \in Threads |-> 0]
    BY <1>3 DEF Unreported
  <2>2. QED
    BY <1>4, <2>1, SumOfZeros
<1>6. report = answers["status"] + ErrorsCounted
  <2>1. report = failed /\ failed + SumFunction(Unreported)
                             = answers["status"] + ErrorsCounted
    BY <1>1 DEF CountsInv
  <2>2. QED
    BY <1>2, <1>5, <2>1
<1>7. SumFunction(done) = answered
  BY <1>1 DEF CountsInv
<1>8. ASSUME ~Stopped
      PROVE  SumFunction(done) = Made
  <2>1. CASE ~Pooled
    <3>1. \A t \in Threads : done[t] = IF t \in Active THEN Goal(t) ELSE 0
      BY <1>1, <1>3, <1>8, <2>1 DEF FinishedInv, IdleInv
    <3>2. done = [t \in Threads |-> IF t \in Active THEN Goal(t) ELSE 0]
      BY <1>2, <3>1
    <3>3. QED
      BY <1>2, <2>1, <3>2, GoalsAddUp
  <2>2. CASE Pooled
    <3>1. \A t \in Threads : in_flight[t] = 0
      BY <1>1, <1>3 DEF IdleInv
    <3>2. \A t \in Threads : launched[t] = done[t]
      BY <1>1, <1>2, <2>2, <3>1 DEF PoolInv
    <3>3. launched = done
      BY <1>2, <3>2
    <3>4. next >= args.total /\ SumFunction(launched) = Min({next, args.total})
      BY <1>1, <1>3, <1>4, <2>2 DEF PoolInv
    <3>5. Min({next, args.total}) = args.total
      BY <1>2, <1>4, <3>4, MinOfTwo
    <3>6. Made = args.total
      BY <2>2 DEF Made, NoWindow, Pooled
    <3>7. QED
      BY <3>3, <3>4, <3>5, <3>6
  <2>3. QED
    BY <2>1, <2>2
<1>9. ASSUME Stopped
      PROVE  SumFunction(done) <= args.total /\ answers["error"] = 1
  <2>1. args.scenario = "coroutine" /\ answers["error"] > 0
    BY <1>9 DEF Stopped
  <2>2. answers["error"] = 1
    BY <1>1, <1>2, <2>1 DEF CountsInv
  <2>3. ~Pooled /\ Goal(1) = args.total
    BY <1>2, <2>1, ChainFacts
  <2>4. done[1] <= args.total
    BY <1>1, <1>3, <1>4, <2>3 DEF FinishedInv
  <2>5. QED
    BY <1>1, <2>1, <2>2, <2>4, ChainSum
<1>10. QED
  BY <1>6, <1>7, <1>8, <1>9

-----------------------------------------------------------------------------
(* Every step is one thread's, leaves the counters alone, or is main()'s.  *)

(* The other threads keep their counters. *)
Alone(t) ==
  /\ args' = args
  /\ \A s \in Threads \ {t} :
       /\ stage'[s] = stage[s] /\ in_flight'[s] = in_flight[s]
       /\ launched'[s] = launched[s] /\ done'[s] = done[s]
       /\ failed_here'[s] = failed_here[s]

Counters == <<args, stage, in_flight, launched, done, failed_here, next, failed,
              report, answers>>

(* A loop opens: its first refill is in flight.                            *)
LEMMA OpensEffect ==
  ASSUME TypeOK, NEW t \in Threads, Opens(t)
  PROVE  /\ Alone(t) /\ ~Pooled
         /\ stage[t] = "new" /\ stage'[t] = "running"
         /\ in_flight'[t] = FirstRefill(t) /\ done'[t] = done[t]
         /\ failed_here'[t] = failed_here[t]
         /\ UNCHANGED <<next, failed, report, answers>>
<1>1. /\ ~Pooled /\ stage[t] = "new"
      /\ stage' = [stage EXCEPT ![t] = "running"]
      /\ in_flight' = [in_flight EXCEPT ![t] = FirstRefill(t)]
      /\ launched' = [launched EXCEPT ![t] = FirstRefill(t)]
      /\ UNCHANGED <<args, done, failed_here, next, failed, report, answers>>
  BY DEF Opens, Become
<1>2. stage \in [Threads -> {"new", "running", "returned", "over"}]
      /\ in_flight \in [Threads -> Nat] /\ launched \in [Threads -> Nat]
  BY DEF TypeOK
<1>3. QED
  BY <1>1, <1>2 DEF Alone

(* A handler counts its answer, and a failure unless it ends the coroutine. *)
LEMMA HandlerEffect ==
  ASSUME TypeOK, NEW t \in Threads, NEW a \in Answers, Handler(t, a)
  PROVE  /\ Alone(t) /\ ~Pooled
         /\ stage[t] = "running" /\ stage'[t] = "running" /\ in_flight[t] > 0
         /\ args.poll => done[t] < Share(t)
         /\ in_flight'[t] = in_flight[t] - 1 +
              (IF Ends(a) THEN 0 ELSE Refill(t, in_flight[t] - 1, done[t] + 1))
         /\ done'[t] = done[t] + 1
         /\ failed_here'[t] = IF a = "ok" \/ Ends(a) THEN failed_here[t]
                                                      ELSE failed_here[t] + 1
         /\ answers' = [answers EXCEPT ![a] = @ + 1]
         /\ UNCHANGED <<next, failed, report>>
<1> DEFINE more == IF Ends(a) THEN 0 ELSE Refill(t, in_flight[t] - 1, done[t] + 1)
<1>1. /\ ~Pooled /\ stage[t] = "running" /\ in_flight[t] > 0
      /\ args.poll => done[t] < Share(t)
      /\ in_flight' = [in_flight EXCEPT ![t] = @ - 1 + more]
      /\ launched' = [launched EXCEPT ![t] = @ + more]
      /\ done' = [done EXCEPT ![t] = @ + 1]
      /\ failed_here' = [failed_here EXCEPT
                           ![t] = IF a = "ok" \/ Ends(a) THEN @ ELSE @ + 1]
      /\ answers' = [answers EXCEPT ![a] = @ + 1]
      /\ UNCHANGED <<args, stage, next, failed, report>>
  BY DEF Handler
<1>2. /\ in_flight \in [Threads -> Nat] /\ launched \in [Threads -> Nat]
      /\ done \in [Threads -> Nat] /\ failed_here \in [Threads -> Nat]
  BY DEF TypeOK
<1> HIDE DEF more
<1>3. Alone(t)
  BY <1>1, <1>2 DEF Alone
<1>4. in_flight'[t] = in_flight[t] - 1 + more
  BY <1>1, <1>2
<1>5. QED
  BY <1>1, <1>2, <1>3, <1>4 DEF more

(* A loop returns with nothing in flight any more.                         *)
LEMMA ReturnsEffect ==
  ASSUME TypeOK, NEW t \in Threads, Returns(t)
  PROVE  /\ Alone(t) /\ ~Pooled /\ LoopEnds(t)
         /\ stage[t] = "running" /\ stage'[t] = "returned"
         /\ in_flight'[t] = 0 /\ done'[t] = done[t]
         /\ failed_here'[t] = failed_here[t]
         /\ UNCHANGED <<next, failed, report, answers>>
<1>1. /\ ~Pooled /\ LoopEnds(t) /\ stage[t] = "running"
      /\ stage' = [stage EXCEPT ![t] = "returned"]
      /\ in_flight' = [in_flight EXCEPT ![t] = 0]
      /\ UNCHANGED <<args, launched, done, failed_here, next, failed, report, answers>>
  BY DEF Returns, Become
<1>2. stage \in [Threads -> {"new", "running", "returned", "over"}]
      /\ in_flight \in [Threads -> Nat]
  BY DEF TypeOK
<1>3. QED
  BY <1>1, <1>2 DEF Alone

(* A thread adds the failures its loop counted.                            *)
LEMMA AddsEffect ==
  ASSUME TypeOK, NEW t \in Threads, Adds(t)
  PROVE  /\ Alone(t) /\ ~Pooled
         /\ stage[t] = "returned" /\ stage'[t] = "over"
         /\ in_flight'[t] = in_flight[t] /\ done'[t] = done[t]
         /\ failed' = failed + failed_here[t]
         /\ UNCHANGED <<next, report, answers>>
<1>1. /\ ~Pooled /\ stage[t] = "returned"
      /\ stage' = [stage EXCEPT ![t] = "over"]
      /\ failed' = failed + failed_here[t]
      /\ UNCHANGED <<args, in_flight, launched, done, failed_here, next, report, answers>>
  BY DEF Adds, Add, Become
<1>2. stage \in [Threads -> {"new", "running", "returned", "over"}]
  BY DEF TypeOK
<1>3. QED
  BY <1>1, <1>2 DEF Alone

(* A thread of a pool makes a request if its number is in range, and is    *)
(* over otherwise.                                                         *)
LEMMA TakesEffect ==
  ASSUME TypeOK, NEW t \in Threads, TakesNumber(t)
  PROVE  /\ Alone(t) /\ Pooled
         /\ stage[t] \in {"new", "running"} /\ in_flight[t] = 0
         /\ next' = next + 1
         /\ next < args.total =>
              /\ stage'[t] = "running" /\ in_flight'[t] = 1
              /\ launched'[t] = launched[t] + 1
         /\ ~(next < args.total) =>
              stage'[t] = "over" /\ in_flight'[t] = 0 /\ launched'[t] = launched[t]
         /\ UNCHANGED <<done, failed_here, failed, report, answers>>
<1>1. /\ Pooled /\ in_flight[t] = 0 /\ next' = next + 1
      /\ UNCHANGED <<args, done, failed_here, failed, report, answers>>
  BY DEF TakesNumber
<1>2. stage \in [Threads -> {"new", "running", "returned", "over"}]
      /\ in_flight \in [Threads -> Nat] /\ launched \in [Threads -> Nat]
  BY DEF TypeOK
<1>3. CASE next < args.total
  <2>1. /\ stage[t] \in {"new", "running"}
        /\ stage' = [stage EXCEPT ![t] = "running"]
        /\ in_flight' = [in_flight EXCEPT ![t] = 1]
        /\ launched' = [launched EXCEPT ![t] = @ + 1]
    BY <1>3 DEF TakesNumber
  <2>2. QED
    BY <1>1, <1>2, <1>3, <2>1 DEF Alone
<1>4. CASE ~(next < args.total)
  <2>1. /\ stage[t] \in {"new", "running"}
        /\ stage' = [stage EXCEPT ![t] = "over"]
        /\ UNCHANGED <<in_flight, launched>>
    BY <1>4 DEF TakesNumber, Become
  <2>2. QED
    BY <1>1, <1>2, <1>4, <2>1 DEF Alone
<1>5. QED
  BY <1>3, <1>4

(* A thread of a pool counts its answer in the atomic at once.             *)
LEMMA AnsweredEffect ==
  ASSUME TypeOK, NEW t \in Threads, NEW a \in Answers, Answered(t, a)
  PROVE  /\ Alone(t) /\ Pooled
         /\ in_flight[t] = 1 /\ in_flight'[t] = 0
         /\ done'[t] = done[t] + 1
         /\ failed' = failed + (IF a = "ok" THEN 0 ELSE 1)
         /\ answers' = [answers EXCEPT ![a] = @ + 1]
         /\ UNCHANGED <<stage, launched, failed_here, next, report>>
<1>1. /\ Pooled /\ in_flight[t] = 1
      /\ in_flight' = [in_flight EXCEPT ![t] = 0]
      /\ done' = [done EXCEPT ![t] = @ + 1]
      /\ failed' = failed + (IF a = "ok" THEN 0 ELSE 1)
      /\ answers' = [answers EXCEPT ![a] = @ + 1]
      /\ UNCHANGED <<args, stage, launched, failed_here, next, report>>
  BY DEF Answered, Add
<1>2. in_flight \in [Threads -> Nat] /\ done \in [Threads -> Nat]
  BY DEF TypeOK
<1>3. QED
  BY <1>1, <1>2 DEF Alone

(* A client's life, and a stuttering step, count nothing.                  *)
LEMMA LivesEffect ==
  (\E t \in Threads : Lives(t)) \/ UNCHANGED vars => UNCHANGED Counters
BY DEF Lives, vars, workVars, Counters

(* One more answer is one more answer, and one more failure unless ok.     *)
LEMMA AnswersAdd ==
  ASSUME TypeOK, NEW a \in Answers, answers' = [answers EXCEPT ![a] = @ + 1]
  PROVE  /\ answers'["ok"] + answers'["status"] + answers'["error"]
              = answers["ok"] + answers["status"] + answers["error"] + 1
         /\ answers'["status"] + answers'["error"]
              = answers["status"] + answers["error"] + (IF a = "ok" THEN 0 ELSE 1)
         /\ answers'["error"] = answers["error"] + (IF a = "error" THEN 1 ELSE 0)
         /\ answers["error"] \in Nat
<1>1. answers \in [Answers -> Nat]
  BY DEF TypeOK
<1>2. answers["ok"] \in Nat /\ answers["status"] \in Nat /\ answers["error"] \in Nat
  BY <1>1 DEF Answers
<1>3. \A b \in Answers : answers'[b] = answers[b] + (IF a = b THEN 1 ELSE 0)
  BY <1>1
<1>4. /\ answers'["ok"] = answers["ok"] + (IF a = "ok" THEN 1 ELSE 0)
      /\ answers'["status"] = answers["status"] + (IF a = "status" THEN 1 ELSE 0)
      /\ answers'["error"] = answers["error"] + (IF a = "error" THEN 1 ELSE 0)
  BY <1>3 DEF Answers
<1>5. a = "ok" \/ a = "status" \/ a = "error"
  BY DEF Answers
<1>6. QED
  BY <1>2, <1>4, <1>5

(* What one thread does moves the sums by what it does to its own counters. *)
LEMMA SumsMove ==
  ASSUME TypeOK, TypeOK', NEW t \in Threads, Alone(t)
  PROVE  /\ SumFunction(done') = SumFunction(done) + (done'[t] - done[t])
         /\ SumFunction(launched')
              = SumFunction(launched) + (launched'[t] - launched[t])
         /\ SumFunction(Unreported')
              = SumFunction(Unreported) + (Unreported'[t] - Unreported[t])
         /\ SumFunction(done) \in Int /\ SumFunction(launched) \in Int
         /\ SumFunction(Unreported) \in Int
<1>1. IsFiniteSet(Threads)
  BY ThreadsAssumption
<1>2. /\ done \in [Threads -> Int] /\ done' \in [Threads -> Int]
      /\ \A s \in Threads \ {t} : done'[s] = done[s]
  BY DEF TypeOK, Alone
<1>3. /\ launched \in [Threads -> Int] /\ launched' \in [Threads -> Int]
      /\ \A s \in Threads \ {t} : launched'[s] = launched[s]
  BY DEF TypeOK, Alone
<1>4. /\ Unreported \in [Threads -> Int] /\ Unreported' \in [Threads -> Int]
      /\ \A s \in Threads \ {t} : Unreported'[s] = Unreported[s]
  BY DEF TypeOK, Alone, Unreported
<1>5. SumFunction(done') = SumFunction(done) + (done'[t] - done[t])
  BY <1>1, <1>2, SumChange
<1>6. SumFunction(launched') = SumFunction(launched) + (launched'[t] - launched[t])
  BY <1>1, <1>3, SumChange
<1>7. SumFunction(Unreported')
        = SumFunction(Unreported) + (Unreported'[t] - Unreported[t])
  BY <1>1, <1>4, SumChange
<1>8. /\ SumFunction(done) \in Int /\ SumFunction(launched) \in Int
      /\ SumFunction(Unreported) \in Int
  BY <1>1, <1>2, <1>3, <1>4, SumType
<1>9. QED
  BY <1>5, <1>6, <1>7, <1>8

-----------------------------------------------------------------------------
(* The rest of the inductive invariant, step by step.                      *)

LoopInv == IdleInv /\ ChainInv /\ FinishedInv

(* The arguments, and all that follows from them, stay.                    *)
LEMMA SameArgs ==
  ASSUME args' = args
  PROVE  /\ Window' = Window /\ Active' = Active /\ (Pooled' <=> Pooled)
         /\ \A t : Share(t)' = Share(t) /\ Goal(t)' = Goal(t)
         /\ (NoWindow' <=> NoWindow) /\ Chain' = Chain
<1>1. Window' = Window /\ Active' = Active /\ \A t : Share(t)' = Share(t)
  BY DEF Window, Active, Share
<1>2. (Pooled' <=> Pooled) /\ (NoWindow' <=> NoWindow)
  BY <1>1 DEF Pooled, NoWindow
<1>3. Chain' = Chain
  BY DEF Chain
<1>4. \A t : Goal(t)' = Goal(t)
  BY <1>1, <1>2, <1>3 DEF Goal
<1>5. QED
  BY <1>1, <1>2, <1>3, <1>4

(* What LoopInv asks of a thread that stepped. *)
AtWork(t) ==
  /\ t \in Active
  /\ Stopped => Stopped'
  /\ stage'[t] # "running" => in_flight'[t] = 0
  /\ NoWindow => done'[t] = 0
  /\ args.scenario \in {"callbacks", "coroutine"} /\ stage'[t] = "running"
     => /\ done'[t] <= Goal(t)
        /\ in_flight'[t] = IF ~Stopped' /\ done'[t] < Chain THEN 1 ELSE 0
  /\ ~Pooled /\ stage'[t] \in {"returned", "over"}
     => /\ done'[t] <= Goal(t)
        /\ ~Stopped' => done'[t] = Goal(t)

(* It is enough to look at the thread that stepped.                        *)
LEMMA LoopInvAlone ==
  ASSUME TypeOK, LoopInv, NEW t \in Threads, Alone(t), AtWork(t)
  PROVE  LoopInv'
<1>0. /\ args' = args
      /\ \A s \in Threads \ {t} :
           /\ stage'[s] = stage[s] /\ in_flight'[s] = in_flight[s]
           /\ done'[s] = done[s]
  BY DEF Alone
<1>1. /\ Active' = Active /\ (Pooled' <=> Pooled) /\ (NoWindow' <=> NoWindow)
      /\ \A s : Goal(s)' = Goal(s)
      /\ Chain' = Chain
  BY <1>0, SameArgs
<1>2. IdleInv'
  BY <1>0, <1>1 DEF LoopInv, IdleInv, AtWork
<1>3. ChainInv'
  <2> SUFFICES ASSUME args.scenario \in {"callbacks", "coroutine"},
                      NEW s \in Threads, stage'[s] = "running"
               PROVE  /\ done'[s] <= Goal(s)
                      /\ in_flight'[s] = IF ~Stopped' /\ done'[s] < Chain
                                           THEN 1 ELSE 0
    BY <1>0, <1>1 DEF ChainInv
  <2>1. Active = {1}
    BY ChainFacts DEF TypeOK
  <2>2. s \in Active
    BY <1>1, <1>2 DEF IdleInv
  <2>3. s = t
    BY <2>1, <2>2 DEF AtWork
  <2>4. QED
    BY <2>3 DEF AtWork
<1>4. FinishedInv'
  <2> SUFFICES ASSUME ~Pooled, NEW s \in Active, stage'[s] \in {"returned", "over"}
               PROVE  /\ done'[s] <= Goal(s)
                      /\ ~Stopped' => done'[s] = Goal(s)
    BY <1>1 DEF FinishedInv
  <2>1. CASE s = t
    BY <2>1 DEF AtWork
  <2>2. CASE s # t
    <3>1. s \in Threads
      BY ActiveThreads DEF TypeOK
    <3>2. stage[s] \in {"returned", "over"} /\ done'[s] = done[s]
      BY <1>0, <2>2, <3>1
    <3>3. done[s] <= Goal(s) /\ (~Stopped => done[s] = Goal(s))
      BY <3>2 DEF LoopInv, FinishedInv
    <3>4. QED
      BY <3>2, <3>3 DEF AtWork
  <2>3. QED
    BY <2>1, <2>2
<1>5. QED
  BY <1>2, <1>3, <1>4 DEF LoopInv

(* A thread with a request in flight has a window.                         *)
LEMMA WindowNeeded ==
  ASSUME TypeOK, WindowsFull, NEW t \in Threads, stage[t] = "running",
         in_flight[t] > 0
  PROVE  ~NoWindow
<1> SUFFICES ASSUME NoWindow PROVE FALSE
  OBVIOUS
<1>1. args.scenario = "refill" /\ Window = 0
  BY DEF NoWindow
<1>2. Share(t) \in Nat /\ done[t] \in Nat /\ in_flight[t] \in Nat
  BY SharesAndWindows DEF TypeOK
<1>3. in_flight[t] = Min({0, Share(t) - done[t]}) /\ Share(t) - done[t] \in Int
  BY <1>1, <1>2 DEF WindowsFull
<1>4. in_flight[t] <= 0
  BY <1>3, MinOfTwo
<1>5. QED
  BY <1>2, <1>4

(* A chain that was answered nothing has not met an error.                 *)
LEMMA NoneAnswered ==
  ASSUME TypeOK, IdleInv, CountsInv, done[1] = 0,
         args.scenario \in {"callbacks", "coroutine"}
  PROVE  ~Stopped
<1>1. /\ answers["ok"] \in Nat /\ answers["status"] \in Nat /\ answers["error"] \in Nat
  BY DEF TypeOK, Answers
<1>2. answers["ok"] + answers["status"] + answers["error"] = 0
  BY ChainSum DEF CountsInv
<1>3. answers["error"] = 0
  BY <1>1, <1>2
<1>4. QED
  BY <1>3 DEF Stopped

(* Each step keeps idle threads idle, and chains and loops at their work.  *)
LEMMA LoopStep ==
  IInv /\ TypeOK' /\ [Next]_vars => LoopInv'
<1> SUFFICES ASSUME IInv, TypeOK', [Next]_vars PROVE LoopInv'
  OBVIOUS
<1>0. /\ TypeOK /\ FreshInv /\ WindowsFull /\ CountsInv /\ LoopInv
      /\ IdleInv /\ ChainInv /\ FinishedInv
  BY DEF IInv, WindowInv, LoopInv
<1> DEFINE Shape == /\ args \in Args
                    /\ in_flight \in [Threads -> Nat] /\ done \in [Threads -> Nat]
                    /\ answers \in [Answers -> Nat]
<1>1. Shape
  BY <1>0 DEF TypeOK
<1>2. /\ Active \in SUBSET Threads /\ args.total \in Nat /\ Window \in Nat
      /\ args.loops \in Nat \ {0}
      /\ \A t \in Threads : Share(t) \in Nat
      /\ args.scenario \in {"callbacks", "coroutine"} =>
           Active = {1} /\ Share(1) = args.total
  BY <1>1, ActiveThreads, SharesAndWindows
<1>3. ASSUME NEW t \in Threads, Opens(t)
      PROVE  LoopInv'
  <2>1. /\ Alone(t) /\ ~Pooled
        /\ stage[t] = "new" /\ stage'[t] = "running"
        /\ in_flight'[t] = FirstRefill(t) /\ done'[t] = done[t]
        /\ answers' = answers /\ args' = args
    BY <1>0, <1>3, OpensEffect DEF Alone
  <2>2. Stopped' <=> Stopped
    BY <2>1 DEF Stopped
  <2>3. done[t] = 0 /\ t \in Active
    BY <1>0, <2>1 DEF FreshInv, IdleInv
  <2>4. ASSUME args.scenario \in {"callbacks", "coroutine"}
        PROVE  /\ 0 <= Goal(t)
               /\ FirstRefill(t) = IF ~Stopped /\ 0 < Chain THEN 1 ELSE 0
    <3>1. /\ Active = {1} /\ args.total \in Nat
          /\ Chain = IF args.scenario = "callbacks" /\ args.total = 0
                       THEN 1 ELSE args.total
          /\ Goal(1) = IF args.scenario = "callbacks" /\ args.total = 0 /\ ~args.poll
                         THEN 1 ELSE args.total
      BY <1>1, <2>4, ChainFacts
    <3>2. t = 1
      BY <2>3, <3>1
    <3>3. ~Stopped
      BY <1>0, <1>1, <2>3, <2>4, <3>2, NoneAnswered
    <3>4. CASE args.scenario = "callbacks"
      BY <3>1, <3>2, <3>3, <3>4 DEF FirstRefill
    <3>5. CASE args.scenario = "coroutine"
      BY <3>1, <3>2, <3>3, <3>5 DEF FirstRefill, Refill
    <3>6. QED
      BY <2>4, <3>4, <3>5
  <2>5. AtWork(t)
    BY <1>2, <2>1, <2>2, <2>3, <2>4 DEF AtWork
  <2>6. QED
    BY <1>0, <2>1, <2>5, LoopInvAlone
<1>4. ASSUME NEW t \in Threads, NEW a \in Answers, Handler(t, a)
      PROVE  LoopInv'
  <2> DEFINE more == IF Ends(a) THEN 0
                                ELSE Refill(t, in_flight[t] - 1, done[t] + 1)
  <2>1. /\ Alone(t) /\ ~Pooled
        /\ stage[t] = "running" /\ stage'[t] = "running" /\ in_flight[t] > 0
        /\ args.poll => done[t] < Share(t)
        /\ in_flight'[t] = in_flight[t] - 1 + more
        /\ done'[t] = done[t] + 1
        /\ answers' = [answers EXCEPT ![a] = @ + 1] /\ args' = args
    BY <1>0, <1>4, HandlerEffect DEF Alone
  <2>2. /\ answers'["error"] = answers["error"] + (IF a = "error" THEN 1 ELSE 0)
        /\ answers["error"] \in Nat
    BY <1>0, <2>1, AnswersAdd
  <2>3. Stopped' <=> Stopped \/ Ends(a)
    BY <2>1, <2>2 DEF Stopped, Ends
  <2>4. t \in Active /\ ~NoWindow
    BY <1>0, <1>2, <2>1, WindowNeeded DEF IdleInv
  <2>5. ASSUME args.scenario \in {"callbacks", "coroutine"}
        PROVE  /\ done'[t] <= Goal(t)
               /\ in_flight'[t] = IF ~Stopped' /\ done'[t] < Chain THEN 1 ELSE 0
    <3>1. /\ Active = {1} /\ args.total \in Nat /\ Share(1) = args.total
          /\ Chain = IF args.scenario = "callbacks" /\ args.total = 0
                       THEN 1 ELSE args.total
          /\ Goal(1) = IF args.scenario = "callbacks" /\ args.total = 0 /\ ~args.poll
                         THEN 1 ELSE args.total
      BY <1>1, <2>5, ChainFacts
    <3>2. t = 1 /\ done[t] \in Nat
      BY <1>1, <2>4, <3>1
    <3>3. in_flight[t] = 1 /\ done[t] < Chain /\ ~Stopped
      BY <1>0, <2>1, <2>5 DEF ChainInv
    <3>4. done[t] + 1 <= Goal(t)
      <4>1. CASE args.scenario = "callbacks" /\ args.total = 0
        <5>1. Chain = 1 /\ done[t] = 0
          BY <3>1, <3>2, <3>3, <4>1
        <5>2. ~args.poll
          BY <2>1, <3>1, <3>2, <4>1, <5>1
        <5>3. QED
          BY <3>1, <3>2, <4>1, <5>1, <5>2
      <4>2. CASE ~(args.scenario = "callbacks" /\ args.total = 0)
        <5>1. Chain = args.total /\ Goal(t) = args.total
          BY <3>1, <3>2, <4>2
        <5>2. QED
          BY <3>1, <3>2, <3>3, <5>1
      <4>3. QED
        BY <4>1, <4>2
    <3>5. ~Ends(a) => more = IF done[t] + 1 < args.total THEN 1 ELSE 0
      BY <2>5 DEF Refill
    <3>6. Ends(a) => more = 0
      OBVIOUS
    <3> HIDE DEF more
    <3>7. in_flight'[t] = more
      BY <2>1, <3>3, <3>5, <3>6
    <3>8. done[t] + 1 < args.total <=> done[t] + 1 < Chain
      BY <3>1, <3>2
    <3>9. QED
      BY <2>1, <2>3, <3>3, <3>4, <3>5, <3>6, <3>7, <3>8
  <2>6. AtWork(t)
    BY <2>1, <2>3, <2>4, <2>5 DEF AtWork
  <2>7. QED
    BY <1>0, <2>1, <2>6, LoopInvAlone
<1>5. ASSUME NEW t \in Threads, Returns(t)
      PROVE  LoopInv'
  <2>1. /\ Alone(t) /\ ~Pooled /\ LoopEnds(t)
        /\ stage[t] = "running" /\ stage'[t] = "returned"
        /\ in_flight'[t] = 0 /\ done'[t] = done[t]
        /\ answers' = answers /\ args' = args
    BY <1>0, <1>5, ReturnsEffect DEF Alone
  <2>2. Stopped' <=> Stopped
    BY <2>1 DEF Stopped
  <2>3. t \in Active /\ (NoWindow => done[t] = 0)
    BY <1>0, <2>1 DEF IdleInv
  <2>4. done[t] <= Goal(t) /\ (~Stopped => done[t] = Goal(t))
    <3>1. done[t] \in Nat /\ in_flight[t] \in Nat /\ Share(t) \in Nat
      BY <1>1, <1>2
    <3>0. CASE NoWindow
      BY <2>3, <3>0 DEF Goal
    <3>2. CASE args.scenario = "refill" /\ ~NoWindow
      <4>1. in_flight[t] = Min({Window, Share(t) - done[t]})
        BY <1>0, <2>1, <3>2 DEF WindowsFull
      <4>2. in_flight[t] = IF Window < Share(t) - done[t] THEN Window
                                                          ELSE Share(t) - done[t]
        BY <1>2, <3>1, <4>1, MinOfTwo
      <4>3. done[t] <= Share(t)
        BY <1>2, <3>1, <4>2
      <4>4. ASSUME args.poll
            PROVE  done[t] = Share(t)
        BY <2>1, <3>1, <4>3, <4>4 DEF LoopEnds
      <4>5. ASSUME ~args.poll
            PROVE  done[t] = Share(t)
        <5>1. in_flight[t] = 0
          BY <2>1, <4>5 DEF LoopEnds
        <5>2. CASE Window = 0
          <6>1. args.total = 0
            BY <1>2, <3>2, <5>2 DEF NoWindow
          <6>2. \A d \in Nat \ {0} : 0 \div d = 0 /\ 0 % d = 0
            BY Z3
          <6>3. Share(t) = IF t - 1 < 0 THEN 1 ELSE 0
            BY <1>2, <6>1, <6>2 DEF Share
          <6>4. t >= 1
            BY ThreadsAssumption, ArgumentsAssumption, FS_CardinalityType
          <6>5. t \in Nat
            BY <1>1, SharesAndWindows
          <6>6. QED
            BY <3>1, <4>3, <6>3, <6>4, <6>5
        <5>3. CASE Window # 0
          BY <1>2, <3>1, <4>2, <5>1, <5>3
        <5>4. QED
          BY <5>2, <5>3
      <4>6. done[t] = Share(t)
        BY <4>4, <4>5
      <4>7. QED
        BY <3>1, <3>2, <4>6 DEF Goal
    <3>3. CASE args.scenario \in {"callbacks", "coroutine"}
      <4>1. /\ Active = {1} /\ args.total \in Nat /\ Share(1) = args.total
            /\ args.scenario = "coroutine" => ~args.poll
            /\ Chain = IF args.scenario = "callbacks" /\ args.total = 0
                         THEN 1 ELSE args.total
            /\ Goal(1) = IF args.scenario = "callbacks" /\ args.total = 0 /\ ~args.poll
                           THEN 1 ELSE args.total
        BY <1>1, <3>3, ChainFacts
      <4>2. t = 1
        BY <2>3, <4>1
      <4>3. /\ done[t] <= Goal(t)
            /\ in_flight[t] = IF ~Stopped /\ done[t] < Chain THEN 1 ELSE 0
        BY <1>0, <2>1, <3>3 DEF ChainInv
      <4>4. CASE args.poll
        BY <2>1, <3>1, <4>1, <4>2, <4>3, <4>4 DEF LoopEnds
      <4>5. CASE ~args.poll
        <5>1. in_flight[t] = 0
          BY <2>1, <4>5 DEF LoopEnds
        <5>2. Goal(t) = Chain
          BY <3>3, <4>1, <4>2, <4>5
        <5>3. ~Stopped => ~(done[t] < Chain)
          BY <4>3, <5>1
        <5>4. QED
          BY <3>1, <4>1, <4>3, <5>2, <5>3
      <4>6. QED
        BY <4>4, <4>5
    <3>4. args.scenario \in {"refill", "callbacks", "coroutine"}
      BY <1>1, <2>1, SharesAndWindows DEF Scenarios, Pooled
    <3>5. QED
      BY <3>0, <3>2, <3>3, <3>4
  <2>5. AtWork(t)
    BY <2>1, <2>2, <2>3, <2>4 DEF AtWork
  <2>6. QED
    BY <1>0, <2>1, <2>5, LoopInvAlone
<1>6. ASSUME NEW t \in Threads, Adds(t)
      PROVE  LoopInv'
  <2>1. /\ Alone(t) /\ ~Pooled
        /\ stage[t] = "returned" /\ stage'[t] = "over"
        /\ in_flight'[t] = in_flight[t] /\ done'[t] = done[t]
        /\ answers' = answers /\ args' = args
    BY <1>0, <1>6, AddsEffect DEF Alone
  <2>2. Stopped' <=> Stopped
    BY <2>1 DEF Stopped
  <2>3. t \in Active /\ in_flight[t] = 0 /\ (NoWindow => done[t] = 0)
    BY <1>0, <2>1 DEF IdleInv
  <2>4. done[t] <= Goal(t) /\ (~Stopped => done[t] = Goal(t))
    BY <1>0, <2>1, <2>3 DEF FinishedInv
  <2>5. AtWork(t)
    BY <2>1, <2>2, <2>3, <2>4 DEF AtWork
  <2>6. QED
    BY <1>0, <2>1, <2>5, LoopInvAlone
<1>7. ASSUME NEW t \in Threads, TakesNumber(t)
      PROVE  LoopInv'
  <2>1. /\ Alone(t) /\ Pooled
        /\ stage[t] \in {"new", "running"} /\ stage'[t] \in {"running", "over"}
        /\ stage'[t] = "over" => in_flight'[t] = 0
        /\ answers' = answers /\ args' = args
    BY <1>0, <1>7, TakesEffect DEF Alone
  <2>2. ~Stopped /\ ~NoWindow
    BY <2>1 DEF Stopped, NoWindow, Pooled
  <2>3. t \in Active
    BY <1>0, <2>1 DEF IdleInv
  <2>4. args.scenario \notin {"callbacks", "coroutine"}
    BY <2>1 DEF Pooled
  <2>5. AtWork(t)
    BY <2>1, <2>2, <2>3, <2>4 DEF AtWork
  <2>6. QED
    BY <1>0, <2>1, <2>5, LoopInvAlone
<1>8. ASSUME NEW t \in Threads, NEW a \in Answers, Answered(t, a)
      PROVE  LoopInv'
  <2>1. /\ Alone(t) /\ Pooled
        /\ in_flight[t] = 1 /\ in_flight'[t] = 0 /\ stage' = stage
        /\ args' = args
    BY <1>0, <1>8, AnsweredEffect DEF Alone
  <2>2. ~Stopped /\ ~NoWindow
    BY <2>1 DEF Stopped, NoWindow, Pooled
  <2>3. stage[t] = "running" /\ t \in Active
    BY <1>0, <2>1 DEF IdleInv
  <2>4. args.scenario \notin {"callbacks", "coroutine"}
    BY <2>1 DEF Pooled
  <2>5. AtWork(t)
    BY <2>1, <2>2, <2>3, <2>4 DEF AtWork
  <2>6. QED
    BY <1>0, <2>1, <2>5, LoopInvAlone
<1>9. CASE UNCHANGED <<args, stage, in_flight, done, answers>>
  <2>1. /\ Active' = Active /\ (Pooled' <=> Pooled) /\ (NoWindow' <=> NoWindow)
        /\ \A s : Goal(s)' = Goal(s)
        /\ Chain' = Chain
    BY <1>9, SameArgs
  <2>2. Stopped' <=> Stopped
    BY <1>9 DEF Stopped
  <2>3. QED
    BY <1>0, <1>9, <2>1, <2>2 DEF LoopInv, IdleInv, ChainInv, FinishedInv
<1>10. CASE Reports
  BY <1>9, <1>10 DEF Reports
<1>11. CASE (\E t \in Threads : Lives(t)) \/ UNCHANGED vars
  BY <1>9, <1>11, LivesEffect DEF Counters
<1>12. QED
  BY <1>3, <1>4, <1>5, <1>6, <1>7, <1>8, <1>10, <1>11 DEF Next, Works

(* Each step of a pool takes a number, or has the answer to one taken.     *)
LEMMA PoolStep ==
  IInv /\ TypeOK' /\ [Next]_vars => PoolInv'
<1> SUFFICES ASSUME IInv, TypeOK', [Next]_vars PROVE PoolInv'
  OBVIOUS
<1>0. TypeOK /\ IdleInv /\ PoolInv
  BY DEF IInv, WindowInv
<1>1. /\ args \in Args /\ next \in Nat
      /\ in_flight \in [Threads -> Nat] /\ done \in [Threads -> Nat]
      /\ launched \in [Threads -> Nat] /\ failed_here \in [Threads -> Nat]
  BY <1>0 DEF TypeOK
<1>2. Active \in SUBSET Threads /\ args.total \in Nat
  BY <1>1, ActiveThreads
<1>3. ASSUME ~Pooled, args' = args
      PROVE  PoolInv'
  BY <1>3, SameArgs DEF PoolInv
<1>4. ASSUME NEW t \in Threads, TakesNumber(t)
      PROVE  PoolInv'
  <2>1. /\ Alone(t) /\ Pooled /\ in_flight[t] = 0
        /\ next' = next + 1
        /\ next < args.total =>
             /\ stage'[t] = "running" /\ in_flight'[t] = 1
             /\ launched'[t] = launched[t] + 1
        /\ ~(next < args.total) =>
             stage'[t] = "over" /\ in_flight'[t] = 0 /\ launched'[t] = launched[t]
        /\ done' = done /\ failed_here' = failed_here
    BY <1>0, <1>4, TakesEffect
  <2>2. /\ args' = args
        /\ \A s \in Threads \ {t} :
             /\ stage'[s] = stage[s] /\ in_flight'[s] = in_flight[s]
             /\ launched'[s] = launched[s]
    BY <2>1 DEF Alone
  <2>3. Active' = Active
    BY <2>2, SameArgs
  <2>4. /\ SumFunction(launched) = Min({next, args.total})
        /\ \A s \in Threads : launched[s] = done[s] + in_flight[s] /\ failed_here[s] = 0
        /\ \A s \in Active : stage[s] = "over" => next >= args.total
    BY <1>0, <2>1 DEF PoolInv
  <2>5. SumFunction(launched') = Min({next', args.total'})
    <3>1. SumFunction(launched')
            = SumFunction(launched) + (launched'[t] - launched[t])
      BY <1>0, <2>1, SumsMove
    <3>2. Min({next, args.total}) = IF next < args.total THEN next ELSE args.total
      BY <1>1, <1>2, MinOfTwo
    <3>3. Min({next + 1, args.total})
            = IF next + 1 < args.total THEN next + 1 ELSE args.total
      BY <1>1, <1>2, MinOfTwo
    <3>4. Min({next', args.total'}) = Min({next + 1, args.total})
      BY <2>1, <2>2
    <3>5. launched[t] \in Nat
      BY <1>1
    <3>6. launched'[t] - launched[t] = IF next < args.total THEN 1 ELSE 0
      BY <2>1, <3>5
    <3>7. SumFunction(launched) = IF next < args.total THEN next ELSE args.total
      BY <2>4, <3>2
    <3>8. SumFunction(launched')
            = IF next + 1 < args.total THEN next + 1 ELSE args.total
      BY <1>1, <1>2, <3>1, <3>6, <3>7
    <3>9. QED
      BY <3>3, <3>4, <3>8
  <2>6. \A s \in Threads : launched'[s] = done'[s] + in_flight'[s] /\ failed_here'[s] = 0
    <3> SUFFICES ASSUME NEW s \in Threads
                 PROVE  launched'[s] = done'[s] + in_flight'[s] /\ failed_here'[s] = 0
      OBVIOUS
    <3>1. launched[s] \in Nat /\ done[s] \in Nat /\ in_flight[s] \in Nat
      BY <1>1
    <3>2. CASE s = t
      BY <2>1, <2>4, <3>1, <3>2
    <3>3. CASE s # t
      BY <2>1, <2>2, <2>4, <3>3
    <3>4. QED
      BY <3>2, <3>3
  <2>7. \A s \in Active : stage'[s] = "over" => next' >= args.total
    <3> SUFFICES ASSUME NEW s \in Active, stage'[s] = "over"
                 PROVE  next' >= args.total
      OBVIOUS
    <3>1. s \in Threads
      BY <1>2
    <3>2. CASE s = t
      BY <1>1, <1>2, <2>1, <3>2
    <3>3. CASE s # t
      <4>1. next >= args.total
        BY <2>2, <2>4, <3>1, <3>3
      <4>2. QED
        BY <1>1, <1>2, <2>1, <4>1
    <3>4. QED
      BY <3>2, <3>3
  <2>8. QED
    BY <2>2, <2>3, <2>5, <2>6, <2>7 DEF PoolInv
<1>5. ASSUME NEW t \in Threads, NEW a \in Answers, Answered(t, a)
      PROVE  PoolInv'
  <2>1. /\ Alone(t) /\ Pooled
        /\ in_flight[t] = 1 /\ in_flight'[t] = 0 /\ done'[t] = done[t] + 1
        /\ UNCHANGED <<stage, launched, failed_here, next>>
    BY <1>0, <1>5, AnsweredEffect
  <2>2. /\ args' = args
        /\ \A s \in Threads \ {t} :
             in_flight'[s] = in_flight[s] /\ done'[s] = done[s]
    BY <2>1 DEF Alone
  <2>3. Active' = Active
    BY <2>2, SameArgs
  <2>4. /\ SumFunction(launched) = Min({next, args.total})
        /\ \A s \in Threads : launched[s] = done[s] + in_flight[s] /\ failed_here[s] = 0
        /\ \A s \in Active : stage[s] = "over" => next >= args.total
    BY <1>0, <2>1 DEF PoolInv
  <2>5. \A s \in Threads : launched'[s] = done'[s] + in_flight'[s] /\ failed_here'[s] = 0
    <3> SUFFICES ASSUME NEW s \in Threads
                 PROVE  launched'[s] = done'[s] + in_flight'[s] /\ failed_here'[s] = 0
      OBVIOUS
    <3>1. launched[s] \in Nat /\ done[s] \in Nat /\ in_flight[s] \in Nat
      BY <1>1
    <3>2. CASE s = t
      BY <2>1, <2>4, <3>1, <3>2
    <3>3. CASE s # t
      BY <2>1, <2>2, <2>4, <3>3
    <3>4. QED
      BY <3>2, <3>3
  <2>6. SumFunction(launched)' = SumFunction(launched)
    BY <2>1
  <2>7. QED
    BY <2>1, <2>2, <2>3, <2>4, <2>5, <2>6 DEF PoolInv
<1>6. ASSUME NEW t \in Threads,
             Opens(t) \/ Returns(t) \/ Adds(t) \/ \E a \in Answers : Handler(t, a)
      PROVE  PoolInv'
  BY <1>0, <1>3, <1>6, OpensEffect, ReturnsEffect, AddsEffect, HandlerEffect
     DEF Alone
<1>7. CASE UNCHANGED <<args, stage, in_flight, launched, done, failed_here, next>>
  <2>1. (Pooled' <=> Pooled) /\ Active' = Active
    BY <1>7, SameArgs
  <2>2. SumFunction(launched)' = SumFunction(launched)
    BY <1>7
  <2>3. QED
    BY <1>0, <1>7, <2>1, <2>2 DEF PoolInv
<1>8. CASE Reports
  BY <1>7, <1>8 DEF Reports
<1>9. CASE (\E t \in Threads : Lives(t)) \/ UNCHANGED vars
  BY <1>7, <1>9, LivesEffect DEF Counters
<1>10. QED
  BY <1>4, <1>5, <1>6, <1>8, <1>9 DEF Next, Works

(* Each step counts an answer where it is met and passes a failure on.     *)
LEMMA CountsStep ==
  IInv /\ TypeOK' /\ [Next]_vars => CountsInv'
<1> SUFFICES ASSUME IInv, TypeOK', [Next]_vars PROVE CountsInv'
  OBVIOUS
<1>0. TypeOK /\ IdleInv /\ ChainInv /\ PoolInv /\ CountsInv
  BY DEF IInv, WindowInv
<1>1. /\ args \in Args /\ failed \in Nat
      /\ done \in [Threads -> Nat] /\ failed_here \in [Threads -> Nat]
  BY <1>0 DEF TypeOK
<1>2. /\ answers["ok"] \in Nat /\ answers["status"] \in Nat /\ answers["error"] \in Nat
  BY <1>0 DEF TypeOK, Answers
<1>3. /\ SumFunction(done) = answers["ok"] + answers["status"] + answers["error"]
      /\ failed + SumFunction(Unreported) = answers["status"] + ErrorsCounted
      /\ args.scenario = "coroutine" => answers["error"] <= 1
  BY <1>0 DEF CountsInv
(* What is not reported yet of a thread. *)
<1>4. /\ \A t \in Threads : Unreported[t] = IF stage[t] = "over" THEN 0 ELSE failed_here[t]
      /\ \A t \in Threads : Unreported'[t] = IF stage'[t] = "over" THEN 0
                                                                   ELSE failed_here'[t]
  BY DEF Unreported
<1>5. ASSUME NEW t \in Threads, stage[t] # "over"
      PROVE  report = None
  BY <1>0, <1>5 DEF CountsInv
<1>6. ASSUME NEW t \in Threads, Opens(t) \/ Returns(t)
      PROVE  CountsInv'
  <2>1. /\ Alone(t) /\ stage[t] \in {"new", "running"}
        /\ stage'[t] \in {"running", "returned"}
        /\ done'[t] = done[t] /\ failed_here'[t] = failed_here[t]
        /\ UNCHANGED <<failed, report, answers>> /\ args' = args
    BY <1>0, <1>6, OpensEffect, ReturnsEffect DEF Alone
  <2>2. /\ SumFunction(done') = SumFunction(done) + (done'[t] - done[t])
        /\ SumFunction(Unreported')
             = SumFunction(Unreported) + (Unreported'[t] - Unreported[t])
        /\ SumFunction(done) \in Int /\ SumFunction(Unreported) \in Int
    BY <1>0, <2>1, SumsMove
  <2>3. done[t] \in Nat /\ Unreported[t] \in Nat /\ Unreported'[t] = Unreported[t]
    BY <1>1, <1>4, <2>1
  <2>4. SumFunction(done') = SumFunction(done)
        /\ SumFunction(Unreported') = SumFunction(Unreported)
    BY <2>1, <2>2, <2>3
  <2>5. report' = None /\ ErrorsCounted' = ErrorsCounted
    BY <1>5, <2>1 DEF ErrorsCounted
  <2>6. QED
    BY <1>3, <2>1, <2>4, <2>5 DEF CountsInv
<1>7. ASSUME NEW t \in Threads, NEW a \in Answers, Handler(t, a)
      PROVE  CountsInv'
  <2>1. /\ Alone(t) /\ stage[t] = "running" /\ stage'[t] = "running"
        /\ done'[t] = done[t] + 1
        /\ failed_here'[t] = IF a = "ok" \/ Ends(a) THEN failed_here[t]
                                                     ELSE failed_here[t] + 1
        /\ answers' = [answers EXCEPT ![a] = @ + 1]
        /\ failed' = failed /\ report' = report /\ args' = args
    BY <1>0, <1>7, HandlerEffect DEF Alone
  <2>2. /\ SumFunction(done') = SumFunction(done) + (done'[t] - done[t])
        /\ SumFunction(Unreported')
             = SumFunction(Unreported) + (Unreported'[t] - Unreported[t])
        /\ SumFunction(done) \in Int /\ SumFunction(Unreported) \in Int
    BY <1>0, <2>1, SumsMove
  <2>3. /\ answers'["ok"] + answers'["status"] + answers'["error"]
             = answers["ok"] + answers["status"] + answers["error"] + 1
        /\ answers'["status"] + answers'["error"]
             = answers["status"] + answers["error"] + (IF a = "ok" THEN 0 ELSE 1)
        /\ answers'["error"] = answers["error"] + (IF a = "error" THEN 1 ELSE 0)
    BY <1>0, <2>1, AnswersAdd
  <2>4. /\ ErrorsCounted' = ErrorsCounted +
             (IF a = "error" /\ ~Ends(a) THEN 1 ELSE 0)
        /\ ErrorsCounted \in Nat
    BY <1>2, <2>1, <2>3 DEF ErrorsCounted, Ends
  <2>5. done[t] \in Nat /\ failed_here[t] \in Nat
    BY <1>1
  <2>6. SumFunction(done') = answers'["ok"] + answers'["status"] + answers'["error"]
    BY <1>3, <2>1, <2>2, <2>3, <2>5
  <2>7. failed' + SumFunction(Unreported') = answers'["status"] + ErrorsCounted'
    <3> DEFINE one == IF a = "ok" \/ Ends(a) THEN 0 ELSE 1
    <3>1. Unreported[t] = failed_here[t] /\ Unreported'[t] = failed_here[t] + one
      BY <1>4, <2>1, <2>5
    <3>2. one \in Nat
      OBVIOUS
    <3>3. answers'["status"] + ErrorsCounted' = answers["status"] + ErrorsCounted + one
      <4>1. answers'["status"] \in Nat /\ answers'["error"] \in Nat
        BY <1>0 DEF TypeOK, Answers
      <4>2. /\ a = "ok" => answers'["status"] = answers["status"] /\ ~Ends(a)
            /\ a = "status" => answers'["status"] = answers["status"] + 1 /\ ~Ends(a)
            /\ a = "error" => answers'["status"] = answers["status"]
        BY <1>2, <2>3, <4>1 DEF Ends
      <4>3. a \in {"ok", "status", "error"}
        BY DEF Answers
      <4>4. QED
        BY <1>2, <2>4, <4>2, <4>3
    <3> HIDE DEF one
    <3>4. SumFunction(Unreported') = SumFunction(Unreported) + one
      BY <2>2, <2>5, <3>1, <3>2
    <3>5. QED
      BY <1>1, <1>2, <1>3, <2>1, <2>2, <2>4, <3>2, <3>3, <3>4
  <2>8. ASSUME args.scenario = "coroutine"
        PROVE  answers'["error"] <= 1
    <3>1. ~Stopped
      BY <1>0, <2>1, <2>8, <1>7, HandlerEffect DEF ChainInv
    <3>2. answers["error"] = 0
      BY <1>2, <2>8, <3>1 DEF Stopped
    <3>3. QED
      BY <2>3, <3>2
  <2>9. report' = None /\ args' = args
    BY <1>5, <2>1
  <2>10. QED
    BY <2>6, <2>7, <2>8, <2>9 DEF CountsInv
<1>8. ASSUME NEW t \in Threads, Adds(t)
      PROVE  CountsInv'
  <2>1. /\ Alone(t) /\ stage[t] = "returned" /\ stage'[t] = "over"
        /\ done'[t] = done[t] /\ failed' = failed + failed_here[t]
        /\ report' = report /\ answers' = answers /\ args' = args
    BY <1>0, <1>8, AddsEffect DEF Alone
  <2>2. /\ SumFunction(done') = SumFunction(done) + (done'[t] - done[t])
        /\ SumFunction(Unreported')
             = SumFunction(Unreported) + (Unreported'[t] - Unreported[t])
        /\ SumFunction(done) \in Int /\ SumFunction(Unreported) \in Int
    BY <1>0, <2>1, SumsMove
  <2>3. done[t] \in Nat /\ failed_here[t] \in Nat
        /\ Unreported[t] = failed_here[t] /\ Unreported'[t] = 0
    BY <1>1, <1>4, <2>1
  <2>4. SumFunction(done') = SumFunction(done)
        /\ failed' + SumFunction(Unreported') = failed + SumFunction(Unreported)
    BY <1>1, <2>1, <2>2, <2>3
  <2>5. report' = None /\ ErrorsCounted' = ErrorsCounted
    BY <1>5, <2>1 DEF ErrorsCounted
  <2>6. QED
    BY <1>3, <2>1, <2>4, <2>5 DEF CountsInv
<1>9. ASSUME NEW t \in Threads, TakesNumber(t)
      PROVE  CountsInv'
  <2>1. /\ Alone(t) /\ Pooled /\ stage[t] \in {"new", "running"}
        /\ UNCHANGED <<done, failed_here, failed, report, answers>> /\ args' = args
    BY <1>0, <1>9, TakesEffect DEF Alone
  <2>2. /\ SumFunction(Unreported')
             = SumFunction(Unreported) + (Unreported'[t] - Unreported[t])
        /\ SumFunction(Unreported) \in Int
    BY <1>0, <2>1, SumsMove
  <2>3. failed_here[t] = 0
    BY <1>0, <2>1 DEF PoolInv
  <2>4. Unreported[t] = 0 /\ Unreported'[t] = 0
    BY <1>4, <2>1, <2>3
  <2>5. SumFunction(done') = SumFunction(done)
        /\ SumFunction(Unreported') = SumFunction(Unreported)
    BY <2>1, <2>2, <2>4
  <2>6. report' = None /\ ErrorsCounted' = ErrorsCounted
    BY <1>5, <2>1 DEF ErrorsCounted
  <2>7. QED
    BY <1>3, <2>1, <2>5, <2>6 DEF CountsInv
<1>10. ASSUME NEW t \in Threads, NEW a \in Answers, Answered(t, a)
      PROVE  CountsInv'
  <2>1. /\ Alone(t) /\ Pooled /\ in_flight[t] = 1
        /\ done'[t] = done[t] + 1
        /\ failed' = failed + (IF a = "ok" THEN 0 ELSE 1)
        /\ answers' = [answers EXCEPT ![a] = @ + 1]
        /\ UNCHANGED <<stage, failed_here, report>> /\ args' = args
    BY <1>0, <1>10, AnsweredEffect DEF Alone
  <2>2. /\ SumFunction(done') = SumFunction(done) + (done'[t] - done[t])
        /\ SumFunction(done) \in Int /\ SumFunction(Unreported) \in Int
    BY <1>0, <2>1, SumsMove
  <2>3. /\ answers'["ok"] + answers'["status"] + answers'["error"]
             = answers["ok"] + answers["status"] + answers["error"] + 1
        /\ answers'["status"] + answers'["error"]
             = answers["status"] + answers["error"] + (IF a = "ok" THEN 0 ELSE 1)
    BY <1>0, <2>1, AnswersAdd
  <2>4. Unreported' = Unreported
    BY <2>1 DEF Unreported
  <2>5. done[t] \in Nat
    BY <1>1
  <2>6. SumFunction(done') = answers'["ok"] + answers'["status"] + answers'["error"]
    BY <1>3, <2>1, <2>2, <2>3, <2>5
  <2>7. args.scenario # "coroutine" /\ ErrorsCounted = answers["error"]
        /\ ErrorsCounted' = answers'["error"]
    BY <2>1 DEF ErrorsCounted, Pooled
  <2>8. failed' + SumFunction(Unreported') = answers'["status"] + ErrorsCounted'
    <3>1. failed + SumFunction(Unreported) = answers["status"] + answers["error"]
      BY <1>3, <2>7
    <3>2. SumFunction(Unreported') = SumFunction(Unreported)
      BY <2>4
    <3>3. QED
      BY <1>1, <1>2, <2>1, <2>2, <2>3, <2>7, <3>1, <3>2
  <2>9. stage[t] # "over"
    BY <1>0, <2>1 DEF IdleInv
  <2>10. report' = None
    BY <1>5, <2>1, <2>9
  <2>11. QED
    BY <2>1, <2>6, <2>7, <2>8, <2>10 DEF CountsInv
<1>11. ASSUME UNCHANGED <<args, stage, done, failed_here, failed, answers>>
       PROVE  /\ SumFunction(done)' = SumFunction(done)
              /\ SumFunction(Unreported)' = SumFunction(Unreported)
              /\ ErrorsCounted' = ErrorsCounted
  BY <1>11 DEF ErrorsCounted, Unreported
<1>12. CASE Reports
  <2>1. /\ UNCHANGED <<args, stage, done, failed_here, failed, answers>>
        /\ report' = failed /\ \A t \in Threads : stage[t] = "over"
    BY <1>12 DEF Reports
  <2>2. QED
    BY <1>3, <1>11, <2>1 DEF CountsInv
<1>13. CASE (\E t \in Threads : Lives(t)) \/ UNCHANGED vars
  <2>1. UNCHANGED Counters
    BY <1>13, LivesEffect
  <2>2. QED
    BY <1>0, <1>11, <2>1 DEF CountsInv, Counters
<1>14. QED
  BY <1>6, <1>7, <1>8, <1>9, <1>10, <1>12, <1>13 DEF Next, Works

(* It holds at first: nothing is launched, answered or reported.           *)
LEMMA CountersInit == Init => LoopInv /\ PoolInv /\ CountsInv
<1> SUFFICES ASSUME Init PROVE LoopInv /\ PoolInv /\ CountsInv
  OBVIOUS
<1>0. args \in Args /\ IsFiniteSet(Threads)
  BY ThreadsAssumption DEF Init
<1>1. Active \in SUBSET Threads /\ args.total \in Nat
  BY <1>0, ActiveThreads
<1>2. /\ stage = [t \in Threads |-> IF t \in Active THEN "new" ELSE "over"]
      /\ in_flight = [t \in Threads |-> 0] /\ launched = [t \in Threads |-> 0]
      /\ done = [t \in Threads |-> 0] /\ failed_here = [t \in Threads |-> 0]
      /\ next = 0 /\ failed = 0 /\ report = None
      /\ answers = [a \in Answers |-> 0]
  BY DEF Init
<1>3. LoopInv
  BY <1>1, <1>2 DEF LoopInv, IdleInv, ChainInv, FinishedInv
<1>4. PoolInv
  <2>1. SumFunction(launched) = 0
    BY <1>0, <1>2, SumOfZeros
  <2>2. Min({0, args.total}) = 0
    BY <1>1, MinOfTwo
  <2>3. QED
    BY <1>1, <1>2, <2>1, <2>2 DEF PoolInv
<1>5. CountsInv
  <2>1. Unreported = [t \in Threads |-> 0]
    BY <1>2 DEF Unreported
  <2>2. SumFunction(done) = 0 /\ SumFunction(Unreported) = 0
    BY <1>0, <1>2, <2>1, SumOfZeros
  <2>3. answers["ok"] = 0 /\ answers["status"] = 0 /\ answers["error"] = 0
    BY <1>2 DEF Answers
  <2>4. QED
    BY <1>2, <2>2, <2>3 DEF CountsInv, ErrorsCounted
<1>6. QED
  BY <1>3, <1>4, <1>5

-----------------------------------------------------------------------------

(* The inductive invariant holds, with libcurl's.                          *)
THEOREM InvHolds == Spec => []IInv
<1>1. Init => IInv
  BY WindowInvInit, CountersInit DEF IInv, LoopInv
<1>2. LibraryInv /\ IInv /\ [Next]_vars => IInv'
  <2> SUFFICES ASSUME LibraryInv, IInv, [Next]_vars PROVE IInv'
    OBVIOUS
  <2>1. WindowInv'
    BY TypeStep, WindowStep DEF IInv, WindowInv
  <2>2. TypeOK'
    BY <2>1 DEF WindowInv
  <2>3. LoopInv' /\ PoolInv' /\ CountsInv'
    BY <2>2, LoopStep, PoolStep, CountsStep
  <2>4. QED
    BY <2>1, <2>3 DEF IInv, LoopInv
<1>3. Spec => []LibraryInv
  BY ImplementsGlobalInit, LibraryInvHolds, PTL
<1>4. QED
  BY <1>1, <1>2, <1>3, PTL DEF Spec

(* Every counter of the benchmark is a natural number, and its arguments   *)
(* stay what they were.                                                    *)
THEOREM TypeCorrect == Spec => []TypeOK
<1>1. IInv => TypeOK
  BY DEF IInv, WindowInv
<1>2. QED
  BY <1>1, InvHolds, PTL

(* The window of each running loop is full while the loop has requests     *)
(* left to make, and never fuller, for any number of loops and requests.   *)
THEOREM WindowsStayFull == Spec => []WindowsFull
<1>1. IInv => WindowsFull
  BY DEF IInv, WindowInv
<1>2. QED
  BY <1>1, InvHolds, PTL

(* The windows are full, the loops together never have more in flight than *)
(* the concurrency asked for, and short of it by exactly the remainder of  *)
(* its division between them while all are busy.                           *)
THEOREM ConcurrencyHolds == Spec => []ConcurrencyDivided
BY WindowsFit, InvHolds, PTL

(* What is reported adds up in every run, however its threads interleave:  *)
(* the requests it makes are answered once each, and the failures reported *)
(* are those met.  The exceptions are the property's own: loops without a  *)
(* window make none, a chain of callbacks of length 0 makes one, and a     *)
(* coroutine ends at its first error, which is left out.                   *)
THEOREM ReportIsRight == Spec => []ReportAddsUp
BY OverAddsUp, InvHolds, PTL

=============================================================================
