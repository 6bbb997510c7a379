-------------------------- MODULE EpollHttpProofs ---------------------------
(***************************************************************************)
(* The baseline client for any requests, handles and pool: its handles are *)
(* in one place each and none is lost, and every step is one AsyncRequest  *)
(* allows.  IInv, defined in module EpollHttp, is inductive.               *)
(***************************************************************************)
EXTENDS EpollHttp, FiniteSetTheorems, SequenceTheorems, TLAPS

-----------------------------------------------------------------------------
(* Sequences as sets *)

(* Every element of a sequence is at some position. *)
LEMMA ToSetFacts ==
  ASSUME NEW S, NEW s \in Seq(S)
  PROVE  /\ Len(s) \in Nat
         /\ \A i \in 1..Len(s) : s[i] \in S
         /\ ToSet(s) = {s[i] : i \in 1..Len(s)}
         /\ IsInjective(s) <=> \A i, j \in 1..Len(s) : s[i] = s[j] => i = j
<1>1. DOMAIN s = 1..Len(s) /\ Len(s) \in Nat
  BY LenProperties
<1>2. \A i \in 1..Len(s) : s[i] \in S
  BY ElementOfSeq
<1>3. QED
  BY <1>1, <1>2 DEF ToSet, IsInjective

(* The empty one has none. *)
LEMMA EmptyFacts == ToSet(<<>>) = {} /\ IsInjective(<<>>)
<1>1. <<>> \in Seq({}) /\ 1..Len(<<>>) = {}
  BY EmptySeq
<1>2. ToSet(<<>>) = {<<>>[i] : i \in 1..Len(<<>>)}
  BY <1>1, ToSetFacts
<1>3. \A i, j \in 1..Len(<<>>) : <<>>[i] = <<>>[j] => i = j
  BY <1>1
<1>4. IsInjective(<<>>)
  BY <1>1, <1>3, ToSetFacts
<1>5. QED
  BY <1>1, <1>2, <1>4

(* Taking the last element off, as request() does with the pool. *)
LEMMA FrontFacts ==
  ASSUME NEW S, NEW s \in Seq(S), s # <<>>
  PROVE  /\ Last(s) \in ToSet(s) /\ Last(s) \in S
         /\ Front(s) \in Seq(S)
         /\ IsInjective(s) => IsInjective(Front(s))
         /\ IsInjective(s) => ToSet(Front(s)) = ToSet(s) \ {Last(s)}
<1> DEFINE n == Len(s)
           f == Front(s)
<1>1. n \in Nat \ {0} /\ \A i \in 1..n : s[i] \in S
  BY EmptySeq, ToSetFacts
<1>2. f = SubSeq(s, 1, n - 1)
  BY DEF Front
<1>3. /\ f \in Seq(S) /\ Len(f) = n - 1
      /\ \A i \in 1..n - 1 : f[i] = s[i]
  <2>1. n - 1 \in Int /\ \A i \in 1..n - 1 : s[i] \in S
    BY <1>1
  <2>2. /\ f \in Seq(S)
        /\ Len(f) = IF 1 <= n - 1 THEN (n - 1) - 1 + 1 ELSE 0
        /\ \A i \in 1..(n - 1) - 1 + 1 : f[i] = s[1 + i - 1]
    BY <1>2, <2>1, SubSeqProperties
  <2> HIDE DEF f
  <2>3. Len(f) = n - 1
    <3>1. CASE n = 1
      <4>1. n - 1 = 0 /\ ~(1 <= 0)
        BY <3>1
      <4>2. QED
        BY <2>2, <4>1
    <3>2. CASE n # 1
      <4>1. 1 <= n - 1 /\ (n - 1) - 1 + 1 = n - 1
        <5> HIDE DEF n
        <5>1. QED
          BY <1>1, <3>2
      <4>2. QED
        BY <2>2, <4>1
    <3>3. QED
      BY <3>1, <3>2
  <2>4. ASSUME NEW i \in 1..n - 1 PROVE f[i] = s[i]
    <3>1. i \in 1..(n - 1) - 1 + 1 /\ 1 + i - 1 = i
      BY <1>1
    <3>2. f[i] = s[1 + i - 1]
      BY <2>2, <3>1
    <3>3. QED
      BY <3>1, <3>2
  <2>5. QED
    BY <2>2, <2>3, <2>4
<1>4. ToSet(s) = {s[i] : i \in 1..n} /\ ToSet(f) = {f[i] : i \in 1..n - 1}
  BY <1>3, ToSetFacts
<1>5. Last(s) = s[n] /\ n \in 1..n
  BY <1>1 DEF Last
<1>6. Last(s) \in ToSet(s) /\ Last(s) \in S
  BY <1>1, <1>4, <1>5
<1> HIDE DEF f
<1>7. ASSUME IsInjective(s) PROVE IsInjective(f) /\ ToSet(f) = ToSet(s) \ {Last(s)}
  <2>1. \A i, j \in 1..n : s[i] = s[j] => i = j
    BY <1>7, ToSetFacts
  <2>2. \A i, j \in 1..Len(f) : f[i] = f[j] => i = j
    BY <1>1, <1>3, <2>1
  <2>3. IsInjective(f)
    BY <1>3, <2>2, ToSetFacts
  <2>4. ASSUME NEW x \in ToSet(f) PROVE x \in ToSet(s) /\ x # Last(s)
    <3>1. PICK i \in 1..n - 1 : x = f[i]
      BY <1>4
    <3>2. i \in 1..n /\ x = s[i] /\ i # n
      BY <1>1, <1>3, <3>1
    <3>3. QED
      BY <1>4, <1>5, <2>1, <3>2
  <2>5. ASSUME NEW x \in ToSet(s), x # Last(s) PROVE x \in ToSet(f)
    <3>1. PICK i \in 1..n : x = s[i]
      BY <1>4
    <3>2. i \in 1..n - 1
      BY <1>1, <1>5, <2>5, <3>1
    <3>3. QED
      BY <1>3, <1>4, <3>1, <3>2
  <2>6. QED
    BY <2>3, <2>4, <2>5
<1>8. QED
  BY <1>3, <1>6, <1>7 DEF f

(* Putting one at the end, as poll() does. *)
LEMMA AppendFacts ==
  ASSUME NEW S, NEW s \in Seq(S), NEW e \in S
  PROVE  /\ Append(s, e) \in Seq(S)
         /\ ToSet(Append(s, e)) = ToSet(s) \union {e}
         /\ IsInjective(s) /\ e \notin ToSet(s) => IsInjective(Append(s, e))
<1> DEFINE n == Len(s)
           t == Append(s, e)
<1>1. /\ t \in Seq(S) /\ Len(t) = n + 1 /\ n \in Nat
      /\ \A i \in 1..n : t[i] = s[i]
      /\ t[n + 1] = e
  BY AppendProperties, ToSetFacts
<1>2. ToSet(s) = {s[i] : i \in 1..n} /\ ToSet(t) = {t[i] : i \in 1..n + 1}
  BY <1>1, ToSetFacts
<1> HIDE DEF t
<1>3. ToSet(t) = ToSet(s) \union {e}
  <2>1. ASSUME NEW x \in ToSet(t) PROVE x \in ToSet(s) \union {e}
    <3>1. PICK i \in 1..n + 1 : x = t[i]
      BY <1>2
    <3>2. i = n + 1 \/ i \in 1..n
      BY <1>1
    <3>3. QED
      BY <1>1, <1>2, <3>1, <3>2
  <2>2. ASSUME NEW x \in ToSet(s) PROVE x \in ToSet(t)
    <3>1. PICK i \in 1..n : x = s[i]
      BY <1>2
    <3>2. i \in 1..n + 1 /\ t[i] = x
      BY <1>1, <3>1
    <3>3. QED
      BY <1>2, <3>2
  <2>3. e \in ToSet(t)
    <3>1. n + 1 \in 1..n + 1
      BY <1>1
    <3>2. QED
      BY <1>1, <1>2, <3>1
  <2>4. QED
    BY <2>1, <2>2, <2>3
<1>4. ASSUME IsInjective(s), e \notin ToSet(s) PROVE IsInjective(t)
  <2>1. \A i, j \in 1..n : s[i] = s[j] => i = j
    BY <1>4, ToSetFacts
  <2>2. \A i \in 1..n : s[i] # e
    BY <1>2, <1>4
  <2>3. \A i, j \in 1..n + 1 : t[i] = t[j] => i = j
    <3> SUFFICES ASSUME NEW i \in 1..n + 1, NEW j \in 1..n + 1, t[i] = t[j]
                 PROVE  i = j
      OBVIOUS
    <3>1. CASE i \in 1..n /\ j \in 1..n
      BY <1>1, <2>1, <3>1
    <3>2. CASE i = n + 1 \/ j = n + 1
      BY <1>1, <2>2, <3>2
    <3>3. QED
      BY <1>1, <3>1, <3>2
  <2>4. QED
    BY <1>1, <2>3, ToSetFacts
<1>5. QED
  BY <1>1, <1>3, <1>4 DEF t

(* Taking the first, as multi_info_read() does with the DONE messages. *)
LEMMA TailFacts ==
  ASSUME NEW S, NEW s \in Seq(S), s # <<>>, IsInjective(s)
  PROVE  /\ Head(s) \in S /\ Tail(s) \in Seq(S)
         /\ Head(s) \in ToSet(s)
         /\ ToSet(Tail(s)) = ToSet(s) \ {Head(s)}
         /\ IsInjective(Tail(s))
<1> DEFINE n == Len(s)
           t == Tail(s)
<1>1. /\ t \in Seq(S) /\ Len(t) = n - 1 /\ n \in Nat \ {0}
      /\ \A i \in 1..n - 1 : t[i] = s[i + 1]
      /\ Head(s) = s[1] /\ Head(s) \in S
  BY HeadTailProperties, EmptySeq
<1> HIDE DEF t
<1>2. ToSet(s) = {s[i] : i \in 1..n} /\ ToSet(t) = {t[i] : i \in 1..n - 1}
  BY <1>1, ToSetFacts
<1>3. \A i, j \in 1..n : s[i] = s[j] => i = j
  BY ToSetFacts
<1>4. ASSUME NEW x \in ToSet(t) PROVE x \in ToSet(s) /\ x # Head(s)
  <2>1. PICK i \in 1..n - 1 : x = t[i]
    BY <1>2
  <2>2. i + 1 \in 1..n /\ x = s[i + 1] /\ i + 1 # 1 /\ 1 \in 1..n
    BY <1>1, <2>1
  <2>3. QED
    BY <1>1, <1>2, <1>3, <2>2
<1>5. ASSUME NEW x \in ToSet(s), x # Head(s) PROVE x \in ToSet(t)
  <2>1. PICK i \in 1..n : x = s[i]
    BY <1>2
  <2>2. i # 1
    BY <1>1, <1>5, <2>1
  <2>3. i - 1 \in 1..n - 1 /\ (i - 1) + 1 = i
    BY <1>1, <2>2
  <2>4. t[i - 1] = x
    BY <1>1, <2>1, <2>3
  <2>5. QED
    BY <1>2, <2>3, <2>4
<1>6. \A i, j \in 1..n - 1 : t[i] = t[j] => i = j
  <2> SUFFICES ASSUME NEW i \in 1..n - 1, NEW j \in 1..n - 1, t[i] = t[j]
               PROVE  i = j
    OBVIOUS
  <2>1. i + 1 \in 1..n /\ j + 1 \in 1..n /\ s[i + 1] = s[j + 1]
    BY <1>1
  <2>2. i + 1 = j + 1
    BY <1>3, <2>1
  <2>3. QED
    BY <2>2
<1>7. Head(s) \in ToSet(s) /\ IsInjective(t)
  <2>1. 1 \in 1..n
    BY <1>1
  <2>2. Head(s) \in ToSet(s)
    BY <1>1, <1>2, <2>1
  <2>3. IsInjective(t)
    BY <1>1, <1>6, ToSetFacts
  <2>4. QED
    BY <2>2, <2>3
<1>8. QED
  BY <1>1, <1>4, <1>5, <1>7 DEF t

(* Joining two, as curl does with the messages of the transfers that end.  *)
LEMMA ConcatFacts ==
  ASSUME NEW S, NEW s \in Seq(S), NEW t \in Seq(S)
  PROVE  /\ s \o t \in Seq(S)
         /\ ToSet(s \o t) = ToSet(s) \union ToSet(t)
         /\ IsInjective(s) /\ IsInjective(t) /\ ToSet(s) \intersect ToSet(t) = {}
              => IsInjective(s \o t)
<1> DEFINE m == Len(s)
           n == Len(t)
           u == s \o t
<1>1. /\ u \in Seq(S) /\ Len(u) = m + n /\ m \in Nat /\ n \in Nat
      /\ \A i \in 1..m + n : u[i] = IF i <= m THEN s[i] ELSE t[i - m]
  BY ConcatProperties, ToSetFacts
<1> HIDE DEF u
<1>2. /\ ToSet(s) = {s[i] : i \in 1..m} /\ ToSet(t) = {t[i] : i \in 1..n}
      /\ ToSet(u) = {u[i] : i \in 1..m + n}
  <2>1. ToSet(s) = {s[i] : i \in 1..m} /\ ToSet(t) = {t[i] : i \in 1..n}
    BY ToSetFacts
  <2>2. ToSet(u) = {u[i] : i \in 1..Len(u)}
    BY <1>1, ToSetFacts
  <2>3. QED
    BY <1>1, <2>1, <2>2
<1>3. ASSUME NEW i \in 1..m + n
      PROVE  \/ i \in 1..m /\ u[i] = s[i] /\ u[i] \in ToSet(s)
             \/ i - m \in 1..n /\ u[i] = t[i - m] /\ u[i] \in ToSet(t)
  <2>1. CASE i <= m
    BY <1>1, <1>2, <2>1
  <2>2. CASE i > m
    <3>1. i - m \in 1..n /\ u[i] = t[i - m]
      BY <1>1, <2>2
    <3>2. QED
      BY <1>2, <3>1
  <2>3. QED
    BY <1>1, <2>1, <2>2
<1>4. ToSet(u) = ToSet(s) \union ToSet(t)
  <2>1. ToSet(u) \subseteq ToSet(s) \union ToSet(t)
    BY <1>2, <1>3
  <2>2. ASSUME NEW x \in ToSet(s) PROVE x \in ToSet(u)
    <3>1. PICK i \in 1..m : x = s[i]
      BY <1>2
    <3>2. i \in 1..m + n /\ u[i] = x
      BY <1>1, <3>1
    <3>3. QED
      BY <1>2, <3>2
  <2>3. ASSUME NEW x \in ToSet(t) PROVE x \in ToSet(u)
    <3>1. PICK i \in 1..n : x = t[i]
      BY <1>2
    <3>2. i + m \in 1..m + n /\ ~(i + m <= m) /\ (i + m) - m = i
      BY <1>1
    <3>3. u[i + m] = x
      BY <1>1, <3>1, <3>2
    <3>4. QED
      BY <1>2, <3>2, <3>3
  <2>4. QED
    BY <2>1, <2>2, <2>3
<1>5. ASSUME IsInjective(s), IsInjective(t), ToSet(s) \intersect ToSet(t) = {}
      PROVE  IsInjective(u)
  <2>1. /\ \A i, j \in 1..m : s[i] = s[j] => i = j
        /\ \A i, j \in 1..n : t[i] = t[j] => i = j
    BY <1>5, ToSetFacts
  <2>2. ASSUME NEW i \in 1..m + n, NEW j \in 1..m + n, u[i] = u[j]
        PROVE  i = j
    <3>1. CASE i \in 1..m /\ u[i] = s[i] /\ j \in 1..m /\ u[j] = s[j]
      BY <2>1, <2>2, <3>1
    <3>2. CASE /\ i - m \in 1..n /\ u[i] = t[i - m]
               /\ j - m \in 1..n /\ u[j] = t[j - m]
      <4>1. i - m = j - m
        BY <2>1, <2>2, <3>2
      <4>2. QED
        BY <1>1, <4>1
    <3>3. CASE \/ u[i] \in ToSet(s) /\ u[j] \in ToSet(t)
               \/ u[i] \in ToSet(t) /\ u[j] \in ToSet(s)
      BY <1>5, <2>2, <3>3
    <3>4. QED
      BY <1>3, <3>1, <3>2, <3>3
  <2>3. QED
    BY <1>1, <2>2, ToSetFacts
<1>6. QED
  BY <1>1, <1>4, <1>5 DEF u

(* An order in which curl reports a set of transfers has each of them once. *)
LEMMA OrderFacts ==
  ASSUME NEW ended \in SUBSET Handles, NEW order \in SetToSeqs(ended)
  PROVE  /\ order \in Seq(Handles)
         /\ ToSet(order) = ended
         /\ IsInjective(order)
<1> DEFINE n == Cardinality(ended)
<1>1. IsFiniteSet(ended) /\ n \in Nat
  BY HandlesAssumption, FS_Subset, FS_CardinalityType
<1>2. /\ order \in [1..n -> ended]
      /\ \A i, j \in 1..n : i # j => order[i] # order[j]
  BY DEF SetToSeqs
<1>3. order \in Injection(1..n, ended)
  BY <1>2 DEF Injection, IsInjective
<1>4. Cardinality(1..n) = n
  BY <1>1, FS_Interval
<1>5. order \in Surjection(1..n, ended)
  BY <1>1, <1>3, <1>4, FS_Injection
<1>6. order \in Seq(Handles)
  BY <1>1, <1>2
<1>7. ToSet(order) = ended
  BY <1>2, <1>5 DEF ToSet, Surjection
<1>8. IsInjective(order)
  BY <1>2 DEF IsInjective
<1>9. QED
  BY <1>6, <1>7, <1>8

-----------------------------------------------------------------------------
(* The steps *)

(* The handles curl has: those it works on and those it reported done. *)
InCurl == working \union ToSet(done)

(* What curl does with what it was given: it reports some of it, each once. *)
LEMMA CurlEffect ==
  ASSUME TypeOK, IsInjective(done),
         NEW submitted \in SUBSET Handles,
         submitted \intersect ToSet(done) = {},
         CurlWorks(submitted)
  PROVE  /\ working' \in SUBSET Handles /\ count' \in Nat
         /\ done' \in Seq(Handles) /\ IsInjective(done')
         /\ working' \intersect ToSet(done') = {}
         /\ InCurl' = submitted \union ToSet(done)
<1>1. PICK ended \in SUBSET submitted :
        /\ working' = submitted \ ended
        /\ \E order \in SetToSeqs(ended) : done' = done \o order
        /\ count' = Cardinality(submitted \ ended)
  BY DEF CurlWorks
<1>2. PICK order \in SetToSeqs(ended) : done' = done \o order
  BY <1>1
<1>3. ended \in SUBSET Handles /\ submitted \ ended \in SUBSET Handles
  OBVIOUS
<1>4. order \in Seq(Handles) /\ ToSet(order) = ended /\ IsInjective(order)
  BY <1>3, OrderFacts
<1>5. done \in Seq(Handles)
  BY DEF TypeOK
<1>6. ToSet(done) \intersect ToSet(order) = {}
  BY <1>4
<1>7. /\ done' \in Seq(Handles) /\ IsInjective(done')
      /\ ToSet(done') = ToSet(done) \union ended
  BY <1>2, <1>4, <1>5, <1>6, ConcatFacts
<1>8. count' \in Nat
  BY <1>1, <1>3, HandlesAssumption, FS_Subset, FS_CardinalityType
<1>9. InCurl' = working' \union ToSet(done')
  BY DEF InCurl
<1>10. QED
  BY <1>1, <1>7, <1>8, <1>9

(* Nothing is pooled twice, served or reported when the client is made. *)
LEMMA InitInv == Init => IInv
<1> SUFFICES ASSUME Init PROVE IInv
  OBVIOUS
<1>1. /\ eh_pool = HTTP_POOL /\ infos = [h \in Handles |-> None]
      /\ count = 0 /\ working = {} /\ done = <<>> /\ delivering = None
      /\ polling = FALSE /\ open = TRUE /\ made = ToSet(HTTP_POOL)
      /\ called = [r \in Requests |-> 0] /\ dropped = {}
  BY DEF Init
<1>2. TypeOK
  <2>1. done \in Seq(Handles)
    BY <1>1
  <2>2. called \in [Requests -> Nat] /\ count \in Nat
    BY <1>1
  <2>3. made \subseteq Handles
    BY <1>1, PoolAssumption DEF ToSet
  <2>4. QED
    BY <1>1, <2>1, <2>2, <2>3, PoolAssumption DEF TypeOK
<1>3. Busy = {}
  BY <1>1 DEF Busy
<1>4. ToSet(done) = {} /\ IsInjective(done)
  BY <1>1, EmptyFacts
<1>5. HandlesInOnePlace
  BY <1>1, <1>3, <1>4, PoolAssumption DEF HandlesInOnePlace
<1>6. NoHandleLost
  BY <1>1, <1>3 DEF NoHandleLost, Pool
<1>7. PhaseInv /\ CalledInv
  BY <1>1, <1>3 DEF PhaseInv, CalledInv
<1>8. QED
  BY <1>2, <1>4, <1>5, <1>6, <1>7 DEF IInv

(* A drawn handle serves nothing, and leaves the pool if it was in it. *)
LEMMA DrawFacts ==
  ASSUME IInv, open, NEW h \in Handles, Draw(h),
         NEW rest, rest = IF eh_pool = <<>> THEN <<>> ELSE Front(eh_pool)
  PROVE  /\ h \notin Busy
         /\ rest \in Seq(Handles) /\ IsInjective(rest)
         /\ ToSet(rest) = Pool \ {h}
<1>1. eh_pool \in Seq(Handles) /\ IsInjective(eh_pool) /\ Pool \intersect Busy = {}
  BY DEF IInv, TypeOK, HandlesInOnePlace
<1>2. CASE eh_pool = <<>>
  <2>1. h \notin Busy /\ rest = eh_pool
    BY <1>2 DEF Draw, IInv, NoHandleLost
  <2>2. Pool = {}
    BY <1>2, EmptyFacts DEF Pool
  <2>3. QED
    BY <1>1, <2>1, <2>2 DEF Pool
<1>3. CASE eh_pool # <<>>
  <2>1. h = Last(eh_pool) /\ rest = Front(eh_pool)
    BY <1>3 DEF Draw
  <2>2. /\ h \in Pool /\ rest \in Seq(Handles)
        /\ IsInjective(rest) /\ ToSet(rest) = Pool \ {h}
    BY <1>1, <1>3, <2>1, FrontFacts DEF Pool
  <2>3. QED
    BY <1>1, <2>2
<1>4. QED
  BY <1>2, <1>3

(* request() gives that handle to a request no other handle serves. *)
LEMMA BuildStep ==
  ASSUME IInv, NEW r \in Requests, Build(r)
  PROVE  IInv'
<1> USE HandlesAssumption
<1>1. PICK h \in Handles : /\ Draw(h) /\ infos' = [infos EXCEPT ![h] = r]
                           /\ made' = made \union {h}
  BY DEF Build
<1>2. /\ eh_pool' = IF eh_pool = <<>> THEN <<>> ELSE Front(eh_pool)
      /\ count' = count /\ working' = working /\ done' = done
      /\ delivering' = delivering /\ polling' = polling /\ open' = open
      /\ called' = called /\ dropped' = dropped
  BY DEF Build
<1>3. TypeOK /\ HandlesInOnePlace /\ IsInjective(done)
      /\ NoHandleLost /\ PhaseInv /\ CalledInv
  BY DEF IInv
<1>4. open /\ called[r] = 0 /\ \A g \in Handles : infos[g] # r
  BY DEF Build, InProgram, Unbuilt
<1>5. /\ h \notin Busy
      /\ eh_pool' \in Seq(Handles) /\ IsInjective(eh_pool')
      /\ Pool' = Pool \ {h}
  BY <1>1, <1>2, <1>4, DrawFacts DEF Pool
<1>6. /\ infos' \in [Handles -> Requests \union {None}]
      /\ infos'[h] = r /\ \A g \in Handles \ {h} : infos'[g] = infos[g]
  BY <1>1, <1>3 DEF TypeOK
<1>7. Busy' = Busy \union {h}
  BY <1>6 DEF Busy
<1>8. TypeOK'
  BY <1>1, <1>2, <1>3, <1>5, <1>6 DEF TypeOK
<1>9. HandlesInOnePlace'
  <2>1. \A f, g \in Busy' : infos'[f] = infos'[g] => f = g
    BY <1>3, <1>4, <1>6, <1>7 DEF HandlesInOnePlace, Busy
  <2>2. Pool' \intersect Busy' = {}
    BY <1>3, <1>5, <1>7 DEF HandlesInOnePlace
  <2>3. /\ working' \union ToSet(done') \subseteq Busy'
        /\ working' \intersect ToSet(done') = {}
        /\ delivering' # None
             => delivering' \in Busy' \ (working' \union ToSet(done'))
    BY <1>2, <1>3, <1>7 DEF HandlesInOnePlace
  <2>4. QED
    BY <1>5, <2>1, <2>2, <2>3 DEF HandlesInOnePlace
<1>10. NoHandleLost'
  BY <1>1, <1>2, <1>3, <1>4, <1>5, <1>7 DEF NoHandleLost
<1>11. PhaseInv'
  BY <1>2, <1>3, <1>4 DEF PhaseInv
<1>12. CalledInv'
  <2>1. h # delivering
    BY <1>3, <1>5 DEF HandlesInOnePlace
  <2>2. \A g \in Busy : infos[g] = infos'[g]
    BY <1>5, <1>6 DEF Busy
  <2>3. QED
    BY <1>2, <1>3, <1>4, <1>6, <1>7, <2>1, <2>2 DEF CalledInv
<1>13. QED
  BY <1>2, <1>3, <1>8, <1>9, <1>10, <1>11, <1>12 DEF IInv

(* Curl is given a handle that serves a request, or none, and works. *)
LEMMA CurlStep ==
  ASSUME IInv, NEW submitted \in SUBSET Busy,
         submitted \intersect ToSet(done) = {},
         delivering \notin submitted,
         open, polling => polling',
         CurlWorks(submitted), polling' \in BOOLEAN,
         UNCHANGED <<eh_pool, infos, delivering, open, made, called, dropped>>
  PROVE  IInv'
<1>1. TypeOK /\ HandlesInOnePlace /\ IsInjective(done)
      /\ NoHandleLost /\ PhaseInv /\ CalledInv
  BY DEF IInv
<1>2. /\ working' \in SUBSET Handles /\ count' \in Nat
      /\ done' \in Seq(Handles) /\ IsInjective(done')
      /\ working' \intersect ToSet(done') = {}
      /\ InCurl' = submitted \union ToSet(done)
  <2>1. submitted \in SUBSET Handles
    BY DEF Busy
  <2>2. QED
    BY <1>1, <2>1, CurlEffect
<1>3. TypeOK'
  BY <1>1, <1>2 DEF TypeOK
<1>4. Busy' = Busy /\ Pool' = Pool
  BY DEF Busy, Pool
<1>5. HandlesInOnePlace'
  BY <1>1, <1>2, <1>4 DEF HandlesInOnePlace, InCurl
<1>6. NoHandleLost' /\ CalledInv'
  BY <1>1, <1>4 DEF NoHandleLost, CalledInv
<1>7. PhaseInv'
  BY <1>1, <1>4 DEF PhaseInv
<1>8. QED
  BY <1>1, <1>2, <1>3, <1>5, <1>6, <1>7 DEF IInv

(* get() and the like, and the first half of poll(). *)
LEMMA SubmitStep ==
  ASSUME IInv, NEW h \in Handles, Submit(h)
  PROVE  IInv'
<1>1. /\ open /\ h \in Busy /\ h \notin InCurl /\ h # delivering
      /\ CurlWorks(working \union {h})
      /\ UNCHANGED <<eh_pool, infos, delivering, polling, open, made, called,
                     dropped>>
  BY DEF Submit, InProgram, Busy, InCurl
<1>2. TypeOK /\ HandlesInOnePlace /\ PhaseInv
  BY DEF IInv
<1>3. working \union {h} \in SUBSET Busy
  BY <1>1, <1>2 DEF HandlesInOnePlace
<1>4. /\ (working \union {h}) \intersect ToSet(done) = {}
      /\ delivering \notin working \union {h}
  BY <1>1, <1>2, HandlesAssumption DEF HandlesInOnePlace, InCurl, TypeOK
<1>5. polling' \in BOOLEAN
  BY <1>1, <1>2 DEF TypeOK
<1>6. QED
  BY <1>1, <1>3, <1>4, <1>5, CurlStep

(* poll() keeps the invariant.                                             *)
LEMMA PollStep ==
  ASSUME IInv, Poll
  PROVE  IInv'
<1>1. /\ open /\ ~polling /\ polling' = TRUE /\ CurlWorks(working)
      /\ UNCHANGED <<eh_pool, infos, delivering, open, made, called, dropped>>
  BY DEF Poll
<1>2. TypeOK /\ HandlesInOnePlace /\ PhaseInv
  BY DEF IInv
<1>3. /\ working \in SUBSET Busy /\ working \intersect ToSet(done) = {}
  BY <1>2 DEF HandlesInOnePlace
<1>4. delivering \notin working
  BY <1>1, <1>2, HandlesAssumption DEF PhaseInv, TypeOK
<1>5. polling' \in BOOLEAN
  BY <1>1
<1>6. QED
  BY <1>1, <1>3, <1>4, <1>5, CurlStep

(* The message of the oldest transfer goes, and its callback is the only   *)
(* one that has run for a request still being served.                      *)
LEMMA DeliverStep ==
  ASSUME IInv, Deliver
  PROVE  IInv'
<1> DEFINE h == Head(done)
<1>1. /\ polling /\ delivering = None /\ done # <<>>
      /\ done' = Tail(done) /\ delivering' = h
      /\ called' = [called EXCEPT ![infos[h]] = @ + 1]
      /\ UNCHANGED <<eh_pool, infos, count, working, polling, open, made, dropped>>
  BY DEF Deliver
<1>2. TypeOK /\ HandlesInOnePlace /\ IsInjective(done)
      /\ NoHandleLost /\ PhaseInv /\ CalledInv
  BY DEF IInv
<1>3. /\ h \in Handles /\ h \in ToSet(done)
      /\ Tail(done) \in Seq(Handles) /\ IsInjective(Tail(done))
      /\ ToSet(Tail(done)) = ToSet(done) \ {h}
  BY <1>1, <1>2, TailFacts DEF TypeOK
<1> HIDE DEF h
<1>4. h \in Busy /\ h \notin working /\ infos[h] \in Requests
  BY <1>2, <1>3 DEF HandlesInOnePlace, Busy, TypeOK
<1>5. called[infos[h]] = 0
  BY <1>1, <1>2, <1>3, <1>4, HandlesAssumption DEF CalledInv
<1>6. /\ called' \in [Requests -> Nat] /\ called'[infos[h]] = 1
      /\ \A r \in Requests \ {infos[h]} : called'[r] = called[r]
  BY <1>1, <1>2, <1>4, <1>5 DEF TypeOK
<1>7. Busy' = Busy /\ Pool' = Pool
  BY <1>1 DEF Busy, Pool
<1>8. TypeOK'
  BY <1>1, <1>2, <1>3, <1>6 DEF TypeOK
<1>9. HandlesInOnePlace'
  BY <1>1, <1>2, <1>3, <1>4, <1>7 DEF HandlesInOnePlace
<1>10. NoHandleLost' /\ PhaseInv'
  BY <1>1, <1>2, <1>7 DEF NoHandleLost, PhaseInv
<1>11. CalledInv'
  <2>1. \A r \in Requests : called'[r] <= 1
    BY <1>2, <1>6 DEF CalledInv
  <2>2. \A r \in dropped' : called'[r] = 0
    BY <1>1, <1>2 DEF PhaseInv
  <2>3. ASSUME NEW g \in Busy, g # h
        PROVE  called'[infos[g]] = 0
    <3>1. infos[g] \in Requests \ {infos[h]} /\ g # None
      BY <1>2, <1>4, <2>3, HandlesAssumption
         DEF HandlesInOnePlace, Busy, TypeOK
    <3>2. called[infos[g]] = 0
      BY <1>1, <1>2, <3>1 DEF CalledInv
    <3>3. QED
      BY <1>6, <3>1, <3>2
  <2>4. QED
    BY <1>1, <1>6, <1>7, <2>1, <2>2, <2>3 DEF CalledInv
<1>12. QED
  BY <1>1, <1>2, <1>3, <1>8, <1>9, <1>10, <1>11 DEF IInv

(* The handle whose callback ran is pooled again; curl no longer has it.   *)
LEMMA ReleaseStep ==
  ASSUME IInv, Release
  PROVE  IInv'
<1> DEFINE h == delivering
<1>1. /\ h # None /\ delivering' = None
      /\ eh_pool' = Append(eh_pool, h)
      /\ infos' = [infos EXCEPT ![h] = None]
      /\ UNCHANGED <<count, working, done, polling, open, made, called, dropped>>
  BY DEF Release
<1>2. TypeOK /\ HandlesInOnePlace /\ IsInjective(done)
      /\ NoHandleLost /\ PhaseInv /\ CalledInv
  BY DEF IInv
<1>3. h \in Busy /\ h \notin working \union ToSet(done) /\ h \in Handles
  BY <1>1, <1>2 DEF HandlesInOnePlace, Busy
<1>4. h \notin Pool /\ eh_pool \in Seq(Handles) /\ IsInjective(eh_pool)
  BY <1>2, <1>3 DEF HandlesInOnePlace, TypeOK
<1>5. /\ eh_pool' \in Seq(Handles) /\ IsInjective(eh_pool')
      /\ Pool' = Pool \union {h}
  BY <1>1, <1>3, <1>4, AppendFacts DEF Pool
<1> HIDE DEF h
<1>6. /\ infos' \in [Handles -> Requests \union {None}]
      /\ infos'[h] = None /\ \A g \in Handles \ {h} : infos'[g] = infos[g]
  BY <1>1, <1>2, <1>3 DEF TypeOK
<1>7. Busy' = Busy \ {h}
  BY <1>6 DEF Busy
<1>8. TypeOK'
  BY <1>1, <1>2, <1>5, <1>6 DEF TypeOK
<1>9. HandlesInOnePlace'
  <2>1. \A f, g \in Busy' : infos'[f] = infos'[g] => f = g
    BY <1>2, <1>6, <1>7 DEF HandlesInOnePlace, Busy
  <2>2. /\ Pool' \intersect Busy' = {}
        /\ working' \union ToSet(done') \subseteq Busy'
        /\ working' \intersect ToSet(done') = {}
    BY <1>1, <1>2, <1>3, <1>5, <1>7 DEF HandlesInOnePlace
  <2>3. QED
    BY <1>1, <1>5, <2>1, <2>2 DEF HandlesInOnePlace
<1>10. NoHandleLost'
  BY <1>1, <1>2, <1>3, <1>5, <1>7 DEF NoHandleLost
<1>11. PhaseInv'
  BY <1>1, <1>2, <1>7 DEF PhaseInv
<1>12. CalledInv'
  <2>1. \A g \in Busy' : g # h /\ g \in Busy /\ infos'[g] = infos[g] /\ g # None
    BY <1>6, <1>7, HandlesAssumption DEF Busy
  <2>2. \A g \in Busy' : called[infos[g]] = 0
    BY <1>2, <2>1 DEF CalledInv, h
  <2>3. QED
    BY <1>1, <1>2, <2>1, <2>2 DEF CalledInv
<1>13. QED
  BY <1>1, <1>2, <1>8, <1>9, <1>10, <1>11, <1>12 DEF IInv

(* So does the return of poll().                                           *)
LEMMA PollReturnsStep ==
  ASSUME IInv, PollReturns
  PROVE  IInv'
<1>1. /\ delivering = None /\ polling' = FALSE
      /\ UNCHANGED <<eh_pool, infos, count, working, done, delivering, open,
                     made, called, dropped>>
  BY DEF PollReturns
<1>2. Busy' = Busy /\ Pool' = Pool
  BY <1>1 DEF Busy, Pool
<1>3. TypeOK'
  BY <1>1 DEF IInv, TypeOK
<1>4. HandlesInOnePlace' /\ NoHandleLost' /\ IsInjective(done')
  BY <1>1, <1>2 DEF IInv, HandlesInOnePlace, NoHandleLost
<1>5. PhaseInv' /\ CalledInv'
  BY <1>1, <1>2 DEF IInv, PhaseInv, CalledInv
<1>6. QED
  BY <1>3, <1>4, <1>5 DEF IInv

(* What curl still has was never called back. *)
LEMMA DestroyStep ==
  ASSUME IInv, Destroy
  PROVE  IInv'
<1>1. /\ ~polling /\ open' = FALSE /\ working' = {} /\ done' = <<>>
      /\ infos' = [h \in Handles |-> None] /\ eh_pool' = <<>>
      /\ dropped' = {infos[h] : h \in InCurl}
      /\ UNCHANGED <<count, delivering, polling, made, called>>
  BY DEF Destroy, InCurl
<1>2. TypeOK /\ HandlesInOnePlace /\ PhaseInv /\ CalledInv
  BY DEF IInv
<1>3. delivering = None /\ delivering' = None
  BY <1>1, <1>2 DEF PhaseInv
<1>4. Busy' = {} /\ Pool' = {} /\ ToSet(done') = {}
  BY <1>1, EmptyFacts DEF Busy, Pool
<1>5. InCurl \subseteq Busy /\ None \notin InCurl
  BY <1>2, HandlesAssumption DEF HandlesInOnePlace, InCurl, Busy
<1>6. \A r \in dropped' : r \in Requests /\ called[r] = 0
  <2>1. ASSUME NEW h \in InCurl
        PROVE  infos[h] \in Requests /\ called[infos[h]] = 0
    <3>1. h \in Busy /\ h # delivering
      BY <1>3, <1>5
    <3>2. infos[h] \in Requests
      BY <1>2, <3>1 DEF TypeOK, Busy
    <3>3. QED
      BY <1>2, <3>1, <3>2 DEF CalledInv
  <2>2. QED
    BY <1>1, <2>1
<1>7. TypeOK'
  <2>1. done' \in Seq(Handles) /\ eh_pool' \in Seq(Handles)
    BY <1>1
  <2>2. infos' \in [Handles -> Requests \union {None}]
    BY <1>1
  <2>3. QED
    BY <1>1, <1>2, <1>6, <2>1, <2>2 DEF TypeOK
<1>8. HandlesInOnePlace' /\ IsInjective(done')
  BY <1>1, <1>3, <1>4, EmptyFacts DEF HandlesInOnePlace
<1>9. NoHandleLost' /\ PhaseInv'
  BY <1>1, <1>3, <1>4 DEF NoHandleLost, PhaseInv
<1>10. CalledInv'
  BY <1>1, <1>2, <1>4, <1>6 DEF CalledInv
<1>11. QED
  BY <1>7, <1>8, <1>9, <1>10 DEF IInv

(* IInv is inductive. *)
LEMMA NextInv == IInv /\ [Next]_vars => IInv'
<1> SUFFICES ASSUME IInv, [Next]_vars PROVE IInv'
  OBVIOUS
<1>1. CASE UNCHANGED vars
  BY <1>1 DEF vars, IInv, TypeOK, HandlesInOnePlace, NoHandleLost, PhaseInv,
              CalledInv, Busy, Pool
<1>2. CASE Next
  BY <1>2, BuildStep, SubmitStep, PollStep, DeliverStep, ReleaseStep,
     PollReturnsStep, DestroyStep DEF Next
<1>3. QED
  BY <1>1, <1>2

-----------------------------------------------------------------------------
(* The invariants *)

(* IInv holds whatever the program builds and submits and curl reports. *)
THEOREM InvHolds == Spec => []IInv
<1>1. QED
  BY InitInv, NextInv, PTL DEF Spec

(* The pool, the request infos and curl's queues hold what they declare.   *)
THEOREM TypeCorrect == Spec => []TypeOK
<1>1. IInv => TypeOK
  BY DEF IInv
<1>2. QED
  BY <1>1, InvHolds, PTL

(* eh_pool_ has no handle twice and none that serves a request; no two     *)
(* handles serve the same one; curl has only handles that serve one, each  *)
(* either at work or reported, and not the one whose callback runs.        *)
THEOREM EachHandleInOnePlace == Spec => []HandlesInOnePlace
<1>1. IInv => HandlesInOnePlace
  BY DEF IInv
<1>2. QED
  BY <1>1, InvHolds, PTL

(* The handles the client made, in its constructor and whenever a request  *)
(* found the pool empty, are in eh_pool_ or serve a request until ~Http.   *)
THEOREM HandlesAreKept == Spec => []NoHandleLost
<1>1. IInv => NoHandleLost
  BY DEF IInv
<1>2. QED
  BY <1>1, InvHolds, PTL

-----------------------------------------------------------------------------
(* The refinement *)

(* The requests curl has. *)
InFlight == {infos[h] : h \in InCurl}

(* What has become of a request is never in doubt. *)
StatesFit ==
  \A r \in Requests :
    /\ called[r] = 0 \/ called[r] = 1
    /\ called[r] = 1 => StateOf(r) = "finished"
    /\ r \in dropped => called[r] = 0 /\ StateOf(r) = "dropped"
    /\ r \in InFlight
         => called[r] = 0 /\ r \notin dropped /\ StateOf(r) = "in_flight"
    /\ called[r] = 0 /\ r \notin dropped /\ r \notin InFlight
         => StateOf(r) = "idle"

(* The invariant gives each request's state from its history.              *)
LEMMA StateFacts == IInv => StatesFit
<1> SUFFICES ASSUME IInv, NEW r \in Requests
             PROVE  /\ called[r] = 0 \/ called[r] = 1
                    /\ called[r] = 1 => StateOf(r) = "finished"
                    /\ r \in dropped => called[r] = 0 /\ StateOf(r) = "dropped"
                    /\ r \in InFlight
                         => /\ called[r] = 0 /\ r \notin dropped
                            /\ StateOf(r) = "in_flight"
                    /\ called[r] = 0 /\ r \notin dropped /\ r \notin InFlight
                         => StateOf(r) = "idle"
  BY DEF StatesFit
<1>1. TypeOK /\ HandlesInOnePlace /\ PhaseInv /\ CalledInv
  BY DEF IInv
<1>2. called[r] = 0 \/ called[r] = 1
  BY <1>1 DEF TypeOK, CalledInv
<1>3. r \in dropped => called[r] = 0
  BY <1>1 DEF CalledInv
<1>4. r \in InFlight <=> \E h \in working \union ToSet(done) : infos[h] = r
  BY DEF InFlight, InCurl
<1>5. ASSUME r \in InFlight PROVE called[r] = 0 /\ r \notin dropped
  <2>1. PICK h \in InCurl : infos[h] = r
    BY <1>5 DEF InFlight
  <2>2. h \in Busy /\ h # delivering
    BY <1>1, <2>1, HandlesAssumption DEF HandlesInOnePlace, InCurl, Busy
  <2>3. called[r] = 0
    BY <1>1, <2>1, <2>2 DEF CalledInv
  <2>4. r \notin dropped
    BY <1>1, <2>2 DEF PhaseInv
  <2>5. QED
    BY <2>3, <2>4
<1>6. QED
  BY <1>2, <1>3, <1>4, <1>5 DEF StateOf

(* A step that leaves the callbacks, the drops and what curl has alone is  *)
(* none of AsyncRequest's.                                                 *)
LEMMA StutterStep ==
  ASSUME StatesFit, StatesFit', UNCHANGED <<called, dropped, open>>,
         InFlight' = InFlight
  PROVE  UNCHANGED Promise!vars
<1>1. \A r \in Requests : StateOf(r)' = StateOf(r)
  BY DEF StatesFit
<1>2. QED
  BY <1>1 DEF Promise!vars

(* Submitting is Submit. *)
LEMMA SubmitRefines ==
  ASSUME IInv, StatesFit, StatesFit', NEW h \in Handles, Submit(h)
  PROVE  Promise!Submit(infos[h])
<1>1. /\ open /\ h \in Busy /\ h \notin InCurl /\ h # delivering
      /\ CurlWorks(working \union {h})
      /\ UNCHANGED <<infos, open, called, dropped>>
  BY DEF Submit, InProgram, Busy, InCurl
<1>2. TypeOK /\ HandlesInOnePlace /\ PhaseInv /\ CalledInv /\ IsInjective(done)
  BY DEF IInv
<1>3. PICK q \in Requests : q = infos[h]
  BY <1>1, <1>2 DEF TypeOK, Busy
<1>4. InCurl' = InCurl \union {h}
  <2>1. working \union {h} \in SUBSET Handles
    BY <1>2 DEF TypeOK
  <2>2. (working \union {h}) \intersect ToSet(done) = {}
    BY <1>1, <1>2 DEF HandlesInOnePlace, InCurl
  <2>3. QED
    BY <1>1, <1>2, <2>1, <2>2, CurlEffect DEF InCurl
<1>5. InFlight' = InFlight \union {q}
  BY <1>1, <1>4, <1>3 DEF InFlight
<1>6. called[q] = 0 /\ q \notin dropped
  BY <1>1, <1>2, <1>3 DEF CalledInv, PhaseInv
<1>7. q \notin InFlight
  BY <1>1, <1>2, <1>3 DEF InFlight, HandlesInOnePlace, InCurl
<1>8. StateOf(q) = "idle" /\ StateOf(q)' = "in_flight"
  BY <1>5, <1>6, <1>7 DEF StatesFit
<1>9. \A r \in Requests \ {q} : StateOf(r)' = StateOf(r)
  BY <1>1, <1>5 DEF StatesFit
<1>10. Promise!Submit(q)
  BY <1>1, <1>6, <1>8, <1>9 DEF Promise!Submit, Promise!Move
<1>11. QED
  BY <1>10, <1>3

(* Calling the callback is Finish. *)
LEMMA DeliverRefines ==
  ASSUME IInv, StatesFit, StatesFit', Deliver
  PROVE  \E r \in Requests : Promise!Finish(r)
<1> DEFINE h == Head(done)
<1>1. /\ polling /\ done # <<>>
      /\ done' = Tail(done) /\ called' = [called EXCEPT ![infos[h]] = @ + 1]
      /\ UNCHANGED <<infos, working, open, dropped>>
  BY DEF Deliver
<1>2. TypeOK /\ HandlesInOnePlace /\ PhaseInv /\ IsInjective(done)
  BY DEF IInv
<1>3. h \in ToSet(done) /\ ToSet(Tail(done)) = ToSet(done) \ {h}
  BY <1>1, <1>2, TailFacts DEF TypeOK
<1> HIDE DEF h
<1>4. h \in InCurl /\ InCurl' = InCurl \ {h} /\ InCurl \subseteq Busy
  BY <1>1, <1>2, <1>3 DEF InCurl, HandlesInOnePlace
<1>5. PICK q \in Requests : q = infos[h] /\ q \in InFlight
  BY <1>2, <1>4 DEF TypeOK, Busy, InFlight
<1>6. InFlight' = InFlight \ {q}
  BY <1>1, <1>2, <1>4, <1>5 DEF InFlight, HandlesInOnePlace
<1>7. open /\ open' = open
  BY <1>1, <1>2 DEF PhaseInv
<1>8. called[q] = 0 /\ StateOf(q) = "in_flight"
  BY <1>5 DEF StatesFit
<1>9. called'[q] = 1 /\ \A r \in Requests \ {q} : called'[r] = called[r]
  BY <1>1, <1>2, <1>5, <1>8 DEF TypeOK
<1>10. StateOf(q)' = "finished"
  BY <1>5, <1>9 DEF StatesFit
<1>11. \A r \in Requests \ {q} : StateOf(r)' = StateOf(r)
  BY <1>1, <1>6, <1>9 DEF StatesFit
<1>12. Promise!Finish(q)
  BY <1>5, <1>7, <1>8, <1>10, <1>11 DEF Promise!Finish, Promise!Move
<1>13. QED
  BY <1>5, <1>12

(* ~Http is Close. *)
LEMMA DestroyRefines ==
  ASSUME IInv, StatesFit, StatesFit', Destroy
  PROVE  Promise!Close
<1>1. /\ open /\ open' = FALSE /\ working' = {} /\ done' = <<>>
      /\ dropped' = InFlight /\ called' = called
  BY DEF Destroy, InFlight, InCurl
<1>2. InFlight' = {} /\ dropped = {}
  BY <1>1, EmptyFacts DEF InFlight, InCurl, IInv, PhaseInv
<1>3. \A r \in Requests :
        StateOf(r)' = IF StateOf(r) = "in_flight" THEN "dropped" ELSE StateOf(r)
  <2>1. ASSUME NEW r \in Requests, r \in InFlight
        PROVE  StateOf(r) = "in_flight" /\ StateOf(r)' = "dropped"
    BY <1>1, <2>1 DEF StatesFit
  <2>2. ASSUME NEW r \in Requests, r \notin InFlight
        PROVE  StateOf(r) # "in_flight" /\ StateOf(r)' = StateOf(r)
    BY <1>1, <1>2, <2>2 DEF StatesFit
  <2>3. QED
    BY <2>1, <2>2
<1>4. QED
  BY <1>1, <1>3 DEF Promise!Close

(* Every step is one of AsyncRequest's, or none of its business. *)
LEMMA StepRefines ==
  ASSUME IInv, IInv', [Next]_vars
  PROVE  [Promise!Next]_(Promise!vars)
<1>1. StatesFit /\ StatesFit'
  <2>1. IInv' => StatesFit'
    BY StateFacts, PTL
  <2>2. QED
    BY <2>1, StateFacts
<1>2. TypeOK /\ HandlesInOnePlace /\ PhaseInv /\ IsInjective(done)
  BY DEF IInv
<1>3. ASSUME NEW r \in Requests, Build(r) PROVE UNCHANGED Promise!vars
  <2>1. PICK h \in Handles : Draw(h) /\ infos' = [infos EXCEPT ![h] = r]
    BY <1>3 DEF Build
  <2>2. UNCHANGED <<working, done, open, called, dropped>>
    BY <1>3 DEF Build
  <2>3. h \notin Busy
    <3>1. open
      BY <1>3 DEF Build, InProgram
    <3>2. QED
      BY <2>1, <3>1, DrawFacts
  <2>4. \A g \in InCurl : infos'[g] = infos[g]
    BY <1>2, <2>1, <2>3 DEF HandlesInOnePlace, InCurl, TypeOK
  <2>5. InFlight' = InFlight
    BY <2>2, <2>4 DEF InFlight, InCurl
  <2>6. QED
    BY <1>1, <2>2, <2>5, StutterStep
<1>4. ASSUME NEW h \in Handles, Submit(h) PROVE Promise!Next
  <2>1. infos[h] \in Requests
    BY <1>2, <1>4 DEF Submit, TypeOK
  <2>2. QED
    BY <1>1, <1>4, <2>1, SubmitRefines DEF Promise!Next
<1>5. CASE Poll
  <2>1. InCurl' = InCurl
    BY <1>2, <1>5, CurlEffect DEF Poll, InCurl, TypeOK, HandlesInOnePlace
  <2>2. InFlight' = InFlight /\ UNCHANGED <<called, dropped, open>>
    BY <1>5, <2>1 DEF Poll, InFlight
  <2>3. QED
    BY <1>1, <2>2, StutterStep
<1>6. CASE Deliver
  BY <1>1, <1>6, DeliverRefines DEF Promise!Next
<1>7. CASE Release
  <2>1. /\ infos' = [infos EXCEPT ![delivering] = None] /\ delivering # None
        /\ UNCHANGED <<working, done, open, called, dropped>>
    BY <1>7 DEF Release
  <2>2. \A g \in InCurl : infos'[g] = infos[g]
    BY <1>2, <2>1 DEF HandlesInOnePlace, InCurl, TypeOK
  <2>3. InFlight' = InFlight
    BY <2>1, <2>2 DEF InFlight, InCurl
  <2>4. QED
    BY <1>1, <2>1, <2>3, StutterStep
<1>8. CASE PollReturns
  <2>1. UNCHANGED <<infos, working, done, open, called, dropped>>
    BY <1>8 DEF PollReturns
  <2>2. InFlight' = InFlight
    BY <2>1 DEF InFlight, InCurl
  <2>3. QED
    BY <1>1, <2>1, <2>2, StutterStep
<1>9. CASE Destroy
  BY <1>1, <1>9, DestroyRefines DEF Promise!Next
<1>10. CASE UNCHANGED vars
  <2>1. InFlight' = InFlight /\ UNCHANGED <<called, dropped, open>>
    BY <1>10 DEF vars, InFlight, InCurl
  <2>2. QED
    BY <1>1, <2>1, StutterStep
<1>11. QED
  BY <1>3, <1>4, <1>5, <1>6, <1>7, <1>8, <1>9, <1>10 DEF Next

(* The baseline client does nothing AsyncRequest forbids: a request goes   *)
(* from idle to in flight to finished, once, or is dropped by ~Http.  What *)
(* ImplementsAsyncRequest says beyond this, that requests finish, is TLC's *)
(* to check.                                                               *)
THEOREM KeepsThePromise ==
  Spec => Promise!Init /\ [][Promise!Next]_(Promise!vars)
<1>1. Init => Promise!Init
  <2> SUFFICES ASSUME Init PROVE Promise!Init
    OBVIOUS
  <2>1. StatesFit
    BY InitInv, StateFacts
  <2>2. InFlight = {}
    BY EmptyFacts DEF Init, InFlight, InCurl
  <2>3. \A r \in Requests : StateOf(r) = "idle"
    BY <2>1, <2>2 DEF StatesFit, Init
  <2>4. QED
    BY <2>3 DEF Promise!Init, Init
<1>2. IInv /\ IInv' /\ [Next]_vars => [Promise!Next]_(Promise!vars)
  BY StepRefines
<1>3. QED
  BY <1>1, <1>2, InvHolds, PTL DEF Spec

=============================================================================
