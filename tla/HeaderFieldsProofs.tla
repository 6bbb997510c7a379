------------------------- MODULE HeaderFieldsProofs -------------------------
(***************************************************************************)
(* The lookups of Response find the fields of the final response, whatever *)
(* text was received.                                                      *)
(***************************************************************************)
EXTENDS HeaderFields, SequenceTheorems, FiniteSetTheorems, TLAPS

-----------------------------------------------------------------------------
(* Induction over the natural numbers, without an operator parameter: a    *)
(* set that has 0 and, with each number, the next one has them all.        *)

Less == {p \in Nat \X Nat : p[1] < p[2]}

(* A set of numbers that is not empty has a least member.                  *)
LEMMA LeastNumber ==
  ASSUME NEW S \in SUBSET Nat, S # {}
  PROVE  \E n \in S : \A m \in S : n <= m
<1>1. IsWellFoundedOn(Less, Nat)
  BY NatLessThanWellFounded DEF Less, OpToRel
<1>2. PICK n \in S : \A m \in S : <<m, n>> \notin Less
  BY <1>1, WFMin
<1>3. ASSUME NEW m \in S PROVE n <= m
  <2>1. m \in Nat /\ n \in Nat /\ <<m, n>> \notin Less
    BY <1>2
  <2>2. ~(m < n)
    BY <2>1 DEF Less
  <2>3. QED
    BY <2>1, <2>2
<1>4. QED
  BY <1>3

(* The set has every number.                                               *)
LEMMA Induction ==
  ASSUME NEW S, 0 \in S, \A n \in Nat : n \in S => n + 1 \in S
  PROVE  \A n \in Nat : n \in S
<1> SUFFICES ASSUME Nat \ S # {} PROVE FALSE
  OBVIOUS
<1>1. PICK n \in Nat \ S : \A m \in Nat \ S : n <= m
  BY LeastNumber
<1>2. n # 0 /\ n - 1 \in Nat /\ n - 1 \in S
  BY <1>1
<1>3. QED
  BY <1>1, <1>2

(* A set of places that is not empty has a greatest, which is its Max.     *)
LEMMA Greatest ==
  ASSUME NEW n \in Nat, NEW q \in SUBSET (1..n), q # {}
  PROVE  Max(q) \in q /\ \A m \in q : Max(q) >= m
<1> DEFINE Above == {n - m : m \in q}
<1>1. Above \in SUBSET Nat /\ Above # {}
  <2>1. \A m \in q : n - m \in Nat
    OBVIOUS
  <2>2. QED
    BY <2>1
<1>2. PICK k \in Above : \A l \in Above : k <= l
  BY <1>1, LeastNumber
<1>3. PICK g \in q : k = n - g
  BY <1>2
<1>4. \A m \in q : g >= m
  BY <1>2, <1>3
<1>5. QED
  BY <1>4 DEF Max

-----------------------------------------------------------------------------
(* What FoldLeft computes.  Its definition is a choice of a function on    *)
(* sets of places, which takes the greatest place from a set; step is the  *)
(* folded operator as a function.                                          *)

Steps(X, E, base, step) == base \in X /\ step \in [X \X E -> X]

Elements(n, s, E) == \A i \in 1..n : s[i] \in E

Folding(g, X, n, base, step, s) ==
  /\ g \in [SUBSET (1..n) -> X]
  /\ g[{}] = base
  /\ \A q \in SUBSET (1..n) :
       q # {} => g[q] = step[<<g[q \ {Max(q)}], s[Max(q)]>>]

(* With the greatest place a set loses the last of its places.             *)
LEMMA WithoutGreatest ==
  ASSUME NEW n \in Nat, NEW q \in SUBSET (1..(n + 1)), q # {}
  PROVE  /\ Max(q) \in 1..(n + 1) /\ q \ {Max(q)} \in SUBSET (1..n)
         /\ n + 1 \in q => Max(q) = n + 1
<1>1. Max(q) \in q /\ \A m \in q : Max(q) >= m
  <2>1. n + 1 \in Nat
    OBVIOUS
  <2>2. QED
    BY <2>1, Greatest
<1> DEFINE last == Max(q)
<1> HIDE DEF last
<1>2. last \in q /\ last \in 1..(n + 1) /\ \A m \in q : last >= m
  BY <1>1 DEF last
<1>3. ASSUME NEW m \in q \ {last} PROVE m \in 1..n
  <2>1. m \in 1..(n + 1) /\ last \in 1..(n + 1) /\ m <= last /\ m # last
    BY <1>2
  <2>2. QED
    BY <2>1
<1>4. n + 1 \in q => last = n + 1
  BY <1>2
<1>5. QED
  BY <1>2, <1>3, <1>4 DEF last

(* A folding is extended by a place.                                       *)
LEMMA Extended ==
  ASSUME NEW X, NEW E, NEW base, NEW step, NEW n \in Nat, NEW s, NEW g,
         Steps(X, E, base, step), Elements(n + 1, s, E),
         Folding(g, X, n, base, step, s)
  PROVE  \E h : /\ Folding(h, X, n + 1, base, step, s)
                /\ h[1..(n + 1)] = step[<<g[1..n], s[n + 1]>>]
<1> DEFINE Top(q) == n + 1 \in q
           h == [q \in SUBSET (1..(n + 1)) |->
                   IF Top(q) THEN step[<<g[q \ {n + 1}], s[n + 1]>>] ELSE g[q]]
<1>1. \A q \in SUBSET (1..(n + 1)) : /\ q \ {n + 1} \in SUBSET (1..n)
                                     /\ ~Top(q) => q \in SUBSET (1..n)
  OBVIOUS
<1>2. s[n + 1] \in E
  BY DEF Elements
<1>3. \A q \in SUBSET (1..n) : g[q] \in X
  BY DEF Folding
<1>4. \A x \in X : step[<<x, s[n + 1]>>] \in X
  BY <1>2 DEF Steps
<1>5. h \in [SUBSET (1..(n + 1)) -> X]
  BY <1>1, <1>3, <1>4
<1>6. h[{}] = base
  <2>1. {} \in SUBSET (1..(n + 1)) /\ ~Top({}) /\ g[{}] = base
    BY DEF Folding
  <2>2. QED
    BY <2>1
<1>7. ASSUME NEW q \in SUBSET (1..(n + 1)), q # {}
      PROVE  h[q] = step[<<h[q \ {Max(q)}], s[Max(q)]>>]
  <2>1. CASE Top(q)
    <3>1. Max(q) = n + 1
      BY <2>1, WithoutGreatest
    <3>2. q \ {n + 1} \in SUBSET (1..(n + 1)) /\ ~Top(q \ {n + 1})
      OBVIOUS
    <3>3. h[q \ {n + 1}] = g[q \ {n + 1}]
      BY <3>2
    <3>4. h[q] = step[<<g[q \ {n + 1}], s[n + 1]>>]
      BY <2>1
    <3>5. QED
      BY <3>1, <3>3, <3>4
  <2>2. CASE ~Top(q)
    <3>1. q \in SUBSET (1..n)
      BY <1>1, <2>2
    <3>2. q \ {Max(q)} \in SUBSET (1..(n + 1)) /\ ~Top(q \ {Max(q)})
      BY <2>2
    <3>3. h[q] = g[q] /\ h[q \ {Max(q)}] = g[q \ {Max(q)}]
      BY <2>2, <3>2
    <3>4. g[q] = step[<<g[q \ {Max(q)}], s[Max(q)]>>]
      BY <1>7, <3>1 DEF Folding
    <3>5. QED
      BY <3>3, <3>4
  <2>3. QED
    BY <2>1, <2>2
<1>8. h[1..(n + 1)] = step[<<g[1..n], s[n + 1]>>]
  <2>1. /\ (1..(n + 1)) \ {n + 1} = 1..n /\ Top(1..(n + 1))
        /\ 1..(n + 1) \in SUBSET (1..(n + 1))
    OBVIOUS
  <2>2. h[1..(n + 1)] = step[<<g[(1..(n + 1)) \ {n + 1}], s[n + 1]>>]
    BY <2>1
  <2>3. QED
    BY <2>1, <2>2
<1> HIDE DEF h
<1>9. Folding(h, X, n + 1, base, step, s)
  BY <1>5, <1>6, <1>7 DEF Folding
<1>10. QED
  BY <1>8, <1>9

(* There is a folding of every sequence.                                   *)
LEMMA FoldingExists ==
  ASSUME NEW X, NEW E, NEW base, NEW step, NEW n \in Nat, NEW s,
         Steps(X, E, base, step), Elements(n, s, E)
  PROVE  \E g : Folding(g, X, n, base, step, s)
<1> DEFINE P(k) == k <= n => \E g : Folding(g, X, k, base, step, s)
           S == {k \in Nat : P(k)}
<1>1. P(0)
  <2> DEFINE g == [q \in SUBSET (1..0) |-> base]
  <2>1. \A q \in SUBSET (1..0) : q = {}
    OBVIOUS
  <2>2. {} \in SUBSET (1..0)
    OBVIOUS
  <2>3. base \in X
    BY DEF Steps
  <2>4. g \in [SUBSET (1..0) -> X] /\ g[{}] = base
    BY <2>2, <2>3
  <2> HIDE DEF g
  <2>5. Folding(g, X, 0, base, step, s)
    BY <2>1, <2>4 DEF Folding
  <2>6. QED
    BY <2>5
<1>2. ASSUME NEW k \in Nat, P(k)
      PROVE  P(k + 1)
  <2> SUFFICES ASSUME k + 1 <= n
               PROVE  \E g : Folding(g, X, k + 1, base, step, s)
    OBVIOUS
  <2>1. k <= n
    OBVIOUS
  <2>2. PICK g : Folding(g, X, k, base, step, s)
    BY <1>2, <2>1
  <2>3. Elements(k + 1, s, E)
    BY DEF Elements
  <2>4. QED
    BY <2>2, <2>3, Extended
<1> HIDE DEF P
<1>3. 0 \in S /\ \A k \in Nat : k \in S => k + 1 \in S
  BY <1>1, <1>2
<1> HIDE DEF S
<1>4. \A k \in Nat : k \in S
  BY <1>3, Induction
<1>5. P(n) /\ n <= n
  BY <1>4 DEF S
<1>6. QED
  BY <1>5 DEF P

(* What steps like a folding while it has values of the folding's kind is  *)
(* that folding.                                                           *)
Likewise(h, X, n, base, step, s) ==
  /\ h = [q \in SUBSET (1..n) |-> h[q]]
  /\ h[{}] = base
  /\ \A q \in SUBSET (1..n) : q # {} /\ h[q \ {Max(q)}] \in X =>
       h[q] = step[<<h[q \ {Max(q)}], s[Max(q)]>>]

(* There is one such function at most.                                     *)
LEMMA FoldingUnique ==
  ASSUME NEW X, NEW base, NEW step, NEW n \in Nat, NEW s, NEW g, NEW h,
         Folding(g, X, n, base, step, s), Likewise(h, X, n, base, step, s)
  PROVE  h = g
<1> DEFINE P(k) == k <= n => \A q \in SUBSET (1..k) : h[q] = g[q]
           S == {k \in Nat : P(k)}
<1>0. g[{}] = base /\ h[{}] = base
  BY DEF Folding, Likewise
<1>1. P(0)
  <2>1. \A q \in SUBSET (1..0) : q = {}
    OBVIOUS
  <2>2. QED
    BY <1>0, <2>1
<1>2. ASSUME NEW k \in Nat, P(k)
      PROVE  P(k + 1)
  <2> SUFFICES ASSUME k + 1 <= n, NEW q \in SUBSET (1..(k + 1)), q # {}
               PROVE  h[q] = g[q]
    BY <1>0
  <2>1. q \ {Max(q)} \in SUBSET (1..k)
    BY WithoutGreatest
  <2>2. q \in SUBSET (1..n) /\ q \ {Max(q)} \in SUBSET (1..n)
    <3>1. 1..(k + 1) \subseteq 1..n
      OBVIOUS
    <3>2. QED
      BY <3>1
  <2>3. k <= n
    OBVIOUS
  <2>4. h[q \ {Max(q)}] = g[q \ {Max(q)}]
    BY <1>2, <2>1, <2>3
  <2>5. g[q \ {Max(q)}] \in X
    BY <2>2 DEF Folding
  <2>6. g[q] = step[<<g[q \ {Max(q)}], s[Max(q)]>>]
    BY <2>2 DEF Folding
  <2>7. h[q] = step[<<h[q \ {Max(q)}], s[Max(q)]>>]
    BY <2>2, <2>4, <2>5 DEF Likewise
  <2>8. QED
    BY <2>4, <2>6, <2>7
<1> HIDE DEF P
<1>3. 0 \in S /\ \A k \in Nat : k \in S => k + 1 \in S
  BY <1>1, <1>2
<1> HIDE DEF S
<1>4. \A k \in Nat : k \in S
  BY <1>3, Induction
<1>5. P(n) /\ n <= n
  BY <1>4 DEF S
<1>6. \A q \in SUBSET (1..n) : h[q] = g[q]
  BY <1>5 DEF P
<1>7. h = [q \in SUBSET (1..n) |-> h[q]] /\ g = [q \in SUBSET (1..n) |-> g[q]]
  BY DEF Folding, Likewise
<1>8. QED
  BY <1>6, <1>7

(* The result of a fold, and what a fold is when its operator is step on   *)
(* the kinds of things that occur.                                         *)
Result(X, base, step, s) ==
  LET g == CHOOSE g : Folding(g, X, Len(s), base, step, s) IN g[1..Len(s)]

(* Result is the value of whichever folding there is.                      *)
LEMMA ResultIs ==
  ASSUME NEW X, NEW base, NEW step, NEW s, Len(s) \in Nat, NEW g,
         Folding(g, X, Len(s), base, step, s)
  PROVE  Result(X, base, step, s) = g[1..Len(s)]
<1> DEFINE c == CHOOSE c : Folding(c, X, Len(s), base, step, s)
<1>1. Folding(c, X, Len(s), base, step, s)
  OBVIOUS
<1>2. Result(X, base, step, s) = c[1..Len(s)]
  BY DEF Result
<1> HIDE DEF c
<1>3. Likewise(c, X, Len(s), base, step, s)
  BY <1>1 DEF Folding, Likewise
<1>4. c = g
  BY <1>3, FoldingUnique
<1>5. QED
  BY <1>2, <1>4

(* Nothing folded is the base.                                             *)
LEMMA ResultEmpty ==
  ASSUME NEW X, NEW E, NEW base, NEW step, Steps(X, E, base, step)
  PROVE  Result(X, base, step, <<>>) = base
<1>1. Len(<<>>) = 0 /\ 0 \in Nat /\ Elements(0, <<>>, E)
  BY DEF Elements
<1>2. PICK g : Folding(g, X, 0, base, step, <<>>)
  BY <1>1, FoldingExists
<1>3. Result(X, base, step, <<>>) = g[1..0]
  BY <1>1, <1>2, ResultIs
<1>4. 1..0 = {} /\ g[{}] = base
  BY <1>2 DEF Folding
<1>5. QED
  BY <1>3, <1>4

(* One more element is one more step.                                      *)
LEMMA ResultAppend ==
  ASSUME NEW X, NEW E, NEW base, NEW step, Steps(X, E, base, step),
         NEW s \in Seq(E), NEW e \in E
  PROVE  /\ Result(X, base, step, s) \in X
         /\ Result(X, base, step, Append(s, e)) =
              step[<<Result(X, base, step, s), e>>]
<1> DEFINE n == Len(s)
           t == Append(s, e)
<1>1. /\ n \in Nat /\ Len(s) = n /\ Len(t) = n + 1 /\ t[n + 1] = e
      /\ \A i \in 1..n : t[i] = s[i]
      /\ Elements(n, s, E) /\ Elements(n + 1, t, E)
  BY DEF Elements
<1> HIDE DEF n, t
<1>2. PICK g : Folding(g, X, n, base, step, s)
  BY <1>1, FoldingExists
<1>3. Result(X, base, step, s) = g[1..n]
  BY <1>1, <1>2, ResultIs
<1>4. Folding(g, X, n, base, step, t)
  <2>1. \A q \in SUBSET (1..n) : q # {} => Max(q) \in 1..n
    BY <1>1, Greatest
  <2>2. \A q \in SUBSET (1..n) : q # {} => t[Max(q)] = s[Max(q)]
    BY <1>1, <2>1
  <2>3. QED
    BY <1>2, <2>2 DEF Folding
<1>5. PICK h : /\ Folding(h, X, n + 1, base, step, t)
               /\ h[1..(n + 1)] = step[<<g[1..n], t[n + 1]>>]
  BY <1>1, <1>4, Extended
<1>6. Len(t) \in Nat /\ Folding(h, X, Len(t), base, step, t)
  BY <1>1, <1>5
<1>7. Result(X, base, step, t) = h[1..Len(t)]
  BY <1>6, ResultIs
<1>8. g[1..n] \in X
  BY <1>2 DEF Folding
<1>9. QED
  BY <1>1, <1>3, <1>5, <1>7, <1>8 DEF t

-----------------------------------------------------------------------------
(* The folds of HeaderFields are results, whose elements are lines or      *)
(* entries: what for_each_field hands to its callback.                     *)

Names == Spellings \union {"status"}
Texts == Values \union {"reason"}
Entries == [name : Names, value : Texts]

(* A map whose keys are names and whose values are lists of texts.         *)
Maps == UNION {[keys -> Seq(Texts)] : keys \in SUBSET Names}

Collect(fields, line) ==
  IF IsField(line) THEN Append(fields, Parsed(line)) ELSE fields

Keep(kept, e) == IF e.name \in Spellings THEN Append(kept, e) ELSE kept

Combine(found, e, name) ==
  IF SameName(e.name, name) THEN Append(found, e.value) ELSE found

(* for_each_field's loop over lines, and header()'s and headers()' over    *)
(* entries.                                                                *)
Collected(lines) ==
  FoldLeft(LAMBDA fields, line : IF IsField(line) THEN Append(fields, Parsed(line))
                                                 ELSE fields,
           <<>>, lines)

HeaderOf(entries, name) ==
  FoldLeft(LAMBDA found, f : IF SameName(f.name, name) THEN Append(found, f.value)
                                                       ELSE found,
           <<>>, entries)

HeadersOf(entries) == FoldLeft(Emplace, <<>>, entries)

(* What a line is taken for.                                               *)
LEMMA LineFacts ==
  ASSUME NEW line \in Lines
  PROVE  /\ Parsed(line) \in Entries
         /\ line.kind = "field" => IsField(line) /\ Parsed(line) \in FieldType
         /\ line.kind # "field" => Parsed(line).name = "status"
BY DEF Lines, Status, Blank, Field, Parsed, IsField, Entries, Names, Texts,
       FieldType

(* The last of some places of a sequence holds one of its elements.        *)
LEMMA LastPlace ==
  ASSUME NEW E, NEW s \in Seq(E), NEW q \in SUBSET (1..Len(s)), q # {}
  PROVE  s[Max(q)] \in E
<1>1. Len(s) \in Nat /\ \A i \in 1..Len(s) : s[i] \in E
  OBVIOUS
<1>2. Max(q) \in q
  BY <1>1, Greatest
<1>3. QED
  BY <1>1, <1>2

(* The elements of a sequence, as the foldings ask for them.               *)
LEMMA ElementsOfSeq == \A E : \A s \in Seq(E) : Elements(Len(s), s, E)
BY DEF Elements

(* Each operator stays within its kind.                                    *)
LEMMA CollectType ==
  /\ <<>> \in Seq(Entries)
  /\ \A fields \in Seq(Entries), line \in Lines : Collect(fields, line) \in Seq(Entries)
<1>1. <<>> \in Seq(Entries)
  OBVIOUS
<1>2. \A line \in Lines : Parsed(line) \in Entries
  BY LineFacts
<1>3. \A fields \in Seq(Entries), e \in Entries : Append(fields, e) \in Seq(Entries)
  OBVIOUS
<1>4. QED
  BY <1>1, <1>2, <1>3 DEF Collect

(* Keep makes entries of entries.                                          *)
LEMMA KeepEntries ==
  /\ <<>> \in Seq(Entries)
  /\ \A kept \in Seq(Entries), e \in Entries : Keep(kept, e) \in Seq(Entries)
<1>1. \A kept \in Seq(Entries), e \in Entries : Append(kept, e) \in Seq(Entries)
  OBVIOUS
<1>2. QED
  BY <1>1 DEF Keep

(* Combine makes values of values.                                         *)
LEMMA CombineType ==
  /\ <<>> \in Seq(Texts)
  /\ \A found \in Seq(Texts), e \in Entries :
       /\ Append(found, e.value) \in Seq(Texts)
       /\ \A name : Combine(found, e, name) \in Seq(Texts)
<1>1. \A found \in Seq(Texts), v \in Texts : Append(found, v) \in Seq(Texts)
  OBVIOUS
<1>2. \A e \in Entries : e.value \in Texts
  BY DEF Entries
<1>3. QED
  BY <1>1, <1>2 DEF Combine

(* Emplace makes a map of a map.                                           *)
LEMMA EmplaceType ==
  /\ <<>> \in Maps
  /\ \A map \in Maps, e \in Entries : Emplace(map, e) \in Maps
<1>1. <<>> \in Maps
  <2>1. <<>> \in [{} -> Seq(Texts)]
    OBVIOUS
  <2>2. QED
    BY <2>1 DEF Maps
<1>2. ASSUME NEW map \in Maps, NEW e \in Entries
      PROVE  Emplace(map, e) \in Maps
  <2>1. PICK keys \in SUBSET Names : map \in [keys -> Seq(Texts)]
    BY DEF Maps
  <2>2. e.name \in Names /\ <<e.value>> \in Seq(Texts)
    BY DEF Entries
  <2>3. \A key \in keys : Append(map[key], e.value) \in Seq(Texts)
    BY <2>1, CombineType
  <2> DEFINE all == keys \union
                      (IF {key \in DOMAIN map : SameName(key, e.name)} = {}
                         THEN {e.name} ELSE {})
  <2>4. Emplace(map, e) \in [all -> Seq(Texts)] /\ all \in SUBSET Names
    BY <2>1, <2>2, <2>3 DEF Emplace
  <2>5. QED
    BY <2>4 DEF Maps
<1>3. QED
  BY <1>1, <1>2

(* Each fold is a result.                                                  *)
LEMMA CollectedIs ==
  ASSUME NEW s \in Seq(Lines)
  PROVE  Collected(s) =
           Result(Seq(Entries), <<>>,
                  [p \in Seq(Entries) \X Lines |-> Collect(p[1], p[2])], s)
<1> DEFINE step == [p \in Seq(Entries) \X Lines |-> Collect(p[1], p[2])]
           P(it) == it = [q \in SUBSET (DOMAIN s) |->
                            IF q = {} THEN <<>>
                            ELSE Collect(it[q \ {Max(q)}], s[Max(q)])]
           it == CHOOSE it : P(it)
<1>1. Collected(s) = it[DOMAIN s]
  BY DEF Collected, Collect, FoldLeft, MapThenFoldSet
<1>2. DOMAIN s = 1..Len(s) /\ Len(s) \in Nat
  OBVIOUS
<1>3. \A x \in Seq(Entries), e \in Lines : step[<<x, e>>] = Collect(x, e)
  OBVIOUS
<1>4. Steps(Seq(Entries), Lines, <<>>, step)
  BY CollectType DEF Steps
<1> HIDE DEF step
<1>5. \A q \in SUBSET (1..Len(s)) : q # {} => s[Max(q)] \in Lines
  BY <1>2, LastPlace
<1>6. PICK g : Folding(g, Seq(Entries), Len(s), <<>>, step, s)
  BY <1>2, <1>4, FoldingExists, ElementsOfSeq
<1>7. P(g)
  <2>1. /\ \A q \in SUBSET (1..Len(s)) : g[q] \in Seq(Entries)
        /\ g = [q \in SUBSET (1..Len(s)) |-> g[q]] /\ g[{}] = <<>>
    BY <1>6 DEF Folding
  <2>2. ASSUME NEW q \in SUBSET (1..Len(s)), q # {}
        PROVE  g[q] = Collect(g[q \ {Max(q)}], s[Max(q)])
    <3>1. g[q] = step[<<g[q \ {Max(q)}], s[Max(q)]>>]
      BY <1>6, <2>2 DEF Folding
    <3>2. g[q \ {Max(q)}] \in Seq(Entries) /\ s[Max(q)] \in Lines
      BY <1>5, <2>1, <2>2
    <3>3. QED
      BY <1>3, <3>1, <3>2
  <2>3. QED
    BY <1>2, <2>1, <2>2
<1>8. P(it)
  BY <1>7
<1> HIDE DEF it
<1>9. Likewise(it, Seq(Entries), Len(s), <<>>, step, s)
  <2>1. it = [q \in SUBSET (1..Len(s)) |-> it[q]] /\ it[{}] = <<>>
    BY <1>2, <1>8
  <2>2. ASSUME NEW q \in SUBSET (1..Len(s)), q # {}, it[q \ {Max(q)}] \in Seq(Entries)
        PROVE  it[q] = step[<<it[q \ {Max(q)}], s[Max(q)]>>]
    BY <1>2, <1>3, <1>5, <1>8, <2>2
  <2>3. QED
    BY <2>1, <2>2 DEF Likewise
<1>10. it[1..Len(s)] = Result(Seq(Entries), <<>>, step, s)
  BY <1>2, <1>6, <1>9, FoldingUnique, ResultIs
<1>11. QED
  BY <1>1, <1>2, <1>10 DEF step

(* headers() folds Emplace.                                                *)
LEMMA HeadersIs ==
  ASSUME NEW s \in Seq(Entries)
  PROVE  HeadersOf(s) =
           Result(Maps, <<>>,
                  [p \in Maps \X Entries |-> Emplace(p[1], p[2])], s)
<1> DEFINE step == [p \in Maps \X Entries |-> Emplace(p[1], p[2])]
           P(it) == it = [q \in SUBSET (DOMAIN s) |->
                            IF q = {} THEN <<>>
                            ELSE Emplace(it[q \ {Max(q)}], s[Max(q)])]
           it == CHOOSE it : P(it)
<1>1. HeadersOf(s) = it[DOMAIN s]
  BY DEF HeadersOf, FoldLeft, MapThenFoldSet
<1>2. DOMAIN s = 1..Len(s) /\ Len(s) \in Nat
  OBVIOUS
<1>3. \A x \in Maps, e \in Entries : step[<<x, e>>] = Emplace(x, e)
  OBVIOUS
<1>4. Steps(Maps, Entries, <<>>, step)
  BY EmplaceType DEF Steps
<1> HIDE DEF step
<1>5. \A q \in SUBSET (1..Len(s)) : q # {} => s[Max(q)] \in Entries
  BY <1>2, LastPlace
<1>6. PICK g : Folding(g, Maps, Len(s), <<>>, step, s)
  BY <1>2, <1>4, FoldingExists, ElementsOfSeq
<1>7. P(g)
  <2>1. /\ \A q \in SUBSET (1..Len(s)) : g[q] \in Maps
        /\ g = [q \in SUBSET (1..Len(s)) |-> g[q]] /\ g[{}] = <<>>
    BY <1>6 DEF Folding
  <2>2. ASSUME NEW q \in SUBSET (1..Len(s)), q # {}
        PROVE  g[q] = Emplace(g[q \ {Max(q)}], s[Max(q)])
    <3>1. g[q] = step[<<g[q \ {Max(q)}], s[Max(q)]>>]
      BY <1>6, <2>2 DEF Folding
    <3>2. g[q \ {Max(q)}] \in Maps /\ s[Max(q)] \in Entries
      BY <1>5, <2>1, <2>2
    <3>3. QED
      BY <1>3, <3>1, <3>2
  <2>3. QED
    BY <1>2, <2>1, <2>2
<1>8. P(it)
  BY <1>7
<1> HIDE DEF it
<1>9. Likewise(it, Maps, Len(s), <<>>, step, s)
  <2>1. it = [q \in SUBSET (1..Len(s)) |-> it[q]] /\ it[{}] = <<>>
    BY <1>2, <1>8
  <2>2. ASSUME NEW q \in SUBSET (1..Len(s)), q # {}, it[q \ {Max(q)}] \in Maps
        PROVE  it[q] = step[<<it[q \ {Max(q)}], s[Max(q)]>>]
    BY <1>2, <1>3, <1>5, <1>8, <2>2
  <2>3. QED
    BY <2>1, <2>2 DEF Likewise
<1>10. it[1..Len(s)] = Result(Maps, <<>>, step, s)
  BY <1>2, <1>6, <1>9, FoldingUnique, ResultIs
<1>11. QED
  BY <1>1, <1>2, <1>10 DEF step

(* header() folds Combine.                                                 *)
LEMMA HeaderIs ==
  ASSUME NEW s \in Seq(Entries), NEW name
  PROVE  HeaderOf(s, name) =
           Result(Seq(Texts), <<>>,
                  [p \in Seq(Texts) \X Entries |-> Combine(p[1], p[2], name)], s)
<1> DEFINE step == [p \in Seq(Texts) \X Entries |-> Combine(p[1], p[2], name)]
           P(it) == it = [q \in SUBSET (DOMAIN s) |->
                            IF q = {} THEN <<>>
                            ELSE Combine(it[q \ {Max(q)}], s[Max(q)], name)]
           it == CHOOSE it : P(it)
<1>1. HeaderOf(s, name) = it[DOMAIN s]
  BY DEF HeaderOf, Combine, FoldLeft, MapThenFoldSet
<1>2. DOMAIN s = 1..Len(s) /\ Len(s) \in Nat
  OBVIOUS
<1>3. \A x \in Seq(Texts), e \in Entries : step[<<x, e>>] = Combine(x, e, name)
  OBVIOUS
<1>4. Steps(Seq(Texts), Entries, <<>>, step)
  BY CombineType DEF Steps
<1> HIDE DEF step
<1>5. \A q \in SUBSET (1..Len(s)) : q # {} => s[Max(q)] \in Entries
  BY <1>2, LastPlace
<1>6. PICK g : Folding(g, Seq(Texts), Len(s), <<>>, step, s)
  BY <1>2, <1>4, FoldingExists, ElementsOfSeq
<1>7. P(g)
  <2>1. /\ \A q \in SUBSET (1..Len(s)) : g[q] \in Seq(Texts)
        /\ g = [q \in SUBSET (1..Len(s)) |-> g[q]] /\ g[{}] = <<>>
    BY <1>6 DEF Folding
  <2>2. ASSUME NEW q \in SUBSET (1..Len(s)), q # {}
        PROVE  g[q] = Combine(g[q \ {Max(q)}], s[Max(q)], name)
    <3>1. g[q] = step[<<g[q \ {Max(q)}], s[Max(q)]>>]
      BY <1>6, <2>2 DEF Folding
    <3>2. g[q \ {Max(q)}] \in Seq(Texts) /\ s[Max(q)] \in Entries
      BY <1>5, <2>1, <2>2
    <3>3. QED
      BY <1>3, <3>1, <3>2
  <2>3. QED
    BY <1>2, <2>1, <2>2
<1>8. P(it)
  BY <1>7
<1> HIDE DEF it
<1>9. Likewise(it, Seq(Texts), Len(s), <<>>, step, s)
  <2>1. it = [q \in SUBSET (1..Len(s)) |-> it[q]] /\ it[{}] = <<>>
    BY <1>2, <1>8
  <2>2. ASSUME NEW q \in SUBSET (1..Len(s)), q # {}, it[q \ {Max(q)}] \in Seq(Texts)
        PROVE  it[q] = step[<<it[q \ {Max(q)}], s[Max(q)]>>]
    BY <1>2, <1>3, <1>5, <1>8, <2>2
  <2>3. QED
    BY <2>1, <2>2 DEF Likewise
<1>10. it[1..Len(s)] = Result(Seq(Texts), <<>>, step, s)
  BY <1>2, <1>6, <1>9, FoldingUnique, ResultIs
<1>11. QED
  BY <1>1, <1>2, <1>10 DEF step

(* Only folds Keep.                                                        *)
LEMMA OnlyIs ==
  ASSUME NEW s \in Seq(Entries)
  PROVE  Only(s) =
           Result(Seq(Entries), <<>>,
                  [p \in Seq(Entries) \X Entries |-> Keep(p[1], p[2])], s)
<1> DEFINE step == [p \in Seq(Entries) \X Entries |-> Keep(p[1], p[2])]
           P(it) == it = [q \in SUBSET (DOMAIN s) |->
                            IF q = {} THEN <<>>
                            ELSE Keep(it[q \ {Max(q)}], s[Max(q)])]
           it == CHOOSE it : P(it)
<1>1. Only(s) = it[DOMAIN s]
  BY DEF Only, Keep, FoldLeft, MapThenFoldSet
<1>2. DOMAIN s = 1..Len(s) /\ Len(s) \in Nat
  OBVIOUS
<1>3. \A x \in Seq(Entries), e \in Entries : step[<<x, e>>] = Keep(x, e)
  OBVIOUS
<1>4. Steps(Seq(Entries), Entries, <<>>, step)
  BY KeepEntries DEF Steps
<1> HIDE DEF step
<1>5. \A q \in SUBSET (1..Len(s)) : q # {} => s[Max(q)] \in Entries
  BY <1>2, LastPlace
<1>6. PICK g : Folding(g, Seq(Entries), Len(s), <<>>, step, s)
  BY <1>2, <1>4, FoldingExists, ElementsOfSeq
<1>7. P(g)
  <2>1. /\ \A q \in SUBSET (1..Len(s)) : g[q] \in Seq(Entries)
        /\ g = [q \in SUBSET (1..Len(s)) |-> g[q]] /\ g[{}] = <<>>
    BY <1>6 DEF Folding
  <2>2. ASSUME NEW q \in SUBSET (1..Len(s)), q # {}
        PROVE  g[q] = Keep(g[q \ {Max(q)}], s[Max(q)])
    <3>1. g[q] = step[<<g[q \ {Max(q)}], s[Max(q)]>>]
      BY <1>6, <2>2 DEF Folding
    <3>2. g[q \ {Max(q)}] \in Seq(Entries) /\ s[Max(q)] \in Entries
      BY <1>5, <2>1, <2>2
    <3>3. QED
      BY <1>3, <3>1, <3>2
  <2>3. QED
    BY <1>2, <2>1, <2>2
<1>8. P(it)
  BY <1>7
<1> HIDE DEF it
<1>9. Likewise(it, Seq(Entries), Len(s), <<>>, step, s)
  <2>1. it = [q \in SUBSET (1..Len(s)) |-> it[q]] /\ it[{}] = <<>>
    BY <1>2, <1>8
  <2>2. ASSUME NEW q \in SUBSET (1..Len(s)), q # {}, it[q \ {Max(q)}] \in Seq(Entries)
        PROVE  it[q] = step[<<it[q \ {Max(q)}], s[Max(q)]>>]
    BY <1>2, <1>3, <1>5, <1>8, <2>2
  <2>3. QED
    BY <2>1, <2>2 DEF Likewise
<1>10. it[1..Len(s)] = Result(Seq(Entries), <<>>, step, s)
  BY <1>2, <1>6, <1>9, FoldingUnique, ResultIs
<1>11. QED
  BY <1>1, <1>2, <1>10 DEF step

(* What they make of one element more.                                     *)
LEMMA CollectedAppend ==
  /\ Collected(<<>>) = <<>>
  /\ \A s \in Seq(Lines), line \in Lines :
       /\ Collected(s) \in Seq(Entries)
       /\ Collected(Append(s, line)) = Collect(Collected(s), line)
<1> DEFINE step == [p \in Seq(Entries) \X Lines |-> Collect(p[1], p[2])]
           R(s) == Result(Seq(Entries), <<>>, step, s)
<1>1. Steps(Seq(Entries), Lines, <<>>, step)
  BY CollectType DEF Steps
<1>2. \A x \in Seq(Entries), line \in Lines : step[<<x, line>>] = Collect(x, line)
  OBVIOUS
<1>3. \A s \in Seq(Lines) : Collected(s) = R(s)
  BY CollectedIs
<1>4. <<>> \in Seq(Lines) /\ \A s \in Seq(Lines), line \in Lines :
                               Append(s, line) \in Seq(Lines)
  OBVIOUS
<1> HIDE DEF step
<1>5. Collected(<<>>) = <<>>
  BY <1>1, <1>3, <1>4, ResultEmpty
<1>6. ASSUME NEW s \in Seq(Lines), NEW line \in Lines
      PROVE  R(s) \in Seq(Entries) /\ R(Append(s, line)) = step[<<R(s), line>>]
  BY <1>1, ResultAppend
<1> HIDE DEF R
<1>7. ASSUME NEW s \in Seq(Lines), NEW line \in Lines
      PROVE  /\ Collected(s) \in Seq(Entries)
             /\ Collected(Append(s, line)) = Collect(Collected(s), line)
  <2>1. Append(s, line) \in Seq(Lines)
    BY <1>4
  <2>2. Collected(s) = R(s) /\ Collected(Append(s, line)) = R(Append(s, line))
    BY <1>3, <2>1
  <2>3. QED
    BY <1>2, <1>6, <2>2
<1>8. QED
  BY <1>5, <1>7

(* One more entry is one more Emplace.                                     *)
LEMMA HeadersOfAppend ==
  /\ HeadersOf(<<>>) = <<>>
  /\ \A s \in Seq(Entries), e \in Entries :
       /\ HeadersOf(s) \in Maps
       /\ HeadersOf(Append(s, e)) = Emplace(HeadersOf(s), e)
<1> DEFINE step == [p \in Maps \X Entries |-> Emplace(p[1], p[2])]
           R(s) == Result(Maps, <<>>, step, s)
<1>1. Steps(Maps, Entries, <<>>, step)
  BY EmplaceType DEF Steps
<1>2. \A x \in Maps, e \in Entries : step[<<x, e>>] = Emplace(x, e)
  OBVIOUS
<1>3. \A s \in Seq(Entries) : HeadersOf(s) = R(s)
  BY HeadersIs
<1>4. <<>> \in Seq(Entries) /\ \A s \in Seq(Entries), e \in Entries :
                                 Append(s, e) \in Seq(Entries)
  OBVIOUS
<1> HIDE DEF step
<1>5. HeadersOf(<<>>) = <<>>
  BY <1>1, <1>3, <1>4, ResultEmpty
<1>6. ASSUME NEW s \in Seq(Entries), NEW e \in Entries
      PROVE  R(s) \in Maps /\ R(Append(s, e)) = step[<<R(s), e>>]
  BY <1>1, ResultAppend
<1> HIDE DEF R
<1>7. ASSUME NEW s \in Seq(Entries), NEW e \in Entries
      PROVE  /\ HeadersOf(s) \in Maps
             /\ HeadersOf(Append(s, e)) = Emplace(HeadersOf(s), e)
  <2>1. Append(s, e) \in Seq(Entries)
    BY <1>4
  <2>2. HeadersOf(s) = R(s) /\ HeadersOf(Append(s, e)) = R(Append(s, e))
    BY <1>3, <2>1
  <2>3. QED
    BY <1>2, <1>6, <2>2
<1>8. QED
  BY <1>5, <1>7

(* One more entry is one more Combine.                                     *)
LEMMA HeaderOfAppend ==
  ASSUME NEW name
  PROVE  /\ HeaderOf(<<>>, name) = <<>>
         /\ \A s \in Seq(Entries), e \in Entries :
              /\ HeaderOf(s, name) \in Seq(Texts)
              /\ HeaderOf(Append(s, e), name) = Combine(HeaderOf(s, name), e, name)
<1> DEFINE step == [p \in Seq(Texts) \X Entries |-> Combine(p[1], p[2], name)]
           R(s) == Result(Seq(Texts), <<>>, step, s)
<1>1. Steps(Seq(Texts), Entries, <<>>, step)
  BY CombineType DEF Steps
<1>2. \A x \in Seq(Texts), e \in Entries : step[<<x, e>>] = Combine(x, e, name)
  OBVIOUS
<1>3. \A s \in Seq(Entries) : HeaderOf(s, name) = R(s)
  BY HeaderIs
<1>4. <<>> \in Seq(Entries) /\ \A s \in Seq(Entries), e \in Entries :
                                 Append(s, e) \in Seq(Entries)
  OBVIOUS
<1> HIDE DEF step
<1>5. HeaderOf(<<>>, name) = <<>>
  BY <1>1, <1>3, <1>4, ResultEmpty
<1>6. ASSUME NEW s \in Seq(Entries), NEW e \in Entries
      PROVE  R(s) \in Seq(Texts) /\ R(Append(s, e)) = step[<<R(s), e>>]
  BY <1>1, ResultAppend
<1> HIDE DEF R
<1>7. ASSUME NEW s \in Seq(Entries), NEW e \in Entries
      PROVE  /\ HeaderOf(s, name) \in Seq(Texts)
             /\ HeaderOf(Append(s, e), name) = Combine(HeaderOf(s, name), e, name)
  <2>1. Append(s, e) \in Seq(Entries)
    BY <1>4
  <2>2. HeaderOf(s, name) = R(s) /\ HeaderOf(Append(s, e), name) = R(Append(s, e))
    BY <1>3, <2>1
  <2>3. QED
    BY <1>2, <1>6, <2>2
<1>8. QED
  BY <1>5, <1>7

(* One more entry is one more Keep.                                        *)
LEMMA OnlyAppend ==
  /\ Only(<<>>) = <<>>
  /\ \A s \in Seq(Entries), e \in Entries :
       /\ Only(s) \in Seq(Entries)
       /\ Only(Append(s, e)) = Keep(Only(s), e)
<1> DEFINE step == [p \in Seq(Entries) \X Entries |-> Keep(p[1], p[2])]
           R(s) == Result(Seq(Entries), <<>>, step, s)
<1>1. Steps(Seq(Entries), Entries, <<>>, step)
  BY KeepEntries DEF Steps
<1>2. \A x \in Seq(Entries), e \in Entries : step[<<x, e>>] = Keep(x, e)
  OBVIOUS
<1>3. \A s \in Seq(Entries) : Only(s) = R(s)
  BY OnlyIs
<1>4. <<>> \in Seq(Entries) /\ \A s \in Seq(Entries), e \in Entries :
                                 Append(s, e) \in Seq(Entries)
  OBVIOUS
<1> HIDE DEF step
<1>5. Only(<<>>) = <<>>
  BY <1>1, <1>3, <1>4, ResultEmpty
<1>6. ASSUME NEW s \in Seq(Entries), NEW e \in Entries
      PROVE  R(s) \in Seq(Entries) /\ R(Append(s, e)) = step[<<R(s), e>>]
  BY <1>1, ResultAppend
<1> HIDE DEF R
<1>7. ASSUME NEW s \in Seq(Entries), NEW e \in Entries
      PROVE  /\ Only(s) \in Seq(Entries)
             /\ Only(Append(s, e)) = Keep(Only(s), e)
  <2>1. Append(s, e) \in Seq(Entries)
    BY <1>4
  <2>2. Only(s) = R(s) /\ Only(Append(s, e)) = R(Append(s, e))
    BY <1>3, <2>1
  <2>3. QED
    BY <1>2, <1>6, <2>2
<1>8. QED
  BY <1>5, <1>7

-----------------------------------------------------------------------------
(* Where the final response starts.                                        *)

(* It starts with a line there is, which only a later status line moves.   *)
LEMMA StartFacts ==
  ASSUME NEW s \in Seq(Lines), NEW line \in Lines
  PROVE  /\ s # <<>> => FinalStart(s) \in 1..Len(s)
         /\ s # <<>> /\ line.kind # "status" =>
              FinalStart(Append(s, line)) = FinalStart(s)
         /\ line.kind = "status" => FinalStart(Append(s, line)) = Len(s) + 1
<1> DEFINE n == Len(s)
           t == Append(s, line)
           Starts(u) == {1} \union {i \in 2..Len(u) : u[i].kind = "status"}
<1>1. /\ n \in Nat /\ Len(t) = n + 1 /\ t[n + 1] = line
      /\ \A i \in 1..n : t[i] = s[i]
      /\ s # <<>> => n >= 1
  OBVIOUS
<1>2. FinalStart(s) = Max(Starts(s)) /\ FinalStart(t) = Max(Starts(t))
  BY DEF FinalStart
<1>3. ASSUME s # <<>>
      PROVE  FinalStart(s) \in 1..n
  <2>1. Starts(s) \in SUBSET (1..n) /\ Starts(s) # {}
    BY <1>1, <1>3
  <2>2. QED
    BY <1>1, <1>2, <2>1, Greatest
<1>4. ASSUME s # <<>>, line.kind # "status"
      PROVE  FinalStart(t) = FinalStart(s)
  <2>1. Starts(t) = Starts(s)
    BY <1>1, <1>4
  <2>2. QED
    BY <1>2, <2>1
<1>5. ASSUME line.kind = "status"
      PROVE  FinalStart(t) = n + 1
  <2>1. /\ n + 1 \in Nat /\ Starts(t) \in SUBSET (1..(n + 1))
        /\ n + 1 \in Starts(t)
    BY <1>1, <1>5
  <2> HIDE DEF Starts
  <2>2. Max(Starts(t)) \in Starts(t) /\ Max(Starts(t)) >= n + 1
    BY <2>1, Greatest
  <2>3. Max(Starts(t)) \in 1..(n + 1)
    BY <2>1, <2>2
  <2>4. QED
    BY <1>1, <1>2, <2>2, <2>3
<1>6. QED
  BY <1>3, <1>4, <1>5

(* A line of the block that is open, or of its trailers, is one more.      *)
LEMMA NextLine ==
  ASSUME NEW s \in Seq(Lines), s # <<>>, NEW line \in Lines, line.kind # "status"
  PROVE  /\ ForEachField(s) \in Seq(Entries)
         /\ ForEachField(Append(s, line)) = Collect(ForEachField(s), line)
<1> DEFINE n == Len(s)
           k == FinalStart(s)
           b == SubSeq(s, k, n)
<1>1. n \in Nat /\ k \in 1..n /\ FinalStart(Append(s, line)) = k
      /\ Len(Append(s, line)) = n + 1
  BY StartFacts
<1>2. b \in Seq(Lines)
  BY <1>1, SubSeqProperties
<1>3. SubSeq(Append(s, line), k, n + 1) = Append(b, line)
  BY <1>1
<1>4. ForEachField(s) = Collected(b)
  BY DEF ForEachField, Collected
<1>5. ForEachField(Append(s, line)) =
        Collected(SubSeq(Append(s, line), FinalStart(Append(s, line)),
                         Len(Append(s, line))))
  BY DEF ForEachField, Collected
<1> HIDE DEF n, k, b
<1>6. QED
  BY <1>1, <1>2, <1>3, <1>4, <1>5, CollectedAppend

(* A status line starts anew.                                              *)
LEMMA FirstLine ==
  ASSUME NEW s \in Seq(Lines), NEW line \in Lines, line.kind = "status"
  PROVE  ForEachField(Append(s, line)) = Collect(<<>>, line)
<1> DEFINE n == Len(s)
           t == Append(s, line)
<1>1. n \in Nat /\ FinalStart(t) = n + 1 /\ Len(t) = n + 1
  BY StartFacts
<1>2. SubSeq(t, n + 1, n + 1) = Append(<<>>, line)
  <2>1. t \in Seq(Lines) /\ t[n + 1] = line /\ n + 1 \in 1..Len(t)
    BY <1>1
  <2> DEFINE b == SubSeq(t, n + 1, n + 1)
  <2> HIDE DEF t
  <2>2. b \in Seq(Lines) /\ Len(b) = 1 /\ b[1] = line
    <3>1. n + 1 \in Int /\ \A i \in (n + 1)..(n + 1) : t[i] \in Lines
      BY <1>1, <2>1
    <3>2. 1 \in 1..((n + 1) - (n + 1) + 1) /\ n + 1 + 1 - 1 = n + 1
          /\ (n + 1) - (n + 1) + 1 = 1 /\ n + 1 <= n + 1
      BY <1>1
    <3> HIDE DEF n
    <3>3. /\ b \in Seq(Lines) /\ Len(b) = (n + 1) - (n + 1) + 1
          /\ b[1] = t[n + 1 + 1 - 1]
      BY <3>1, <3>2, SubSeqProperties
    <3>4. QED
      BY <2>1, <3>2, <3>3
  <2> HIDE DEF b
  <2>3. b = Append(<<>>, line)
    BY <2>2
  <2>4. QED
    BY <2>3 DEF b
<1>3. ForEachField(t) = Collected(SubSeq(t, FinalStart(t), Len(t)))
  BY DEF ForEachField, Collected
<1>4. <<>> \in Seq(Lines)
  OBVIOUS
<1> HIDE DEF n, t
<1>5. ForEachField(t) = Collect(<<>>, line)
  BY <1>1, <1>2, <1>3, <1>4, CollectedAppend
<1>6. QED
  BY <1>5 DEF t

-----------------------------------------------------------------------------
(* The two lookups.                                                        *)

(* CiEqual is an equivalence, under which a status line's "name" is that   *)
(* of no field.                                                            *)
LEMMA SameNameFacts ==
  /\ \A m \in Names : SameName(m, m)
  /\ \A m, n \in Names : SameName(m, n) => SameName(n, m)
  /\ \A l, m, n \in Names : SameName(l, m) /\ SameName(m, n) => SameName(l, n)
  /\ \A m, n \in Spellings : SameName(m, n) <=> Folded[m] = Folded[n]
  /\ \A n \in Spellings : ~SameName("status", n)
BY NamesAssumption DEF SameName, Names

(* The map has one entry for all spellings of a name, and the two lookups  *)
(* agree on every name.                                                    *)
OneEntry(map) == \A m, n \in DOMAIN map : SameName(m, n) => m = n

Agreeing(entries) ==
  /\ OneEntry(HeadersOf(entries))
  /\ \A name \in Spellings :
       HeaderOf(entries, name) = Found(HeadersOf(entries), name)

(* The lookups agree on no entries.                                        *)
LEMMA AgreeingEmpty == Agreeing(<<>>)
<1>1. HeadersOf(<<>>) = <<>> /\ \A name : HeaderOf(<<>>, name) = <<>>
  BY HeadersOfAppend, HeaderOfAppend
<1>2. DOMAIN <<>> = {}
  OBVIOUS
<1>3. \A name : Found(<<>>, name) = <<>>
  BY <1>2 DEF Found
<1>4. QED
  BY <1>1, <1>2, <1>3 DEF Agreeing, OneEntry

(* What the map finds under a name it has, and under one it has not.       *)
LEMMA FoundFacts ==
  ASSUME NEW map \in Maps, OneEntry(map), NEW name \in Names
  PROVE  /\ \A key \in DOMAIN map : SameName(key, name) => Found(map, name) = map[key]
         /\ (\A key \in DOMAIN map : ~SameName(key, name)) => Found(map, name) = <<>>
<1> DEFINE same == {key \in DOMAIN map : SameName(key, name)}
<1>1. DOMAIN map \subseteq Names
  BY DEF Maps
<1>2. ASSUME NEW key \in DOMAIN map, SameName(key, name)
      PROVE  Found(map, name) = map[key]
  <2>1. same # {} /\ \A k \in same : k = key
    BY <1>1, <1>2, SameNameFacts DEF OneEntry
  <2>2. (CHOOSE k \in same : TRUE) = key
    BY <2>1
  <2>3. QED
    BY <2>1, <2>2 DEF Found
<1>3. ASSUME \A key \in DOMAIN map : ~SameName(key, name)
      PROVE  Found(map, name) = <<>>
  BY <1>3 DEF Found
<1>4. QED
  BY <1>2, <1>3

(* An entry more: its name is new to the map, or has a key there.          *)
LEMMA EmplaceFacts ==
  ASSUME NEW map \in Maps, OneEntry(map), NEW e \in Entries
  PROVE  /\ OneEntry(Emplace(map, e))
         /\ \A name \in Names : Found(Emplace(map, e), name) =
              IF SameName(e.name, name) THEN Append(Found(map, name), e.value)
                                        ELSE Found(map, name)
<1> DEFINE same == {key \in DOMAIN map : SameName(key, e.name)}
           more == Emplace(map, e)
<1>1. /\ e.name \in Names /\ DOMAIN map \subseteq Names
      /\ more \in Maps
  BY EmplaceType DEF Entries, Maps
<1>2. CASE same = {}
  <2>1. /\ DOMAIN more = DOMAIN map \union {e.name}
        /\ e.name \notin DOMAIN map
        /\ more[e.name] = <<e.value>>
        /\ \A key \in DOMAIN map : more[key] = map[key]
    BY <1>1, <1>2, SameNameFacts DEF Emplace
  <2>2. \A key \in DOMAIN map : ~SameName(key, e.name) /\ ~SameName(e.name, key)
    BY <1>1, <1>2, SameNameFacts
  <2> HIDE DEF more
  <2>3. OneEntry(more)
    BY <2>1, <2>2 DEF OneEntry
  <2>4. ASSUME NEW name \in Names
        PROVE  Found(more, name) =
                 IF SameName(e.name, name) THEN Append(Found(map, name), e.value)
                                           ELSE Found(map, name)
    <3>1. CASE SameName(e.name, name)
      <4>1. \A key \in DOMAIN map : ~SameName(key, name)
        BY <1>1, <2>2, <3>1, SameNameFacts
      <4>2. Found(map, name) = <<>>
        BY <4>1, FoundFacts
      <4>3. Found(more, name) = <<e.value>>
        BY <1>1, <2>1, <2>3, <3>1, FoundFacts
      <4>4. Append(<<>>, e.value) = <<e.value>>
        OBVIOUS
      <4>5. QED
        BY <3>1, <4>2, <4>3, <4>4
    <3>2. CASE ~SameName(e.name, name) /\ \E key \in DOMAIN map : SameName(key, name)
      <4>1. PICK key \in DOMAIN map : SameName(key, name)
        BY <3>2
      <4>2. Found(map, name) = map[key]
        BY <4>1, FoundFacts
      <4>3. Found(more, name) = more[key]
        BY <1>1, <2>1, <2>3, <4>1, FoundFacts
      <4>4. QED
        BY <2>1, <3>2, <4>1, <4>2, <4>3
    <3>3. CASE ~SameName(e.name, name) /\ \A key \in DOMAIN map : ~SameName(key, name)
      <4>1. Found(map, name) = <<>>
        BY <3>3, FoundFacts
      <4>2. \A key \in DOMAIN more : ~SameName(key, name)
        BY <2>1, <3>3
      <4>3. Found(more, name) = <<>>
        BY <1>1, <2>3, <4>2, FoundFacts
      <4>4. QED
        BY <3>3, <4>1, <4>3
    <3>4. QED
      BY <3>1, <3>2, <3>3
  <2>5. QED
    BY <2>3, <2>4 DEF more
<1>3. CASE same # {}
  <2>1. PICK own \in DOMAIN map : SameName(own, e.name)
    BY <1>3
  <2>2. \A key \in DOMAIN map : key \in same <=> key = own
    BY <1>1, <2>1, SameNameFacts DEF OneEntry
  <2>3. /\ DOMAIN more = DOMAIN map
        /\ more[own] = Append(map[own], e.value)
        /\ \A key \in DOMAIN map \ {own} : more[key] = map[key]
    BY <1>3, <2>1, <2>2 DEF Emplace
  <2> HIDE DEF more
  <2>4. OneEntry(more)
    BY <2>3 DEF OneEntry
  <2>5. ASSUME NEW name \in Names
        PROVE  Found(more, name) =
                 IF SameName(e.name, name) THEN Append(Found(map, name), e.value)
                                           ELSE Found(map, name)
    <3>1. CASE SameName(e.name, name)
      <4>1. SameName(own, name)
        BY <1>1, <2>1, <3>1, SameNameFacts
      <4>2. Found(map, name) = map[own]
        BY <2>1, <4>1, FoundFacts
      <4>3. Found(more, name) = more[own]
        BY <1>1, <2>1, <2>3, <2>4, <4>1, FoundFacts
      <4>4. QED
        BY <2>3, <3>1, <4>2, <4>3
    <3>2. CASE ~SameName(e.name, name) /\ \E key \in DOMAIN map : SameName(key, name)
      <4>1. PICK key \in DOMAIN map : SameName(key, name)
        BY <3>2
      <4>2. key # own
        BY <1>1, <2>1, <3>2, <4>1, SameNameFacts
      <4>3. Found(map, name) = map[key]
        BY <4>1, FoundFacts
      <4>4. Found(more, name) = more[key]
        BY <1>1, <2>3, <2>4, <4>1, FoundFacts
      <4>5. QED
        BY <2>3, <3>2, <4>1, <4>2, <4>3, <4>4
    <3>3. CASE ~SameName(e.name, name) /\ \A key \in DOMAIN map : ~SameName(key, name)
      <4>1. Found(map, name) = <<>> /\ Found(more, name) = <<>>
        BY <1>1, <2>3, <2>4, <3>3, FoundFacts
      <4>2. QED
        BY <3>3, <4>1
    <3>4. QED
      BY <3>1, <3>2, <3>3
  <2>6. QED
    BY <2>4, <2>5 DEF more
<1>4. QED
  BY <1>2, <1>3

(* The lookups agree after one entry more.                                 *)
LEMMA AgreeingAppend ==
  ASSUME NEW s \in Seq(Entries), NEW e \in Entries, Agreeing(s)
  PROVE  Agreeing(Append(s, e))
<1>1. /\ HeadersOf(s) \in Maps
      /\ HeadersOf(Append(s, e)) = Emplace(HeadersOf(s), e)
  BY HeadersOfAppend
<1>2. \A name : HeaderOf(Append(s, e), name) = Combine(HeaderOf(s, name), e, name)
  BY HeaderOfAppend
<1>3. Spellings \subseteq Names
  BY DEF Names
<1>4. OneEntry(HeadersOf(s))
  BY DEF Agreeing
<1>5. OneEntry(HeadersOf(Append(s, e)))
  BY <1>1, <1>4, EmplaceFacts
<1>6. ASSUME NEW name \in Spellings
      PROVE  HeaderOf(Append(s, e), name) = Found(HeadersOf(Append(s, e)), name)
  <2>1. HeaderOf(s, name) = Found(HeadersOf(s), name)
    BY DEF Agreeing
  <2>2. Found(Emplace(HeadersOf(s), e), name) =
          IF SameName(e.name, name) THEN Append(Found(HeadersOf(s), name), e.value)
                                    ELSE Found(HeadersOf(s), name)
    BY <1>1, <1>3, <1>4, EmplaceFacts
  <2>3. QED
    BY <1>1, <1>2, <2>1, <2>2 DEF Combine
<1>7. QED
  BY <1>5, <1>6 DEF Agreeing

-----------------------------------------------------------------------------
(* The values of a name, in the order of its fields.                       *)

Places(f, name) == {i \in DOMAIN f : Folded[f[i].name] = Folded[name]}

InOrder(values, f, name) ==
  /\ Len(values) = Cardinality(Places(f, name))
  /\ \A i \in Places(f, name) :
       values[Cardinality({j \in Places(f, name) : j <= i})] = f[i].value

(* Places of a sequence are finitely many.                                 *)
LEMMA PlacesFinite ==
  ASSUME NEW n \in Nat, NEW S \in SUBSET (1..n)
  PROVE  IsFiniteSet(S) /\ Cardinality(S) \in Nat
<1>1. IsFiniteSet(1..n)
  <2>1. 1 \in Int /\ n \in Int
    OBVIOUS
  <2>2. QED
    BY <2>1, FS_Interval
<1>2. QED
  BY <1>1, FS_Subset, FS_CardinalityType

(* The rank of a place is a number from 1 to the number of places.         *)
LEMMA RankFacts ==
  ASSUME NEW n \in Nat, NEW S \in SUBSET (1..n), NEW i \in S
  PROVE  Cardinality({j \in S : j <= i}) \in 1..Cardinality(S)
<1> DEFINE low == {j \in S : j <= i}
<1>1. IsFiniteSet(S) /\ Cardinality(S) \in Nat
  BY PlacesFinite
<1>2. IsFiniteSet(low) /\ Cardinality(low) \in Nat
      /\ Cardinality(low) <= Cardinality(S)
  BY <1>1, FS_Subset, FS_CardinalityType
<1>3. i \in low
  OBVIOUS
<1>4. Cardinality(low) # 0
  BY <1>2, <1>3, FS_EmptySet
<1>5. QED
  BY <1>1, <1>2, <1>4

(* The combined values are those of the fields, with one more field too.   *)
LEMMA InOrderAppend ==
  ASSUME NEW f \in Seq(FieldType), NEW e \in FieldType, NEW name \in Spellings,
         NEW values \in Seq(Texts), InOrder(values, f, name)
  PROVE  InOrder(Combine(values, e, name), Append(f, e), name)
<1> DEFINE n == Len(f)
           t == Append(f, e)
           S == Places(f, name)
           v == Combine(values, e, name)
<1>1. /\ n \in Nat /\ DOMAIN f = 1..n /\ DOMAIN t = 1..(n + 1) /\ t[n + 1] = e
      /\ \A i \in 1..n : t[i] = f[i]
  OBVIOUS
<1>2. S \in SUBSET (1..n) /\ IsFiniteSet(S) /\ Cardinality(S) \in Nat
      /\ n + 1 \notin S
  <2>1. S \in SUBSET (1..n) /\ n + 1 \notin S
    BY <1>1 DEF Places
  <2>2. QED
    BY <1>1, <2>1, PlacesFinite
<1>3. e.name \in Spellings /\ e.value \in Texts
  BY DEF FieldType, Texts
<1>4. CASE ~SameName(e.name, name)
  <2>1. Folded[e.name] # Folded[name] /\ v = values
    BY <1>3, <1>4, SameNameFacts DEF Combine
  <2>2. Places(t, name) = S
    BY <1>1, <2>1 DEF Places
  <2>3. \A i \in S : t[i] = f[i]
    BY <1>1, <1>2
  <2> HIDE DEF S, t, v
  <2>4. InOrder(v, t, name)
    BY <2>1, <2>2, <2>3 DEF InOrder, S
  <2>5. QED
    BY <2>4 DEF t, v
<1>5. CASE SameName(e.name, name)
  <2>1. Folded[e.name] = Folded[name] /\ v = Append(values, e.value)
    BY <1>3, <1>5, SameNameFacts DEF Combine
  <2>2. Places(t, name) = S \union {n + 1}
    BY <1>1, <2>1 DEF Places
  <2>3. Len(values) = Cardinality(S)
    BY DEF InOrder
  <2>4. Cardinality(S \union {n + 1}) = Cardinality(S) + 1
    BY <1>2, FS_AddElement
  <2>5. /\ Len(v) = Cardinality(S) + 1 /\ v[Cardinality(S) + 1] = e.value
        /\ \A k \in 1..Cardinality(S) : v[k] = values[k]
    BY <1>2, <1>3, <2>1, <2>3
  <2>6. ASSUME NEW i \in S
        PROVE  v[Cardinality({j \in S \union {n + 1} : j <= i})] = t[i].value
    <3>1. i \in 1..n /\ t[i] = f[i]
      BY <1>1, <1>2
    <3>2. {j \in S \union {n + 1} : j <= i} = {j \in S : j <= i}
      BY <1>1, <3>1
    <3>3. Cardinality({j \in S : j <= i}) \in 1..Cardinality(S)
      BY <1>1, <1>2, RankFacts
    <3>4. values[Cardinality({j \in S : j <= i})] = f[i].value
      BY DEF InOrder
    <3>5. QED
      BY <2>5, <3>1, <3>2, <3>3, <3>4
  <2>7. v[Cardinality({j \in S \union {n + 1} : j <= n + 1})] = t[n + 1].value
    <3>1. \A j \in S \union {n + 1} : j <= n + 1
      BY <1>1, <1>2
    <3>2. {j \in S \union {n + 1} : j <= n + 1} = S \union {n + 1}
      BY <3>1
    <3>3. QED
      BY <1>1, <2>4, <2>5, <3>2
  <2> HIDE DEF S, t, v, n
  <2>8. InOrder(v, t, name)
    BY <2>2, <2>4, <2>5, <2>6, <2>7 DEF InOrder
  <2>9. QED
    BY <2>8 DEF t, v
<1>6. QED
  BY <1>4, <1>5

-----------------------------------------------------------------------------
(* What the properties say of the entries found and the fields received.   *)
Good(entries, f) ==
  /\ entries \in Seq(Entries)
  /\ Only(entries) = f
  /\ Agreeing(entries)
  /\ \A name \in Spellings : InOrder(HeaderOf(entries, name), f, name)

(* The invariant says it of what for_each_field finds in the text.         *)
LEMMA GoodIs ==
  /\ (OnlyFinal /\ LookupsAgree /\ RepeatsAreCombined) <=>
       (/\ Only(ForEachField(text)) = final
        /\ Agreeing(ForEachField(text))
        /\ \A name \in Spellings :
             InOrder(HeaderOf(ForEachField(text), name), final, name))
<1>1. \A name : Header(text, name) = HeaderOf(ForEachField(text), name)
  BY DEF Header, HeaderOf
<1>2. Headers(text) = HeadersOf(ForEachField(text))
  BY DEF Headers, HeadersOf
<1>3. OnlyFinal <=> Only(ForEachField(text)) = final
  BY DEF OnlyFinal
<1>4. \A name : Own(name) = Places(final, name)
  BY DEF Own, Places
<1>5. \A name : ValuesInOrder(name) <=>
                  InOrder(HeaderOf(ForEachField(text), name), final, name)
  BY <1>1, <1>4 DEF ValuesInOrder, InOrder
<1>6. LookupsAgree /\ RepeatsAreCombined <=>
        /\ Agreeing(ForEachField(text))
        /\ \A name \in Spellings :
             InOrder(HeaderOf(ForEachField(text), name), final, name)
  BY <1>1, <1>2, <1>5 DEF LookupsAgree, RepeatsAreCombined, Agreeing, OneEntry
<1>7. QED
  BY <1>3, <1>6

(* It holds of no fields, found in nothing or in a status line ...         *)
LEMMA GoodEmpty == Good(<<>>, <<>>)
<1>1. <<>> \in Seq(Entries) /\ Only(<<>>) = <<>> /\ Agreeing(<<>>)
  BY OnlyAppend, AgreeingEmpty
<1>2. ASSUME NEW name \in Spellings
      PROVE  InOrder(HeaderOf(<<>>, name), <<>>, name)
  <2>1. HeaderOf(<<>>, name) = <<>>
    BY HeaderOfAppend
  <2>2. Places(<<>>, name) = {} /\ Cardinality({}) = 0 /\ Len(<<>>) = 0
    BY FS_EmptySet DEF Places
  <2>3. QED
    BY <2>1, <2>2 DEF InOrder
<1>3. QED
  BY <1>1, <1>2 DEF Good

(* A status line, taken for a field or skipped, changes no field.          *)
LEMMA GoodStatus ==
  ASSUME NEW entries, NEW f, Good(entries, f), NEW line \in Lines,
         line.kind # "field"
  PROVE  Good(Collect(entries, line), f)
<1>1. CASE ~IsField(line)
  BY <1>1 DEF Collect
<1>2. CASE IsField(line)
  <2> DEFINE e == Parsed(line)
  <2>1. e \in Entries /\ e.name = "status"
    BY LineFacts
  <2> HIDE DEF e
  <2>2. entries \in Seq(Entries) /\ Only(entries) = f /\ Agreeing(entries)
    BY DEF Good
  <2>3. Append(entries, e) \in Seq(Entries)
    BY <2>1, <2>2
  <2>4. Only(Append(entries, e)) = f
    BY <2>1, <2>2, OnlyAppend, NamesAssumption DEF Keep
  <2>5. Agreeing(Append(entries, e))
    BY <2>1, <2>2, AgreeingAppend
  <2>6. ASSUME NEW name \in Spellings
        PROVE  HeaderOf(Append(entries, e), name) = HeaderOf(entries, name)
    <3>1. HeaderOf(Append(entries, e), name) =
            Combine(HeaderOf(entries, name), e, name)
      BY <2>1, <2>2, HeaderOfAppend
    <3>2. ~SameName(e.name, name)
      BY <2>1, SameNameFacts
    <3>3. QED
      BY <3>1, <3>2 DEF Combine
  <2>7. Good(Append(entries, e), f)
    BY <2>3, <2>4, <2>5, <2>6 DEF Good
  <2>8. QED
    BY <1>2, <2>7 DEF Collect, e
<1>3. QED
  BY <1>1, <1>2

(* ... and after a field more was received and found.                      *)
LEMMA GoodField ==
  ASSUME NEW entries, NEW f \in Seq(FieldType), Good(entries, f),
         NEW e \in FieldType
  PROVE  Good(Append(entries, e), Append(f, e))
<1>1. e \in Entries /\ e.name \in Spellings
  BY DEF FieldType, Entries, Names, Texts
<1>2. entries \in Seq(Entries) /\ Only(entries) = f /\ Agreeing(entries)
  BY DEF Good
<1>3. Append(entries, e) \in Seq(Entries)
  BY <1>1, <1>2
<1>4. Only(Append(entries, e)) = Append(f, e)
  BY <1>1, <1>2, OnlyAppend DEF Keep
<1>5. Agreeing(Append(entries, e))
  BY <1>1, <1>2, AgreeingAppend
<1>6. ASSUME NEW name \in Spellings
      PROVE  InOrder(HeaderOf(Append(entries, e), name), Append(f, e), name)
  <2>1. HeaderOf(entries, name) \in Seq(Texts)
    BY <1>1, <1>2, HeaderOfAppend
  <2>2. InOrder(HeaderOf(entries, name), f, name)
    BY DEF Good
  <2>3. HeaderOf(Append(entries, e), name) =
          Combine(HeaderOf(entries, name), e, name)
    BY <1>1, <1>2, HeaderOfAppend
  <2>4. QED
    BY <2>1, <2>2, <2>3, InOrderAppend
<1>7. QED
  BY <1>3, <1>4, <1>5, <1>6 DEF Good

-----------------------------------------------------------------------------
(* What is found, to the entry: the fields, after a status line taken for  *)
(* one.                                                                    *)
Exact(entries, f, colon) == entries = Title(colon) \o f

(* A status line is the first entry or none ...                            *)
LEMMA ExactStatus ==
  ASSUME NEW colon \in BOOLEAN
  PROVE  Exact(Collect(<<>>, Status(colon)), <<>>, colon)
<1>1. /\ IsField(Status(colon)) <=> colon
      /\ Parsed(Status(colon)) = [name |-> "status", value |-> "reason"]
  BY DEF IsField, Parsed, Status
<1>2. CASE colon
  <2>1. Collect(<<>>, Status(colon)) = <<[name |-> "status", value |-> "reason"]>>
    BY <1>1, <1>2 DEF Collect
  <2>2. Title(colon) \o <<>> = <<[name |-> "status", value |-> "reason"]>>
    BY <1>2 DEF Title
  <2>3. QED
    BY <2>1, <2>2 DEF Exact
<1>3. CASE ~colon
  BY <1>1, <1>3 DEF Collect, Exact, Title
<1>4. QED
  BY <1>2, <1>3

(* ... and a field the last one.                                           *)
LEMMA ExactField ==
  ASSUME NEW entries, NEW f \in Seq(FieldType), NEW colon \in BOOLEAN,
         NEW e \in FieldType, Exact(entries, f, colon)
  PROVE  Exact(Append(entries, e), Append(f, e), colon)
<1> DEFINE S == FieldType \union {[name |-> "status", value |-> "reason"]}
<1>1. Title(colon) \in Seq(S) /\ f \in Seq(S) /\ e \in S
  BY DEF Title
<1> HIDE DEF S
<1>2. Append(Title(colon) \o f, e) = Title(colon) \o Append(f, e)
  BY <1>1
<1>3. QED
  BY <1>2 DEF Exact

-----------------------------------------------------------------------------

(* Before the first line nothing is found and nothing is there.            *)
LEMMA InitInv == Init => IInv
<1> SUFFICES ASSUME Init PROVE IInv
  OBVIOUS
<1>0. text = <<>> /\ block = "none" /\ final = <<>> /\ titled = FALSE
  BY DEF Init
<1>1. TypeOK /\ BlockInv
  <2>1. /\ text \in Seq(Lines) /\ Len(text) <= MaxLines
        /\ final \in Seq(FieldType) /\ block \in {"none", "open", "closed"}
    <3>1. <<>> \in Seq(Lines) /\ <<>> \in Seq(FieldType) /\ Len(<<>>) <= MaxLines
      BY BoundAssumption
    <3>2. QED
      BY <3>1, <1>0
  <2>2. titled \in BOOLEAN
    BY <1>0
  <2>3. BlockInv
    BY <1>0 DEF BlockInv
  <2>4. QED
    BY <2>1, <2>2, <2>3 DEF TypeOK
<1>2. ForEachField(<<>>) = <<>>
  <2>1. SubSeq(<<>>, FinalStart(<<>>), Len(<<>>)) = <<>>
    <3>1. FinalStart(<<>>) = 1
      <4>1. {1} \union {i \in 2..Len(<<>>) : <<>>[i].kind = "status"} = {1}
        OBVIOUS
      <4>2. Max({1}) = 1
        <5>1. {1} \in SUBSET (1..1) /\ {1} # {} /\ 1 \in Nat
          OBVIOUS
        <5>2. QED
          BY <5>1, Greatest
      <4>3. QED
        BY <4>1, <4>2 DEF FinalStart
    <3>2. QED
      BY <3>1
  <2>2. ForEachField(<<>>) = Collected(<<>>)
    BY <2>1 DEF ForEachField, Collected
  <2>3. QED
    BY <2>2, CollectedAppend
<1>3. FinalResponseOnly /\ OnlyFinal /\ LookupsAgree /\ RepeatsAreCombined
  <2>1. text = <<>> /\ final = <<>> /\ titled = FALSE
    BY DEF Init
  <2>2. FinalResponseOnly
    BY <1>2, <2>1 DEF FinalResponseOnly, Title
  <2>3. QED
    BY <1>2, <2>1, <2>2, GoodEmpty, GoodIs DEF Good
<1>4. QED
  BY <1>1, <1>3 DEF IInv

(* The invariant, as Good says it, of a text that is not empty.            *)
LEMMA IInvGood ==
  ASSUME IInv, text # <<>>
  PROVE  Good(ForEachField(text), final)
<1>1. text \in Seq(Lines) /\ Blank \in Lines /\ Blank.kind # "status"
  BY DEF IInv, TypeOK, Lines, Blank
<1>2. ForEachField(text) \in Seq(Entries)
  BY <1>1, NextLine
<1>3. QED
  BY <1>2, GoodIs DEF IInv, Good

(* Every line curl hands over keeps the invariant.                         *)
LEMMA NextInv == IInv /\ [Next]_vars => IInv'
<1> SUFFICES ASSUME IInv, [Next]_vars PROVE IInv'
  OBVIOUS
<1>0. TypeOK /\ BlockInv
  BY DEF IInv
<1>1. CASE UNCHANGED vars
  <2>1. text' = text /\ block' = block /\ final' = final /\ titled' = titled
    BY <1>1 DEF vars
  <2>2. TypeOK' /\ BlockInv'
    BY <1>0, <2>1 DEF TypeOK, BlockInv
  <2>3. FinalResponseOnly' /\ OnlyFinal'
    BY <2>1 DEF IInv, FinalResponseOnly, OnlyFinal
  <2>4. LookupsAgree'
    BY <2>1 DEF IInv, LookupsAgree
  <2>5. RepeatsAreCombined'
    BY <2>1 DEF IInv, RepeatsAreCombined, ValuesInOrder, Own
  <2>6. QED
    BY <2>2, <2>3, <2>4, <2>5 DEF IInv
<1>2. CASE Next
  (* It is enough that what is found is good of what was received. *)
  <2>1. ASSUME NEW line \in Lines, text' = Append(text, line),
               block' \in {"open", "closed"}, final' \in Seq(FieldType),
               titled' \in BOOLEAN,
               Good(ForEachField(Append(text, line)), final'),
               Exact(ForEachField(Append(text, line)), final', titled')
        PROVE  IInv'
    <3>1. /\ Len(text) + 1 <= MaxLines /\ text \in Seq(Lines)
      BY <1>0, <1>2, BoundAssumption DEF Next, TypeOK
    <3>2. text' \in Seq(Lines) /\ Len(text') <= MaxLines /\ text' # <<>>
      BY <2>1, <3>1
    <3>3. TypeOK' /\ BlockInv'
      BY <2>1, <3>2 DEF TypeOK, BlockInv
    <3>4. ForEachField(Append(text, line)) = ForEachField(text)'
      BY <2>1
    <3>7. FinalResponseOnly'
      BY <2>1, <3>4 DEF Exact, FinalResponseOnly, Title
    <3>5. (OnlyFinal /\ LookupsAgree /\ RepeatsAreCombined)'
      <4>1. /\ Only(ForEachField(text)') = final'
            /\ Agreeing(ForEachField(text)')
            /\ \A name \in Spellings :
                 InOrder(HeaderOf(ForEachField(text)', name), final', name)
        BY <2>1, <3>4 DEF Good
      <4>2. (/\ Only(ForEachField(text)) = final
             /\ Agreeing(ForEachField(text))
             /\ \A name \in Spellings :
                  InOrder(HeaderOf(ForEachField(text), name), final, name))'
        BY <4>1
      <4>3. QED
        BY <4>2, GoodIs, PTL
    <3>6. QED
      BY <3>3, <3>5, <3>7 DEF IInv
  <2>2. CASE StatusLine
    <3>1. PICK colon \in BOOLEAN :
            text' = Append(text, Status(colon)) /\ titled' = colon
      BY <2>2 DEF StatusLine, HeaderCb
    <3> DEFINE line == Status(colon)
    <3>2. line \in Lines /\ line.kind = "status"
      BY DEF Lines, Status
    <3>3. text \in Seq(Lines) /\ block' = "open" /\ final' = <<>>
      BY <1>0, <2>2 DEF StatusLine, TypeOK
    <3> HIDE DEF line
    <3>4. ForEachField(Append(text, line)) = Collect(<<>>, line)
      BY <3>2, <3>3, FirstLine
    <3>5. Good(Collect(<<>>, line), <<>>)
      BY <3>2, GoodEmpty, GoodStatus
    <3>6. <<>> \in Seq(FieldType)
      OBVIOUS
    <3>7. text' = Append(text, line)
      BY <3>1 DEF line
    <3>8. Exact(Collect(<<>>, line), <<>>, titled')
      BY <3>1, ExactStatus DEF line
    <3>9. titled' \in BOOLEAN
      BY <3>1
    <3>10. QED
      BY <2>1, <3>2, <3>3, <3>4, <3>5, <3>6, <3>7, <3>8, <3>9
  <2>3. CASE FieldLine
    <3>1. PICK n \in Spellings, v \in Values :
            /\ text' = Append(text, Field(n, v))
            /\ final' = Append(final, [name |-> n, value |-> v])
      BY <2>3 DEF FieldLine, HeaderCb
    <3> DEFINE line == Field(n, v)
               e == [name |-> n, value |-> v]
    <3>2. /\ line \in Lines /\ line.kind # "status" /\ e \in FieldType
          /\ IsField(line) /\ Parsed(line) = e
      <4>1. /\ line.kind = "field" /\ line.colon /\ line.name = n
            /\ line.value = v
        BY DEF Field
      <4>2. line \in Lines
        BY DEF Lines
      <4>3. e \in FieldType
        BY DEF FieldType
      <4>4. QED
        BY <4>1, <4>2, <4>3 DEF IsField, Parsed
    <3>3. /\ text \in Seq(Lines) /\ final \in Seq(FieldType) /\ text # <<>>
          /\ block' \in {"open", "closed"}
          /\ titled' = titled /\ titled \in BOOLEAN
      BY <1>0, <2>3 DEF FieldLine, TypeOK, BlockInv
    <3>4. text' = Append(text, line) /\ final' = Append(final, e)
      BY <3>1
    <3> HIDE DEF line, e
    <3>5. ForEachField(Append(text, line)) = Append(ForEachField(text), e)
      BY <3>2, <3>3, NextLine DEF Collect
    <3>6. Good(Append(ForEachField(text), e), Append(final, e))
      BY <3>2, <3>3, IInvGood, GoodField
    <3>7. Append(final, e) \in Seq(FieldType)
      BY <3>2, <3>3
    <3>8. Exact(ForEachField(text), final, titled)
      BY DEF IInv, FinalResponseOnly, Exact
    <3>9. Exact(Append(ForEachField(text), e), Append(final, e), titled)
      BY <3>2, <3>3, <3>8, ExactField
    <3>10. QED
      BY <2>1, <3>2, <3>3, <3>4, <3>5, <3>6, <3>7, <3>9
  <2>4. CASE BlankLine
    <3>1. /\ text' = Append(text, Blank) /\ final' = final /\ block' = "closed"
          /\ text \in Seq(Lines) /\ final \in Seq(FieldType) /\ text # <<>>
          /\ titled' = titled /\ titled \in BOOLEAN
      BY <1>0, <2>4 DEF BlankLine, HeaderCb, TypeOK, BlockInv
    <3>2. Blank \in Lines /\ Blank.kind \notin {"status", "field"}
      BY DEF Lines, Blank
    <3>3. ForEachField(Append(text, Blank)) = Collect(ForEachField(text), Blank)
      BY <3>1, <3>2, NextLine
    <3>4. Good(Collect(ForEachField(text), Blank), final)
      BY <3>1, <3>2, IInvGood, GoodStatus
    <3>5. Exact(Collect(ForEachField(text), Blank), final, titled)
      BY DEF IInv, FinalResponseOnly, Exact, Collect, IsField, Blank
    <3>6. QED
      BY <2>1, <3>1, <3>2, <3>3, <3>4, <3>5
  <2>5. QED
    BY <1>2, <2>2, <2>3, <2>4 DEF Next
<1>3. QED
  BY <1>1, <1>2

(* The inductive invariant holds of every text.                            *)
THEOREM InvHolds == Spec => []IInv
  BY InitInv, NextInv, PTL DEF Spec

(* The text consists of lines, and what was received of fields.            *)
THEOREM TypeCorrect == Spec => []TypeOK
<1>1. IInv => TypeOK
  BY DEF IInv
<1>2. QED
  BY <1>1, InvHolds, PTL

(* for_each_field finds the fields of the final response, all of them, in  *)
(* order, and nothing of an earlier hop, for texts of any length, after a  *)
(* status line that has a colon and nothing else.                          *)
THEOREM FinalFieldsFound == Spec => []FinalResponseOnly
<1>1. IInv => FinalResponseOnly
  BY DEF IInv
<1>2. QED
  BY <1>1, InvHolds, PTL

(* header(name) and headers().find(name) agree for every text and name.    *)
THEOREM BothLookupsAgree == Spec => []LookupsAgree
<1>1. IInv => LookupsAgree
  BY DEF IInv
<1>2. QED
  BY <1>1, InvHolds, PTL

(* A field that repeats has all its values, in order, under any spelling.  *)
THEOREM EveryValueFound == Spec => []RepeatsAreCombined
<1>1. IInv => RepeatsAreCombined
  BY DEF IInv
<1>2. QED
  BY <1>1, InvHolds, PTL

=============================================================================
