---------------------------- MODULE ClientProofs ----------------------------
(***************************************************************************)
(* The safety of the request engine for any number of requests, handles    *)
(* and pooled handles: IInv, defined in module Client, is inductive, and   *)
(* the properties the runs check follow from it.                           *)
(***************************************************************************)
EXTENDS Client, FiniteSetTheorems, SequenceTheorems, TLAPS

-----------------------------------------------------------------------------
(* Sequences and the operators of the model. *)

(* What is at each position after a push to the front. *)
LEMMA PushFront ==
  ASSUME NEW S, NEW s \in Seq(S), NEW x \in S
  PROVE  /\ <<x>> \o s \in Seq(S)
         /\ Len(<<x>> \o s) = Len(s) + 1
         /\ (<<x>> \o s)[1] = x
         /\ \A i \in 2..Len(s) + 1 : (<<x>> \o s)[i] = s[i - 1]
<1>1. <<x>> \in Seq(S) /\ Len(<<x>>) = 1
  OBVIOUS
<1>2. QED
  BY <1>1, ConcatProperties

(* IsOwed looks at requests only. *)
LEMMA OwedIff ==
  ASSUME TypeOK, NEW r \in Requests
  PROVE  IsOwed(r) <=> \E i \in 1..Len(posted) : posted[i].req = r
<1>1. \A i \in 1..Len(posted) : posted[i] \in [req : Requests, ec : OwnErrors]
  BY ElementOfSeq DEF TypeOK
<1>2. \A i \in 1..Len(posted) : posted[i].ec \in OwnErrors
  BY <1>1
<1>3. QED
  BY <1>2 DEF IsOwed, Owed

(* Posting a completion makes its request owed, changes nothing for the    *)
(* others and calls nobody.                                                *)
LEMMA PostEffect ==
  ASSUME TypeOK, NEW q \in Requests, NEW ec \in OwnErrors, Post(q, ec)
  PROVE  /\ posted' \in Seq([req : Requests, ec : OwnErrors])
         /\ Len(posted') = Len(posted) + 1
         /\ \A i \in 1..Len(posted) : posted'[i] = posted[i]
         /\ posted'[Len(posted) + 1] = [req |-> q, ec |-> ec]
         /\ delivered' = delivered
         /\ \A r \in Requests : IsOwed(r)' <=> IsOwed(r) \/ r = q
         /\ \A r \in Requests, e \in OwnErrors :
              Owed(r, e)' <=> Owed(r, e) \/ (r = q /\ e = ec)
<1> DEFINE new == [req |-> q, ec |-> ec]
           n   == Len(posted)
<1>1. posted \in Seq([req : Requests, ec : OwnErrors]) /\ n \in Nat
  BY DEF TypeOK
<1>2. new \in [req : Requests, ec : OwnErrors]
  OBVIOUS
<1>3. posted' = Append(posted, new) /\ delivered' = delivered
  BY DEF Post
<1>4. /\ posted' \in Seq([req : Requests, ec : OwnErrors])
      /\ Len(posted') = n + 1
      /\ \A i \in 1..n : posted'[i] = posted[i]
      /\ posted'[n + 1] = new
  BY <1>1, <1>2, <1>3, AppendProperties
<1>5. \A r \in Requests, e \in OwnErrors :
        Owed(r, e)' <=> Owed(r, e) \/ (r = q /\ e = ec)
  <2> SUFFICES ASSUME NEW r \in Requests, NEW e \in OwnErrors
               PROVE  Owed(r, e)' <=> Owed(r, e) \/ (r = q /\ e = ec)
    OBVIOUS
  <2>1. ASSUME Owed(r, e)' PROVE Owed(r, e) \/ (r = q /\ e = ec)
    <3>1. PICK i \in 1..Len(posted') : posted'[i].req = r /\ posted'[i].ec = e
      BY <2>1 DEF Owed
    <3>2. CASE i = n + 1
      BY <1>4, <3>1, <3>2
    <3>3. CASE i \in 1..n
      BY <1>4, <3>1, <3>3 DEF Owed
    <3>4. QED
      BY <1>1, <1>4, <3>2, <3>3
  <2>2. ASSUME Owed(r, e) PROVE Owed(r, e)'
    <3>1. PICK i \in 1..n : posted[i].req = r /\ posted[i].ec = e
      BY <2>2 DEF Owed
    <3>2. i \in 1..Len(posted') /\ posted'[i] = posted[i]
      BY <1>1, <1>4
    <3>3. QED
      BY <3>1, <3>2 DEF Owed
  <2>3. ASSUME r = q, e = ec PROVE Owed(r, e)'
    <3>1. n + 1 \in 1..Len(posted')
      BY <1>1, <1>4
    <3>2. posted'[n + 1].req = r /\ posted'[n + 1].ec = e
      BY <1>4, <2>3
    <3>3. QED
      BY <3>1, <3>2 DEF Owed
  <2>4. QED
    BY <2>1, <2>2, <2>3
<1>6. \A r \in Requests : IsOwed(r)' <=> IsOwed(r) \/ r = q
  BY <1>5 DEF IsOwed
<1>7. QED
  BY <1>3, <1>4, <1>5, <1>6

(* retire() keeps the pool bounded and free of duplicates. *)
LEMMA RetirePool ==
  ASSUME NEW h \in Handles, NEW scrub, NEW where,
         NEW pool \in Seq(Handles),
         Len(pool) <= MaxPooled,
         \A i, j \in 1..Len(pool) : pool[i] = pool[j] => i = j,
         \A i \in 1..Len(pool) : pool[i] \notin transfers /\ pool[i] # h,
         Retire(h, scrub, pool, where)
  PROVE  idle' \in Seq(Handles) /\ PoolInv'
<1>1. transfers' = transfers \ {h}
  BY DEF Retire
<1>2. CASE HasRoom(pool)
  <2>1. idle' = <<h>> \o pool
    BY <1>2 DEF Retire
  <2>2. /\ idle' \in Seq(Handles) /\ Len(idle') = Len(pool) + 1
        /\ idle'[1] = h
        /\ \A i \in 2..Len(pool) + 1 : idle'[i] = pool[i - 1]
    BY <2>1, PushFront
  <2>3. Len(idle') <= MaxPooled
    BY <1>2, <2>2, PoolAssumption DEF HasRoom
  <2>. Len(pool) \in Nat
    OBVIOUS
  <2>4. \A i, j \in 1..Len(idle') : idle'[i] = idle'[j] => i = j
    <3> SUFFICES ASSUME NEW i \in 1..Len(pool) + 1, NEW j \in 1..Len(pool) + 1,
                        idle'[i] = idle'[j]
                 PROVE  i = j
      BY <2>2
    <3>1. CASE i = 1 /\ j = 1
      BY <3>1
    <3>2. CASE i # 1 /\ j # 1
      <4>1. /\ i - 1 \in 1..Len(pool) /\ idle'[i] = pool[i - 1]
            /\ j - 1 \in 1..Len(pool) /\ idle'[j] = pool[j - 1]
        BY <2>2, <3>2
      <4>2. i - 1 = j - 1
        BY <4>1
      <4>3. QED
        BY <4>2
    <3>3. CASE i = 1 /\ j # 1
      <4>1. j - 1 \in 1..Len(pool) /\ idle'[j] = pool[j - 1]
        BY <2>2, <3>3
      <4>2. QED
        BY <2>2, <3>3, <4>1
    <3>4. CASE i # 1 /\ j = 1
      <4>1. i - 1 \in 1..Len(pool) /\ idle'[i] = pool[i - 1]
        BY <2>2, <3>4
      <4>2. QED
        BY <2>2, <3>4, <4>1
    <3>5. QED
      BY <3>1, <3>2, <3>3, <3>4
  <2>5. \A i \in 1..Len(idle') : idle'[i] \notin transfers'
    BY <1>1, <2>2
  <2>6. QED
    BY <2>2, <2>3, <2>4, <2>5 DEF PoolInv
<1>3. CASE ~HasRoom(pool)
  <2>1. idle' = pool
    BY <1>3 DEF Retire
  <2>2. QED
    BY <1>1, <2>1 DEF PoolInv
<1>4. QED
  BY <1>2, <1>3

(* retire() leaves a blank node behind and the other nodes alone. *)
LEMMA RetireNodes ==
  ASSUME TypeOK, NodeInv,
         NEW h \in Handles, NEW scrub \in BOOLEAN, NEW pool,
         NEW where \in {"none", "other"},
         sticky[h] => scrub,
         started \subseteq started',
         \A g \in transfers : slot'[node[g].handler] = slot[node[g].handler],
         Retire(h, scrub, pool, where)
  PROVE  /\ NodeInv'
         /\ transfers' = transfers \ {h}
         /\ \A g \in Handles \ {h} : node'[g] = node[g]
         /\ transfers' \subseteq Handles
         /\ node' \in [Handles -> [handler : Requests \union {None},
                                   id : Nat, scrub : BOOLEAN]]
         /\ multi' \in [Handles -> {"none", "ours", "other"}]
         /\ sticky' \in [Handles -> BOOLEAN]
<1>1. transfers' = transfers \ {h} /\ transfers' \subseteq Handles
  BY DEF Retire, TypeOK
<1>2. /\ \A g \in Handles \ {h} : node'[g] = node[g]
      /\ node'[h] = Blank
      /\ node' \in [Handles -> [handler : Requests \union {None},
                                id : Nat, scrub : BOOLEAN]]
  BY DEF Retire, TypeOK, Blank
<1>3. /\ \A g \in Handles \ {h} : multi'[g] = multi[g]
      /\ multi'[h] # "ours"
      /\ multi' \in [Handles -> {"none", "ours", "other"}]
  BY DEF Retire, TypeOK
<1>4. /\ \A g \in Handles \ {h} : sticky'[g] = sticky[g]
      /\ ~sticky'[h]
      /\ sticky' \in [Handles -> BOOLEAN]
  <2>1. sticky' = [sticky EXCEPT ![h] = HasRoom(pool) /\ ~scrub /\ sticky[h]]
    BY DEF Retire
  <2>2. HasRoom(pool) /\ ~scrub /\ sticky[h] <=> FALSE
    OBVIOUS
  <2>3. sticky \in [Handles -> BOOLEAN]
    BY DEF TypeOK
  <2>4. QED
    BY <2>1, <2>2, <2>3
<1>5. NodeInv'
  BY <1>1, <1>2, <1>3, <1>4 DEF NodeInv, TypeOK
<1>6. QED
  BY <1>1, <1>2, <1>3, <1>4, <1>5

(* start() takes a handle nothing refers to, and leaves the pool in order. *)
LEMMA DrawTakes ==
  ASSUME TypeOK, PoolInv, NEW h \in Handles, Draw(h)
  PROVE  /\ h \notin transfers
         /\ PoolAfterDraw \in Seq(Handles)
         /\ Len(PoolAfterDraw) <= MaxPooled
         /\ \A i, j \in 1..Len(PoolAfterDraw) :
              PoolAfterDraw[i] = PoolAfterDraw[j] => i = j
         /\ \A i \in 1..Len(PoolAfterDraw) :
              PoolAfterDraw[i] \notin transfers /\ PoolAfterDraw[i] # h
<1>1. CASE idle = <<>>
  BY <1>1, PoolAssumption DEF Draw, PoolAfterDraw
<1>2. CASE idle # <<>>
  <2>1. idle \in Seq(Handles) /\ Len(idle) \in Nat \ {0}
    BY <1>2 DEF TypeOK
  <2>2. /\ PoolAfterDraw = Tail(idle) /\ h = idle[1]
        /\ Tail(idle) \in Seq(Handles) /\ Len(Tail(idle)) = Len(idle) - 1
        /\ \A i \in 1..Len(Tail(idle)) : Tail(idle)[i] = idle[i + 1]
    BY <1>2, <2>1, HeadTailProperties DEF Draw, PoolAfterDraw
  <2>3. \A i \in 1..Len(Tail(idle)) : i + 1 \in 2..Len(idle)
    BY <2>1, <2>2
  <2>4. \A i, j \in 1..Len(Tail(idle)) : Tail(idle)[i] = Tail(idle)[j] => i = j
    <3> SUFFICES ASSUME NEW i \in 1..Len(Tail(idle)),
                        NEW j \in 1..Len(Tail(idle)),
                        Tail(idle)[i] = Tail(idle)[j]
                 PROVE  i = j
      OBVIOUS
    <3>1. i + 1 \in 1..Len(idle) /\ j + 1 \in 1..Len(idle)
      BY <2>1, <2>3
    <3>2. i + 1 = j + 1
      BY <2>2, <3>1 DEF PoolInv
    <3>3. QED
      BY <3>2
  <2>5. \A i \in 1..Len(Tail(idle)) :
          Tail(idle)[i] \notin transfers /\ Tail(idle)[i] # h
    <3> SUFFICES ASSUME NEW i \in 1..Len(Tail(idle))
                 PROVE  Tail(idle)[i] \notin transfers /\ Tail(idle)[i] # h
      OBVIOUS
    <3>1. i + 1 \in 2..Len(idle) /\ 1 \in 1..Len(idle) /\ i + 1 # 1
      BY <2>1, <2>3
    <3>2. Tail(idle)[i] = idle[i + 1]
      BY <2>2
    <3>3. QED
      BY <2>2, <3>1, <3>2 DEF PoolInv
  <2>6. h \notin transfers
    BY <2>1, <2>2 DEF PoolInv
  <2>7. Len(Tail(idle)) <= MaxPooled
    BY <2>1, <2>2, PoolAssumption DEF PoolInv
  <2>8. QED
    BY <2>2, <2>4, <2>5, <2>6, <2>7
<1>3. QED
  BY <1>1, <1>2

(* A request that was nowhere, or leaves transfers_ in the same step, is   *)
(* owed its completion after Post, and the others are where they were.     *)
LEMMA PostKeepsPlaces ==
  ASSUME TypeOK, PlaceInv, NeverLost,
         NEW q \in Requests, NEW ec \in OwnErrors, Post(q, ec),
         ~IsOwed(q), ~Called(q), q \notin dropped,
         dropped' = dropped, started' = started \union {q},
         ~InFlight(q)',
         \A r \in Requests : r # q => (InFlight(r)' <=> InFlight(r))
  PROVE  PlaceInv' /\ NeverLost'
<1>0. /\ Len(posted') = Len(posted) + 1
      /\ \A i \in 1..Len(posted) : posted'[i] = posted[i]
      /\ posted'[Len(posted) + 1] = [req |-> q, ec |-> ec]
      /\ delivered' = delivered
      /\ \A r \in Requests : IsOwed(r)' <=> IsOwed(r) \/ r = q
  BY PostEffect, Zenon
<1>1. /\ Len(posted') = Len(posted) + 1
      /\ \A i \in 1..Len(posted) : posted'[i] = posted[i]
      /\ posted'[Len(posted) + 1].req = q
      /\ delivered' = delivered
      /\ \A r \in Requests : IsOwed(r)' <=> IsOwed(r) \/ r = q
  BY <1>0
<1>2. \A r \in Requests : Called(r)' <=> Called(r)
  BY <1>1 DEF Called
<1>3. \A i \in 1..Len(posted) : posted[i].req # q
  BY OwedIff
<1>4. \A i, j \in 1..Len(posted') : posted'[i].req = posted'[j].req => i = j
  <2>. Len(posted) \in Nat
    BY DEF TypeOK
  <2> SUFFICES ASSUME NEW i \in 1..Len(posted) + 1,
                      NEW j \in 1..Len(posted) + 1,
                      posted'[i].req = posted'[j].req
               PROVE  i = j
    BY <1>1
  <2>1. CASE i = Len(posted) + 1 \/ j = Len(posted) + 1
    BY <1>1, <1>3, <2>1
  <2>2. CASE i \in 1..Len(posted) /\ j \in 1..Len(posted)
    BY <1>1, <2>2 DEF PlaceInv
  <2>3. QED
    BY <2>1, <2>2
<1>5. PlaceInv'
  BY <1>1, <1>2, <1>4 DEF PlaceInv
<1>6. NeverLost'
  BY <1>1, <1>2 DEF NeverLost, TypeOK
<1>7. QED
  BY <1>5, <1>6

(* An abort is posted for a request whose cancellation was emitted. *)
LEMMA PostKeepsAborts ==
  ASSUME TypeOK, AbortOnlyWhenAsked,
         NEW q \in Requests, NEW ec \in OwnErrors, Post(q, ec),
         ec = "aborted" => q \in emitted',
         emitted \subseteq emitted'
  PROVE  AbortOnlyWhenAsked'
<1>1. delivered' = delivered
  BY PostEffect
<1>2. "aborted" \in OwnErrors
  BY DEF OwnErrors
<1>3. \A r \in Requests :
        Owed(r, "aborted")' <=> Owed(r, "aborted") \/ (r = q /\ "aborted" = ec)
  BY <1>2, PostEffect
<1>4. \A r \in Requests : Told(r, "aborted")' <=> Told(r, "aborted")
  BY <1>1 DEF Told
<1>5. ASSUME NEW r \in Requests, Owed(r, "aborted")' \/ Told(r, "aborted")'
      PROVE  r \in emitted'
  <2>1. Owed(r, "aborted") \/ Told(r, "aborted") => r \in emitted
    BY DEF AbortOnlyWhenAsked
  <2>2. QED
    BY <1>3, <1>4, <1>5, <2>1
<1>6. QED
  BY <1>5 DEF AbortOnlyWhenAsked

-----------------------------------------------------------------------------
(* The steps preserve the invariant. *)

(* The invariant holds at first: no handle has been made.                  *)
LEMMA InitInv == Init => IInv
<1> SUFFICES ASSUME Init PROVE IInv
  OBVIOUS
<1>1. alive \in BOOLEAN
  BY Zenon DEF Init
<1>2. TypeOK
  BY <1>1 DEF Init, TypeOK, Blank
<1>3. NodeInv
  BY DEF Init, NodeInv
<1>4. SlotInv /\ PoolInv /\ MessageInv
  BY PoolAssumption DEF Init, SlotInv, PoolInv, MessageInv
<1>5. PlaceInv /\ NeverLost /\ AbortOnlyWhenAsked
  BY DEF Init, PlaceInv, NeverLost, AbortOnlyWhenAsked, InFlight, IsOwed,
         Owed, Called, Told
<1>6. QED
  BY <1>2, <1>3, <1>4, <1>5 DEF IInv

(* What a request is before it starts. *)
LEMMA NotStarted ==
  ASSUME IInv, NEW r \in Requests, r \notin started
  PROVE  /\ ~InFlight(r) /\ ~IsOwed(r) /\ ~Called(r) /\ r \notin dropped
         /\ slot[r] = 0
  BY DEF IInv, NodeInv, SlotInv, PlaceInv, InFlight

(* A fresh id leaves the slots distinct. *)
LEMMA NewSlot ==
  ASSUME IInv, NEW r \in Requests, r \notin started,
         next_id' = NewId, slot' = [slot EXCEPT ![r] = NewId],
         started' = started \union {r}
  PROVE  /\ SlotInv' /\ next_id' \in Nat /\ slot' \in [Requests -> Nat]
         /\ slot'[r] = next_id + 1 /\ next_id + 1 # 0
         /\ \A q \in Requests \ {r} : slot'[q] = slot[q]
<1>1. next_id \in Nat /\ slot \in [Requests -> Nat]
  BY DEF IInv, TypeOK
<1>2. SlotInv
  BY DEF IInv
<1>3. /\ next_id' = next_id + 1
      /\ slot' \in [Requests -> Nat]
      /\ slot'[r] = next_id + 1
      /\ \A q \in Requests \ {r} : slot'[q] = slot[q] /\ slot[q] <= next_id
  BY <1>1, <1>2 DEF NewId, SlotInv
<1>4. SlotInv'
  BY <1>1, <1>2, <1>3 DEF SlotInv
<1>5. QED
  BY <1>1, <1>3, <1>4

(* start() keeps it, in each of its three outcomes.                        *)
LEMMA StartInv ==
  ASSUME IInv, NEW r \in Requests, Start(r)
  PROVE  IInv'
<1>1. /\ r \notin started /\ started' = started \union {r}
      /\ UNCHANGED <<running, alive, msgs, pc, emitted, dropped>>
  BY DEF Start
<1>2. /\ TypeOK /\ NodeInv /\ SlotInv /\ PoolInv /\ MessageInv
      /\ PlaceInv /\ NeverLost /\ AbortOnlyWhenAsked
  BY DEF IInv
<1>3. ~InFlight(r) /\ ~IsOwed(r) /\ ~Called(r) /\ r \notin dropped /\ slot[r] = 0
  BY <1>1, NotStarted
<1>4. CASE StartWithoutHandle(r)
  <2>1. /\ Post(r, "failed_init")
        /\ UNCHANGED <<transfers, idle, node, next_id, multi, sticky, slot>>
    BY <1>4 DEF StartWithoutHandle
  <2>2. "failed_init" \in OwnErrors
    BY DEF OwnErrors
  <2>3. \A q \in Requests : InFlight(q)' <=> InFlight(q)
    BY <2>1 DEF InFlight
  <2>4. PlaceInv' /\ NeverLost'
    BY <1>1, <1>2, <1>3, <2>1, <2>2, <2>3, PostKeepsPlaces
  <2>5. AbortOnlyWhenAsked'
    BY <1>1, <1>2, <2>1, <2>2, PostKeepsAborts
  <2>6. /\ posted' \in Seq([req : Requests, ec : OwnErrors])
        /\ delivered' = delivered
    BY <1>2, <2>1, <2>2, PostEffect
  <2>7. TypeOK'
    BY <1>1, <1>2, <2>1, <2>6 DEF TypeOK
  <2>8. NodeInv' /\ SlotInv' /\ PoolInv' /\ MessageInv'
    BY <1>1, <1>2, <2>1 DEF NodeInv, SlotInv, PoolInv, MessageInv
  <2>9. QED
    BY <2>4, <2>5, <2>7, <2>8 DEF IInv
<1>5. ASSUME NEW h \in Handles, NEW hook \in Hooks, StartTransfer(r, h, hook)
      PROVE  IInv'
  <2>1. /\ Draw(h) /\ multi[h] = "none"
        /\ transfers' = transfers \union {h}
        /\ idle' = PoolAfterDraw
        /\ next_id' = NewId
        /\ node' = [node EXCEPT
             ![h] = [handler |-> r, id |-> NewId, scrub |-> ScrubOnDone(hook)]]
        /\ sticky' = [sticky EXCEPT ![h] = @ \/ hook # "none"]
        /\ slot' = [slot EXCEPT ![r] = NewId]
        /\ multi' = [multi EXCEPT ![h] = "ours"]
        /\ UNCHANGED <<posted, delivered>>
    BY <1>5 DEF StartTransfer
  <2>2. /\ SlotInv' /\ next_id' \in Nat /\ slot' \in [Requests -> Nat]
        /\ slot'[r] = next_id + 1 /\ next_id + 1 # 0
        /\ \A q \in Requests \ {r} : slot'[q] = slot[q]
    BY <1>1, <2>1, NewSlot
  <2>3. /\ h \notin transfers
        /\ idle' \in Seq(Handles)
        /\ PoolInv'
    <3>1. /\ h \notin transfers
          /\ PoolAfterDraw \in Seq(Handles)
          /\ Len(PoolAfterDraw) <= MaxPooled
          /\ \A i, j \in 1..Len(PoolAfterDraw) :
               PoolAfterDraw[i] = PoolAfterDraw[j] => i = j
          /\ \A i \in 1..Len(PoolAfterDraw) :
               PoolAfterDraw[i] \notin transfers /\ PoolAfterDraw[i] # h
      BY <1>2, <2>1, DrawTakes
    <3>2. QED
      BY <2>1, <3>1 DEF PoolInv
  <2>4. /\ node'[h].handler = r /\ node'[h].id = next_id + 1
        /\ node'[h].scrub = ScrubOnDone(hook)
        /\ \A g \in Handles \ {h} : node'[g] = node[g]
        /\ node' \in [Handles -> [handler : Requests \union {None},
                                  id : Nat, scrub : BOOLEAN]]
    BY <1>2, <2>1 DEF TypeOK, NewId, ScrubOnDone
  <2>5. /\ multi'[h] = "ours"
        /\ \A g \in Handles \ {h} : multi'[g] = multi[g]
        /\ multi' \in [Handles -> {"none", "ours", "other"}]
    BY <1>2, <2>1 DEF TypeOK
  <2>6. /\ sticky'[h] => ScrubOnDone(hook)
        /\ \A g \in Handles \ {h} : sticky'[g] = sticky[g]
        /\ sticky' \in [Handles -> BOOLEAN]
    <3>1. sticky \in [Handles -> BOOLEAN] /\ ~sticky[h]
      BY <1>2, <2>3 DEF TypeOK, NodeInv
    <3>2. QED
      BY <2>1, <3>1 DEF ScrubOnDone
  <2>7. TypeOK'
    BY <1>1, <1>2, <2>1, <2>2, <2>3, <2>4, <2>5, <2>6 DEF TypeOK
  <2>8. NodeInv'
    <3>1. \A g \in transfers : /\ node[g].handler \in started
                               /\ node[g].handler # r
                               /\ g # h
                               /\ g \in Handles
                               /\ node[g].handler \in Requests
      BY <1>1, <1>2, <2>3 DEF NodeInv, TypeOK
    <3>2. \A g \in transfers' :
            /\ node'[g].handler \in started'
            /\ node'[g].id # 0
            /\ slot'[node'[g].handler] = node'[g].id
            /\ multi'[g] = "ours"
            /\ sticky'[g] => node'[g].scrub
      BY <1>1, <1>2, <2>1, <2>2, <2>4, <2>5, <2>6, <3>1 DEF NodeInv
    <3>3. \A g \in Handles \ transfers' :
            node'[g] = Blank /\ ~sticky'[g] /\ multi'[g] # "ours"
      BY <1>2, <2>1, <2>4, <2>5, <2>6 DEF NodeInv
    <3>4. \A f, g \in transfers' :
            node'[f].handler = node'[g].handler => f = g
      BY <1>2, <2>1, <2>4, <3>1 DEF NodeInv
    <3>5. QED
      BY <3>2, <3>3, <3>4 DEF NodeInv
  <2>9. MessageInv'
    BY <1>1, <1>2, <2>1, <2>3, <2>4 DEF MessageInv, TypeOK
  <2>10. \A q \in Requests : InFlight(q)' <=> InFlight(q) \/ q = r
    BY <1>2, <2>1, <2>3, <2>4 DEF InFlight, TypeOK
  <2>11. \A q \in Requests : (IsOwed(q)' <=> IsOwed(q)) /\ (Called(q)' <=> Called(q))
    BY <2>1 DEF IsOwed, Owed, Called
  <2>12. PlaceInv' /\ NeverLost'
    BY <1>1, <1>2, <1>3, <2>1, <2>10, <2>11 DEF PlaceInv, NeverLost, TypeOK
  <2>13. AbortOnlyWhenAsked'
    BY <1>1, <1>2, <2>1 DEF AbortOnlyWhenAsked, Owed, Told
  <2>14. QED
    BY <2>2, <2>3, <2>7, <2>8, <2>9, <2>12, <2>13 DEF IInv
<1>6. ASSUME NEW h \in Handles, NEW hook \in Hooks, StartRefused(r, h, hook)
      PROVE  IInv'
  <2> DEFINE where == IF hook = "steal" THEN "other" ELSE multi[h]
             ec    == IF where = "none" THEN "out_of_memory" ELSE "failed_init"
  <2>1. /\ Draw(h) /\ next_id' = NewId
        /\ slot' = [slot EXCEPT ![r] = NewId]
        /\ Retire(h, TRUE, PoolAfterDraw, where)
        /\ Post(r, ec)
    BY <1>6 DEF StartRefused
  <2>2. /\ SlotInv' /\ next_id' \in Nat /\ slot' \in [Requests -> Nat]
        /\ \A q \in Requests \ {r} : slot'[q] = slot[q]
    BY <1>1, <2>1, NewSlot
  <2>3. /\ h \notin transfers
        /\ PoolAfterDraw \in Seq(Handles)
        /\ Len(PoolAfterDraw) <= MaxPooled
        /\ \A i, j \in 1..Len(PoolAfterDraw) :
             PoolAfterDraw[i] = PoolAfterDraw[j] => i = j
        /\ \A i \in 1..Len(PoolAfterDraw) :
             PoolAfterDraw[i] \notin transfers /\ PoolAfterDraw[i] # h
    BY <1>2, <2>1, DrawTakes
  <2>4. idle' \in Seq(Handles) /\ PoolInv'
    BY <2>1, <2>3, RetirePool
  <2>5. where \in {"none", "other"}
    BY <1>2, <2>3 DEF NodeInv, TypeOK
  <2>6. /\ NodeInv'
        /\ transfers' = transfers \ {h}
        /\ \A g \in Handles \ {h} : node'[g] = node[g]
        /\ transfers' \subseteq Handles
        /\ node' \in [Handles -> [handler : Requests \union {None},
                                  id : Nat, scrub : BOOLEAN]]
        /\ multi' \in [Handles -> {"none", "ours", "other"}]
        /\ sticky' \in [Handles -> BOOLEAN]
    <3>1. \A g \in transfers : slot'[node[g].handler] = slot[node[g].handler]
      BY <1>1, <1>2, <2>2 DEF NodeInv, TypeOK
    <3>2. sticky[h] => TRUE
      OBVIOUS
    <3>3. started \subseteq started'
      BY <1>1
    <3>4. QED
      BY <1>2, <2>1, <2>5, <3>1, <3>2, <3>3, RetireNodes
  <2>7. transfers' = transfers /\ \A g \in transfers : node'[g] = node[g]
    BY <1>2, <2>3, <2>6 DEF TypeOK
  <2>8. \A q \in Requests : InFlight(q)' <=> InFlight(q)
    BY <2>7 DEF InFlight
  <2>9. ec \in OwnErrors /\ ec # "aborted"
    BY DEF OwnErrors
  <2>10. PlaceInv' /\ NeverLost'
    BY <1>1, <1>2, <1>3, <2>1, <2>8, <2>9, PostKeepsPlaces
  <2>11. AbortOnlyWhenAsked'
    BY <1>1, <1>2, <2>1, <2>9, PostKeepsAborts
  <2>12. MessageInv'
    BY <1>1, <1>2, <2>7 DEF MessageInv
  <2>13. posted' \in Seq([req : Requests, ec : OwnErrors]) /\ delivered' = delivered
    BY <1>2, <2>1, <2>9, PostEffect
  <2>14. TypeOK'
    BY <1>1, <1>2, <2>2, <2>4, <2>6, <2>13 DEF TypeOK
  <2>15. QED
    BY <2>2, <2>4, <2>6, <2>10, <2>11, <2>12, <2>14 DEF IInv
<1>7. QED
  BY <1>4, <1>5, <1>6 DEF Start

(* cancel() finds at most the transfer of the request that was emitted. *)
LEMMA FindOwn ==
  ASSUME IInv, NEW r \in Requests, slot[r] # 0, NEW h \in Find(r)
  PROVE  h \in transfers /\ h \in Handles /\ node[h].handler = r
<1>1. h \in transfers /\ node[h].id = slot[r]
  BY DEF Find
<1>2. /\ node[h].handler \in started
      /\ slot[node[h].handler] = node[h].id
  BY <1>1 DEF IInv, NodeInv
<1>3. started \subseteq Requests /\ transfers \subseteq Handles
  BY DEF IInv, TypeOK
<1>4. QED
  BY <1>1, <1>2, <1>3 DEF IInv, SlotInv

(* The request of the transfer that is retired is in flight no more; the   *)
(* others stay in flight.                                                  *)
LEMMA RetireLands ==
  ASSUME TypeOK, NodeInv,
         NEW h \in transfers, NEW q, q = node[h].handler,
         transfers' = transfers \ {h},
         \A g \in Handles \ {h} : node'[g] = node[g]
  PROVE  /\ ~InFlight(q)'
         /\ \A r \in Requests : r # q => (InFlight(r)' <=> InFlight(r))
<1>1. transfers \subseteq Handles
  BY DEF TypeOK
<1>2. \A g \in transfers' : g \in transfers /\ g # h /\ node'[g] = node[g]
  BY <1>1
<1>3. \A g \in transfers : g # h => node[g].handler # q
  BY DEF NodeInv
<1>4. ~InFlight(q)'
  BY <1>2, <1>3 DEF InFlight
<1>5. ASSUME NEW r \in Requests, r # q
      PROVE  InFlight(r)' <=> InFlight(r)
  <2>1. ASSUME InFlight(r)' PROVE InFlight(r)
    BY <1>2, <2>1 DEF InFlight
  <2>2. ASSUME InFlight(r) PROVE InFlight(r)'
    <3>1. PICK g \in transfers : node[g].handler = r
      BY <2>2 DEF InFlight
    <3>2. g \in transfers' /\ node'[g].handler = r
      BY <1>2, <1>5, <3>1
    <3>3. QED
      BY <3>2 DEF InFlight
  <2>3. QED
    BY <2>1, <2>2
<1>6. QED
  BY <1>4, <1>5

(* cancel() keeps it, whether or not it finds the transfer.                *)
LEMMA CancelInv ==
  ASSUME IInv, NEW r \in Requests, Cancel(r)
  PROVE  IInv'
<1>1. /\ slot[r] # 0 /\ emitted' = emitted \union {r}
      /\ UNCHANGED <<next_id, alive, pc, slot, started, dropped>>
  BY DEF Cancel
<1>2. /\ TypeOK /\ NodeInv /\ SlotInv /\ PoolInv /\ MessageInv
      /\ PlaceInv /\ NeverLost /\ AbortOnlyWhenAsked
  BY DEF IInv
<1>3. ASSUME NEW h \in Find(r), CancelTransfer(r, h)
      PROVE  IInv'
  <2>1. h \in transfers /\ h \in Handles /\ node[h].handler = r
    BY <1>1, FindOwn
  <2>2. /\ msgs' = MessagesWithout(h)
        /\ running' = AfterAbort
        /\ Retire(h, TRUE, idle, "none")
        /\ Post(r, "aborted")
    BY <1>3, <2>1 DEF CancelTransfer
  <2>3. idle' \in Seq(Handles) /\ PoolInv'
    <3>1. /\ idle \in Seq(Handles)
          /\ Len(idle) <= MaxPooled
          /\ \A i, j \in 1..Len(idle) : idle[i] = idle[j] => i = j
          /\ \A i \in 1..Len(idle) : idle[i] \notin transfers /\ idle[i] # h
      BY <1>2, <2>1 DEF TypeOK, PoolInv
    <3>2. QED
      BY <2>1, <2>2, <3>1, RetirePool
  <2>4. /\ NodeInv'
        /\ transfers' = transfers \ {h}
        /\ \A g \in Handles \ {h} : node'[g] = node[g]
        /\ transfers' \subseteq Handles
        /\ node' \in [Handles -> [handler : Requests \union {None},
                                  id : Nat, scrub : BOOLEAN]]
        /\ multi' \in [Handles -> {"none", "ours", "other"}]
        /\ sticky' \in [Handles -> BOOLEAN]
    <3>1. /\ \A g \in transfers : slot'[node[g].handler] = slot[node[g].handler]
          /\ started \subseteq started'
          /\ sticky[h] => TRUE
      BY <1>1
    <3>2. QED
      BY <1>2, <2>1, <2>2, <3>1, RetireNodes
  <2>5. SlotInv'
    BY <1>1, <1>2 DEF SlotInv
  <2>6. MessageInv'
    BY <1>2, <2>2, <2>4 DEF MessageInv, MessagesWithout, TypeOK
  <2>7. "aborted" \in OwnErrors
    BY DEF OwnErrors
  <2>8. /\ ~InFlight(r)'
        /\ \A q \in Requests : q # r => (InFlight(q)' <=> InFlight(q))
    BY <1>2, <2>1, <2>4, RetireLands
  <2>9. r \in started /\ InFlight(r)
    BY <1>2, <2>1 DEF NodeInv, InFlight
  <2>10. started' = started \union {r}
    BY <1>1, <2>9
  <2>11. ~IsOwed(r) /\ ~Called(r) /\ r \notin dropped
    BY <1>2, <2>9 DEF PlaceInv
  <2>12. PlaceInv' /\ NeverLost'
    BY <1>1, <1>2, <2>2, <2>7, <2>8, <2>10, <2>11, PostKeepsPlaces
  <2>13. AbortOnlyWhenAsked'
    BY <1>1, <1>2, <2>2, <2>7, PostKeepsAborts
  <2>14. posted' \in Seq([req : Requests, ec : OwnErrors]) /\ delivered' = delivered
    BY <1>2, <2>2, <2>7, PostEffect
  <2>15. running' \in Nat
    BY <1>2, <2>2 DEF AfterAbort, TypeOK
  <2>16. msgs' \subseteq [eh : Handles, res : Outcomes, of : Requests]
    BY <1>2, <2>2 DEF MessagesWithout, TypeOK
  <2>17. TypeOK'
    BY <1>1, <1>2, <2>3, <2>4, <2>14, <2>15, <2>16 DEF TypeOK
  <2>18. QED
    BY <2>3, <2>4, <2>5, <2>6, <2>12, <2>13, <2>17 DEF IInv
<1>4. CASE UNCHANGED <<transfers, idle, node, multi, sticky, msgs,
                       running, posted, delivered>>
  <2>1. TypeOK'
    BY <1>1, <1>2, <1>4 DEF TypeOK
  <2>2. NodeInv' /\ SlotInv' /\ PoolInv' /\ MessageInv'
    BY <1>1, <1>2, <1>4 DEF NodeInv, SlotInv, PoolInv, MessageInv
  <2>3. PlaceInv' /\ NeverLost' /\ AbortOnlyWhenAsked'
    BY <1>1, <1>2, <1>4 DEF PlaceInv, NeverLost, AbortOnlyWhenAsked,
                            InFlight, IsOwed, Owed, Called, Told
  <2>4. QED
    BY <2>1, <2>2, <2>3 DEF IInv
<1>5. QED
  BY <1>3, <1>4 DEF Cancel

(* A round of the drain loop keeps it: a handler is called.                *)
LEMMA DrainInv ==
  ASSUME IInv, DrainOne
  PROVE  IInv'
<1>1. PICK m \in msgs :
        /\ msgs' = MessagesWithout(m.eh)
        /\ Retire(m.eh, node[m.eh].scrub, idle, "none")
        /\ delivered' = [delivered EXCEPT
             ![node[m.eh].handler] = Append(@, m.res)]
  BY DEF DrainOne
<1>2. /\ pc' = "handler"
      /\ UNCHANGED <<next_id, running, alive, posted, slot,
                     started, emitted, dropped>>
  BY DEF DrainOne
<1>3. /\ TypeOK /\ NodeInv /\ SlotInv /\ PoolInv /\ MessageInv
      /\ PlaceInv /\ NeverLost /\ AbortOnlyWhenAsked
  BY DEF IInv
<1> DEFINE h == m.eh
<1>4. h \in transfers /\ h \in Handles /\ m.res \in Outcomes
  BY <1>3 DEF MessageInv, TypeOK
<1>q. PICK q \in Requests : q = node[h].handler
  BY <1>3, <1>4 DEF NodeInv, TypeOK
<1>5. q \in started /\ InFlight(q)
  BY <1>q, <1>3, <1>4 DEF NodeInv, InFlight
<1>6. ~IsOwed(q) /\ delivered[q] = <<>> /\ q \notin dropped
  BY <1>3, <1>5 DEF PlaceInv, Called
<1>7. /\ delivered' = [delivered EXCEPT ![q] = <<m.res>>]
      /\ delivered' \in [Requests -> Seq(Results)]
      /\ delivered'[q] = <<m.res>>
      /\ \A r \in Requests : r # q => delivered'[r] = delivered[r]
  <2>1. m.res \in Results
    BY <1>4 DEF Results
  <2>2. Append(delivered[q], m.res) = <<m.res>>
    BY <1>6
  <2>3. delivered \in [Requests -> Seq(Results)]
    BY <1>3 DEF TypeOK
  <2>4. delivered' = [delivered EXCEPT ![q] = Append(delivered[q], m.res)]
    BY <1>1, <1>q
  <2>5. delivered' = [delivered EXCEPT ![q] = <<m.res>>]
    BY <2>2, <2>4
  <2>6. <<m.res>> \in Seq(Results)
    BY <2>1
  <2>7. QED
    BY <1>5, <2>3, <2>5, <2>6
<1>8. idle' \in Seq(Handles) /\ PoolInv'
  <2>1. /\ idle \in Seq(Handles)
        /\ Len(idle) <= MaxPooled
        /\ \A i, j \in 1..Len(idle) : idle[i] = idle[j] => i = j
        /\ \A i \in 1..Len(idle) : idle[i] \notin transfers /\ idle[i] # h
    BY <1>3, <1>4 DEF TypeOK, PoolInv
  <2>2. QED
    BY <1>1, <1>4, <2>1, RetirePool
<1>9. /\ NodeInv'
      /\ transfers' = transfers \ {h}
      /\ \A g \in Handles \ {h} : node'[g] = node[g]
      /\ transfers' \subseteq Handles
      /\ node' \in [Handles -> [handler : Requests \union {None},
                                id : Nat, scrub : BOOLEAN]]
      /\ multi' \in [Handles -> {"none", "ours", "other"}]
      /\ sticky' \in [Handles -> BOOLEAN]
  <2>1. /\ \A g \in transfers : slot'[node[g].handler] = slot[node[g].handler]
        /\ started \subseteq started'
    BY <1>2
  <2>2. (sticky[h] => node[h].scrub) /\ node[h].scrub \in BOOLEAN
    BY <1>3, <1>4 DEF NodeInv, TypeOK
  <2>3. QED
    BY <1>1, <1>3, <1>4, <2>1, <2>2, RetireNodes
<1>10. SlotInv'
  BY <1>2, <1>3 DEF SlotInv
<1>11. MessageInv'
  BY <1>1, <1>3, <1>9 DEF MessageInv, MessagesWithout, TypeOK
<1>12. TypeOK'
  BY <1>1, <1>2, <1>3, <1>7, <1>8, <1>9 DEF TypeOK, MessagesWithout
<1>13. /\ ~InFlight(q)'
       /\ \A r \in Requests : r # q => (InFlight(r)' <=> InFlight(r))
  BY <1>q, <1>3, <1>4, <1>9, RetireLands
<1>14. \A r \in Requests : IsOwed(r)' <=> IsOwed(r)
  BY <1>2 DEF IsOwed, Owed
<1>15. \A r \in Requests : Called(r)' <=> Called(r) \/ r = q
  BY <1>7 DEF Called
<1>16. PlaceInv' /\ NeverLost'
  <2>1. \A r \in Requests : Len(delivered'[r]) <= 1
    BY <1>3, <1>7 DEF PlaceInv
  <2>2. PlaceInv'
    <3>1. \A i, j \in 1..Len(posted') :
            posted'[i].req = posted'[j].req => i = j
      BY <1>2, <1>3 DEF PlaceInv
    <3>2. \A r \in Requests : InFlight(r)' =>
            r # q /\ ~IsOwed(r) /\ ~Called(r) /\ r \notin dropped
      BY <1>3, <1>13 DEF PlaceInv
    <3>3. \A r \in Requests : InFlight(r)' =>
            ~IsOwed(r)' /\ ~Called(r)' /\ r \notin dropped'
      BY <1>2, <1>14, <1>15, <3>2
    <3>4. \A r \in Requests : IsOwed(r)' =>
            r \in started' /\ ~Called(r)' /\ r \notin dropped'
      BY <1>2, <1>3, <1>6, <1>14, <1>15 DEF PlaceInv
    <3>5. \A r \in Requests : Called(r)' => r \in started' /\ r \notin dropped'
      BY <1>2, <1>3, <1>5, <1>6, <1>15 DEF PlaceInv
    <3>6. dropped' \subseteq started'
      BY <1>2, <1>3 DEF PlaceInv
    <3>7. QED
      BY <2>1, <3>1, <3>3, <3>4, <3>5, <3>6 DEF PlaceInv
  <2>3. NeverLost'
    BY <1>2, <1>3, <1>13, <1>14, <1>15 DEF NeverLost, TypeOK
  <2>4. QED
    BY <2>2, <2>3
<1>17. AbortOnlyWhenAsked'
  <2>1. \A r \in Requests : Owed(r, "aborted")' <=> Owed(r, "aborted")
    BY <1>2 DEF Owed
  <2>2. m.res.ec # "aborted"
    BY <1>4 DEF Outcomes
  <2>3. \A r \in Requests : Told(r, "aborted")' => Told(r, "aborted")
    BY <1>7, <2>2 DEF Told
  <2>4. QED
    BY <1>2, <1>3, <2>1, <2>3 DEF AbortOnlyWhenAsked
<1>18. QED
  BY <1>8, <1>9, <1>10, <1>11, <1>12, <1>16, <1>17 DEF IInv

(* The loop calls a posted handler: its request is owed no more. *)
LEMMA RunPostedInv ==
  ASSUME IInv, RunPosted
  PROVE  IInv'
<1>1. /\ posted # <<>> /\ posted' = Tail(posted)
      /\ delivered' = [delivered EXCEPT
           ![Head(posted).req] = Append(@, Made(Head(posted).ec))]
      /\ UNCHANGED <<transfers, idle, node, next_id, running, alive>>
      /\ UNCHANGED <<multi, sticky, msgs, pc, slot, started, emitted, dropped>>
  BY DEF RunPosted, client, curl
<1>2. /\ TypeOK /\ NodeInv /\ SlotInv /\ PoolInv /\ MessageInv
      /\ PlaceInv /\ NeverLost /\ AbortOnlyWhenAsked
  BY DEF IInv
<1>3. posted \in Seq([req : Requests, ec : OwnErrors]) /\ Len(posted) \in Nat \ {0}
  BY <1>1, <1>2 DEF TypeOK
<1>4. /\ posted' \in Seq([req : Requests, ec : OwnErrors])
      /\ Len(posted') = Len(posted) - 1
      /\ \A i \in 1..Len(posted') : posted'[i] = posted[i + 1]
      /\ Head(posted) = posted[1]
  BY <1>1, <1>3, HeadTailProperties
<1>5. PICK q \in Requests, ec \in OwnErrors :
        posted[1].req = q /\ posted[1].ec = ec
  <2>0. 1 \in 1..Len(posted)
    BY <1>3
  <2>1. posted[1] \in [req : Requests, ec : OwnErrors]
    BY <1>3, <2>0, ElementOfSeq
  <2>2. posted[1].req \in Requests /\ posted[1].ec \in OwnErrors
    BY <2>1
  <2>3. QED
    BY <2>2
<1>6. Owed(q, ec) /\ IsOwed(q)
  <2>1. 1 \in 1..Len(posted) /\ posted[1].req = q /\ posted[1].ec = ec
    BY <1>3, <1>5
  <2>2. QED
    BY <2>1 DEF Owed, IsOwed
<1>7. q \in started /\ ~InFlight(q) /\ q \notin dropped /\ delivered[q] = <<>>
  BY <1>2, <1>6 DEF PlaceInv, Called
<1>8. /\ delivered' \in [Requests -> Seq(Results)]
      /\ delivered'[q] = <<Made(ec)>>
      /\ delivered'[q] # <<>> /\ Len(delivered'[q]) = 1
      /\ \A r \in Requests : r # q => delivered'[r] = delivered[r]
  <2>1. delivered \in [Requests -> Seq(Results)]
    BY <1>2 DEF TypeOK
  <2>2. delivered' = [delivered EXCEPT ![q] = Append(delivered[q], Made(ec))]
    <3>1. Head(posted).req = q /\ Head(posted).ec = ec
      BY <1>4, <1>5
    <3>2. QED
      BY <1>1, <3>1
  <2>3. Append(delivered[q], Made(ec)) = <<Made(ec)>>
    BY <1>7
  <2>4. delivered' = [delivered EXCEPT ![q] = <<Made(ec)>>]
    BY <2>2, <2>3
  <2>5. <<Made(ec)>> \in Seq(Results)
    BY DEF Results
  <2>6. /\ delivered' \in [Requests -> Seq(Results)]
        /\ delivered'[q] = <<Made(ec)>>
        /\ \A r \in Requests : r # q => delivered'[r] = delivered[r]
    BY <2>1, <2>4, <2>5
  <2>7. <<Made(ec)>> # <<>> /\ Len(<<Made(ec)>>) = 1
    OBVIOUS
  <2>8. QED
    BY <2>6, <2>7
<1>9. \A i \in 2..Len(posted) : posted[i].req # q
  <2>1. 1 \in 1..Len(posted) /\ posted[1].req = q
    BY <1>3, <1>5
  <2>2. QED
    BY <1>2, <1>3, <2>1 DEF PlaceInv
<1>10. \A r \in Requests, e \in OwnErrors :
         Owed(r, e)' => r # q /\ Owed(r, e)
  <2> SUFFICES ASSUME NEW r \in Requests, NEW e \in OwnErrors, Owed(r, e)'
               PROVE  r # q /\ Owed(r, e)
    OBVIOUS
  <2>1. PICK i \in 1..Len(posted') : posted'[i].req = r /\ posted'[i].ec = e
    BY DEF Owed
  <2>2. i + 1 \in 2..Len(posted) /\ posted'[i] = posted[i + 1]
    BY <1>3, <1>4
  <2>3. i + 1 \in 1..Len(posted) /\ posted[i + 1].req = r /\ posted[i + 1].ec = e
    BY <2>1, <2>2
  <2>4. QED
    BY <1>9, <2>2, <2>3 DEF Owed
<1>11. \A r \in Requests, e \in OwnErrors :
         r # q /\ Owed(r, e) => Owed(r, e)'
  <2> SUFFICES ASSUME NEW r \in Requests, NEW e \in OwnErrors, r # q, Owed(r, e)
               PROVE  Owed(r, e)'
    OBVIOUS
  <2>1. PICK i \in 1..Len(posted) : posted[i].req = r /\ posted[i].ec = e
    BY DEF Owed
  <2>2. i # 1
    BY <1>5, <2>1
  <2>3. i - 1 \in 1..Len(posted') /\ posted'[i - 1] = posted[i]
    <3>1. i - 1 \in 1..Len(posted')
      BY <1>3, <1>4, <2>2
    <3>2. (i - 1) + 1 = i
      OBVIOUS
    <3>3. QED
      BY <1>4, <3>1, <3>2
  <2>4. posted'[i - 1].req = r /\ posted'[i - 1].ec = e
    BY <2>1, <2>3
  <2>5. QED
    BY <2>3, <2>4 DEF Owed
<1>12. \A r \in Requests : IsOwed(r)' <=> IsOwed(r) /\ r # q
  BY <1>10, <1>11 DEF IsOwed
<1>13. \A r \in Requests : InFlight(r)' <=> InFlight(r)
  BY <1>1 DEF InFlight
<1>14. \A r \in Requests : Called(r)' <=> Called(r) \/ r = q
  BY <1>8 DEF Called
<1>15. TypeOK'
  BY <1>1, <1>2, <1>4, <1>8 DEF TypeOK
<1>16. NodeInv' /\ SlotInv' /\ PoolInv' /\ MessageInv'
  BY <1>1, <1>2 DEF NodeInv, SlotInv, PoolInv, MessageInv
<1>17. PlaceInv'
  <2>1. \A i, j \in 1..Len(posted') : posted'[i].req = posted'[j].req => i = j
    <3> SUFFICES ASSUME NEW i \in 1..Len(posted'), NEW j \in 1..Len(posted'),
                        posted'[i].req = posted'[j].req
                 PROVE  i = j
      OBVIOUS
    <3>1. i + 1 \in 1..Len(posted) /\ j + 1 \in 1..Len(posted)
      BY <1>3, <1>4
    <3>2. posted[i + 1].req = posted[j + 1].req
      BY <1>4
    <3>3. i + 1 = j + 1
      BY <1>2, <3>1, <3>2 DEF PlaceInv
    <3>4. QED
      BY <3>3
  <2>2. \A r \in Requests : InFlight(r)' =>
          ~IsOwed(r)' /\ ~Called(r)' /\ r \notin dropped'
    BY <1>1, <1>2, <1>7, <1>12, <1>13, <1>14 DEF PlaceInv
  <2>3. \A r \in Requests : IsOwed(r)' =>
          r \in started' /\ ~Called(r)' /\ r \notin dropped'
    BY <1>1, <1>2, <1>12, <1>14 DEF PlaceInv
  <2>4. \A r \in Requests : Called(r)' => r \in started' /\ r \notin dropped'
    BY <1>1, <1>2, <1>7, <1>14 DEF PlaceInv
  <2>5. ASSUME NEW r \in Requests PROVE Len(delivered'[r]) <= 1
    <3>1. Len(delivered[r]) <= 1
      BY <1>2 DEF PlaceInv
    <3>2. CASE r = q
      <4>1. Len(delivered'[q]) = 1
        BY <1>8
      <4>2. QED
        BY <3>2, <4>1
    <3>3. CASE r # q
      <4>1. delivered'[r] = delivered[r]
        BY <1>8, <3>3
      <4>2. QED
        BY <3>1, <4>1
    <3>4. QED
      BY <3>2, <3>3
  <2>6. dropped' \subseteq started'
    BY <1>1, <1>2 DEF PlaceInv
  <2>7. QED
    BY <2>1, <2>2, <2>3, <2>4, <2>5, <2>6 DEF PlaceInv
<1>18. NeverLost'
  BY <1>1, <1>2, <1>12, <1>13, <1>14 DEF NeverLost, TypeOK
<1>19. AbortOnlyWhenAsked'
  <2> SUFFICES ASSUME NEW r \in Requests,
                      Owed(r, "aborted")' \/ Told(r, "aborted")'
               PROVE  r \in emitted
    BY <1>1 DEF AbortOnlyWhenAsked
  <2>1. "aborted" \in OwnErrors
    BY DEF OwnErrors
  <2>2. CASE Owed(r, "aborted")'
    BY <1>2, <1>10, <2>1, <2>2 DEF AbortOnlyWhenAsked
  <2>3. CASE Told(r, "aborted")' /\ r # q
    BY <1>2, <1>8, <2>3 DEF AbortOnlyWhenAsked, Told
  <2>4. CASE Told(r, "aborted")' /\ r = q
    <3>1. ec = "aborted"
      BY <1>8, <2>4 DEF Told, Made
    <3>2. QED
      BY <1>2, <1>6, <2>4, <3>1 DEF AbortOnlyWhenAsked
  <2>5. QED
    BY <2>2, <2>3, <2>4
<1>20. QED
  BY <1>15, <1>16, <1>17, <1>18, <1>19 DEF IInv

(* ~Client leaves nothing in flight; whatever was is dropped. *)
LEMMA DestroyInv ==
  ASSUME IInv, Destroy
  PROVE  IInv'
<1>1. /\ transfers' = {} /\ idle' = <<>> /\ msgs' = {}
      /\ dropped' = dropped \union {node[h].handler : h \in transfers}
      /\ node' = [h \in Handles |-> Blank]
      /\ multi' = [h \in Handles |->
                     IF h \in transfers \union Pool THEN "none" ELSE multi[h]]
      /\ sticky' = [h \in Handles |-> FALSE]
      /\ UNCHANGED <<next_id, running, pc, posted, slot,
                     started, emitted, delivered>>
  BY DEF Destroy
<1>2. alive' \in BOOLEAN
  BY Zenon DEF Destroy
<1>3. /\ TypeOK /\ NodeInv /\ SlotInv /\ PoolInv /\ MessageInv
      /\ PlaceInv /\ NeverLost /\ AbortOnlyWhenAsked
  BY DEF IInv
<1>4. \A r \in Requests : r \in dropped' <=> r \in dropped \/ InFlight(r)
  BY <1>1 DEF InFlight
<1>5. dropped' \subseteq started' /\ dropped' \subseteq Requests
  BY <1>1, <1>3 DEF NodeInv, PlaceInv, TypeOK
<1>6. \A r \in Requests : /\ ~InFlight(r)'
                          /\ IsOwed(r)' <=> IsOwed(r)
                          /\ Called(r)' <=> Called(r)
  BY <1>1 DEF InFlight, IsOwed, Owed, Called
<1>7. TypeOK'
  <2>1. node' \in [Handles -> [handler : Requests \union {None},
                              id : Nat, scrub : BOOLEAN]]
    BY <1>1 DEF Blank
  <2>2. /\ multi' \in [Handles -> {"none", "ours", "other"}]
        /\ sticky' \in [Handles -> BOOLEAN]
    BY <1>1, <1>3 DEF TypeOK
  <2>3. QED
    BY <1>1, <1>2, <1>3, <1>5, <2>1, <2>2 DEF TypeOK
<1>8. NodeInv'
  BY <1>1, <1>3 DEF NodeInv
<1>9. SlotInv' /\ PoolInv' /\ MessageInv'
  BY <1>1, <1>3, PoolAssumption DEF SlotInv, PoolInv, MessageInv
<1>10. PlaceInv'
  BY <1>1, <1>3, <1>4, <1>5, <1>6 DEF PlaceInv
<1>11. NeverLost'
  BY <1>1, <1>3, <1>4, <1>6 DEF NeverLost, TypeOK
<1>12. AbortOnlyWhenAsked'
  BY <1>1, <1>3 DEF AbortOnlyWhenAsked, Owed, Told
<1>13. QED
  BY <1>7, <1>8, <1>9, <1>10, <1>11, <1>12 DEF IInv

(* Every step keeps it.                                                    *)
LEMMA NextInv == IInv /\ [Next]_vars => IInv'
<1> SUFFICES ASSUME IInv, [Next]_vars
             PROVE  IInv'
  OBVIOUS
<1>0. /\ TypeOK /\ NodeInv /\ SlotInv /\ PoolInv /\ MessageInv
      /\ PlaceInv /\ NeverLost /\ AbortOnlyWhenAsked
  BY DEF IInv
(* The steps that touch neither a handler nor a node nor the pool. *)
<1>k. ASSUME /\ UNCHANGED <<transfers, idle, node, next_id, posted, slot>>
             /\ UNCHANGED <<sticky, started, emitted, delivered, dropped>>,
             TypeOK', MessageInv',
             \A h \in Handles : multi'[h] = "ours" <=> multi[h] = "ours"
      PROVE  IInv'
  <2>1. NodeInv'
    BY <1>k, <1>0 DEF NodeInv, TypeOK
  <2>2. SlotInv' /\ PoolInv'
    BY <1>k, <1>0 DEF SlotInv, PoolInv
  <2>3. PlaceInv' /\ NeverLost' /\ AbortOnlyWhenAsked'
    BY <1>k, <1>0 DEF PlaceInv, NeverLost, AbortOnlyWhenAsked,
                      InFlight, IsOwed, Owed, Called, Told
  <2>4. QED
    BY <1>k, <2>1, <2>2, <2>3 DEF IInv
<1>1. ASSUME NEW r \in Requests, Start(r) PROVE IInv'
  BY <1>1, StartInv
<1>2. ASSUME NEW r \in Requests, Cancel(r) PROVE IInv'
  BY <1>2, CancelInv
<1>3. CASE EnterCurl
  <2>1. TypeOK' /\ MessageInv'
    BY <1>3, <1>0 DEF EnterCurl, client, curl, history, TypeOK, MessageInv
  <2>2. QED
    BY <1>3, <1>k, <2>1 DEF EnterCurl, client, curl, history
<1>4. ASSUME NEW h \in Handles, NEW res \in Outcomes, CurlDone(h, res)
      PROVE  IInv'
  <2>1. /\ multi[h] = "ours" /\ \A m \in msgs : m.eh # h
        /\ msgs' = msgs \union {[eh |-> h, res |-> res, of |-> node[h].handler]}
        /\ UNCHANGED <<transfers, idle, node, next_id, running, alive>>
        /\ UNCHANGED <<multi, sticky, pc, posted, slot>>
        /\ UNCHANGED <<started, emitted, delivered, dropped>>
    BY <1>4 DEF CurlDone, Unfinished, client, history
  <2>2. h \in transfers
    BY <1>0, <2>1 DEF NodeInv
  <2>3. node[h].handler \in Requests
    BY <1>0, <2>2 DEF NodeInv, TypeOK
  <2>4. MessageInv'
    BY <1>0, <2>1, <2>2 DEF MessageInv
  <2>5. TypeOK'
    BY <1>0, <2>1, <2>3 DEF TypeOK
  <2>6. QED
    BY <1>k, <2>1, <2>4, <2>5
<1>5. CASE CurlReturn
  <2>1. running' \in Nat
    <3>1. IsFiniteSet(Unfinished)
      <4>1. Unfinished \subseteq Handles
        BY DEF Unfinished
      <4>2. QED
        BY <4>1, HandlesAssumption, FS_Subset
    <3>2. QED
      BY <1>5, <3>1, FS_CardinalityType DEF CurlReturn
  <2>2. TypeOK' /\ MessageInv'
    BY <1>5, <1>0, <2>1 DEF CurlReturn, curl, history, TypeOK, MessageInv
  <2>3. QED
    BY <1>5, <1>k, <2>2 DEF CurlReturn, curl, history
<1>6. CASE DrainOne
  BY <1>6, DrainInv
<1>7. CASE DrainEnd
  <2>1. TypeOK' /\ MessageInv'
    BY <1>7, <1>0 DEF DrainEnd, client, curl, history, TypeOK, MessageInv
  <2>2. QED
    BY <1>7, <1>k, <2>1 DEF DrainEnd, client, curl, history
<1>13. CASE HandlerThrows
  <2>1. TypeOK' /\ MessageInv'
    BY <1>13, <1>0 DEF HandlerThrows, client, curl, history, TypeOK, MessageInv
  <2>2. QED
    BY <1>13, <1>k, <2>1 DEF HandlerThrows, client, curl, history
<1>8. CASE RunPosted
  BY <1>8, RunPostedInv
<1>9. CASE Destroy
  BY <1>9, DestroyInv
<1>10. ASSUME NEW h \in Handles, OtherMultiReleases(h) PROVE IInv'
  <2>1. TypeOK' /\ MessageInv'
    BY <1>10, <1>0 DEF OtherMultiReleases, client, history, TypeOK, MessageInv
  <2>2. \A g \in Handles : multi'[g] = "ours" <=> multi[g] = "ours"
    BY <1>10, <1>0 DEF OtherMultiReleases, TypeOK
  <2>3. QED
    BY <1>10, <1>k, <2>1, <2>2 DEF OtherMultiReleases, client, history
<1>11. CASE UNCHANGED vars
  <2>1. TypeOK' /\ MessageInv'
    BY <1>11, <1>0 DEF vars, client, curl, history, TypeOK, MessageInv
  <2>2. QED
    BY <1>11, <1>k, <2>1 DEF vars, client, curl, history
<1>12. QED
  BY <1>1, <1>2, <1>3, <1>4, <1>5, <1>6, <1>7, <1>8, <1>9, <1>10, <1>11, <1>13
     DEF Next

-----------------------------------------------------------------------------

(* In every behaviour of the client IInv holds. *)
THEOREM InvHolds == Spec => []IInv
<1>1. Init => IInv
  BY InitInv
<1>2. IInv /\ [Next]_vars => IInv'
  BY NextInv
<1>3. QED
  BY <1>1, <1>2, PTL DEF Spec

(* Every variable keeps its type. *)
THEOREM TypeCorrect == Spec => []TypeOK
<1>1. IInv => TypeOK
  BY DEF IInv
<1>2. QED
  BY <1>1, InvHolds, PTL

(* A completion handler is never called twice, nor after ~Client dropped   *)
(* it, whatever cancellations, failures and completions race for it.       *)
THEOREM CalledAtMostOnce == Spec => []AtMostOnce
<1>1. IInv => AtMostOnce
  BY DEF IInv, PlaceInv, AtMostOnce
<1>2. QED
  BY <1>1, InvHolds, PTL

(* A handler that was handed to the client is never lost. *)
THEOREM HandlerNeverLost == Spec => []NeverLost
<1>1. IInv => NeverLost
  BY DEF IInv
<1>2. QED
  BY <1>1, InvHolds, PTL

(* check_completions() never completes a request with another's outcome. *)
THEOREM MessagesMatch == Spec => []MessagesReachTheirRequest
<1>1. IInv => MessagesReachTheirRequest
  BY DEF IInv, MessageInv, MessagesReachTheirRequest
<1>2. QED
  BY <1>1, InvHolds, PTL

(* A cancellation slot never aborts a request other than its own. *)
THEOREM AbortsAreAskedFor == Spec => []AbortOnlyWhenAsked
<1>1. IInv => AbortOnlyWhenAsked
  BY DEF IInv
<1>2. QED
  BY <1>1, InvHolds, PTL

(* The pool never holds a handle twice, one in use, more than its cap, or  *)
(* one with a hook's options or an earlier request's id.                   *)
THEOREM PoolStaysClean == Spec => []PoolClean
<1>1. IInv => PoolClean
  <2> SUFFICES ASSUME IInv PROVE PoolClean
    OBVIOUS
  <2>1. NodeInv /\ PoolInv /\ TypeOK
    BY DEF IInv
  <2>2. \A i \in 1..Len(idle) : idle[i] \in Handles \ transfers
    BY <2>1, ElementOfSeq DEF PoolInv, TypeOK
  <2>3. \A h \in Pool : h \in Handles \ transfers
    BY <2>2 DEF Pool
  <2>4. QED
    BY <2>1, <2>3 DEF PoolClean, PoolInv, NodeInv
<1>2. QED
  BY <1>1, InvHolds, PTL

(* An emission that reaches a request in flight always wins: the DONE      *)
(* message it may already have is discarded and the abort is owed.         *)
THEOREM CancellationWins == Spec => CancelWins
<1>1. ASSUME IInv, NEW r \in Requests, Cancel(r), alive, InFlight(r)
      PROVE  ~InFlight(r)' /\ Owed(r, "aborted")'
  <2>1. TypeOK /\ NodeInv
    BY <1>1 DEF IInv
  <2>2. PICK g \in transfers : node[g].handler = r
    BY <1>1 DEF InFlight
  <2>3. g \in Find(r)
    BY <2>1, <2>2 DEF Find, NodeInv
  <2>4. PICK h \in Find(r) : CancelTransfer(r, h)
    BY <1>1, <2>3 DEF Cancel
  <2>5. slot[r] # 0
    BY <1>1 DEF Cancel
  <2>6. h \in transfers /\ h \in Handles /\ node[h].handler = r
    BY <1>1, <2>4, <2>5, FindOwn
  <2>7. Retire(h, TRUE, idle, "none") /\ Post(r, "aborted")
    BY <2>4, <2>6 DEF CancelTransfer
  <2>8. "aborted" \in OwnErrors
    BY DEF OwnErrors
  <2>9. Owed(r, "aborted")'
    BY <2>1, <2>7, <2>8, PostEffect
  <2>10. /\ transfers' = transfers \ {h}
         /\ \A f \in Handles \ {h} : node'[f] = node[f]
    BY <2>1, <2>7 DEF Retire, TypeOK
  <2>11. ~InFlight(r)'
    BY <2>1, <2>6, <2>10, RetireLands
  <2>12. QED
    BY <2>9, <2>11
<1>2. IInv /\ [Next]_vars =>
        [\A r \in Requests :
           Cancel(r) /\ alive /\ InFlight(r)
             => ~InFlight(r)' /\ Owed(r, "aborted")']_vars
  BY <1>1
<1>3. QED
  BY <1>2, InvHolds, PTL DEF Spec, CancelWins

-----------------------------------------------------------------------------
(* pending_requests() *)

(* Sets of handles can be counted. *)
LEMMA HandleCount ==
  ASSUME NEW S \in SUBSET Handles
  PROVE  /\ IsFiniteSet(S) /\ Cardinality(S) \in Nat
         /\ \A T \in SUBSET S : Cardinality(T) <= Cardinality(S)
         /\ \A h : Cardinality(S \ {h}) \in Nat
                   /\ Cardinality(S) - 1 <= Cardinality(S \ {h})
<1>1. IsFiniteSet(S) /\ Cardinality(S) \in Nat
  BY HandlesAssumption, FS_Subset, FS_CardinalityType
<1>2. \A T \in SUBSET S : Cardinality(T) <= Cardinality(S)
  BY <1>1, FS_Subset
<1>3. ASSUME NEW h
      PROVE  /\ Cardinality(S \ {h}) \in Nat
             /\ Cardinality(S) - 1 <= Cardinality(S \ {h})
  <2>1. /\ IsFiniteSet(S \ {h})
        /\ Cardinality(S \ {h}) = IF h \in S THEN Cardinality(S) - 1
                                             ELSE Cardinality(S)
    BY <1>1, FS_RemoveElement
  <2>2. Cardinality(S \ {h}) \in Nat
    BY <2>1, FS_CardinalityType
  <2>3. QED
    BY <1>1, <2>1, <2>2
<1>4. QED
  BY <1>1, <1>2, <1>3

(* No call of the program ends a transfer that curl still works on, but    *)
(* cancel(), which ends one.                                               *)
LEMMA StartKeepsUnfinished ==
  ASSUME IInv, NEW r \in Requests, Start(r)
  PROVE  Unfinished \subseteq Unfinished'
<1>1. TypeOK /\ NodeInv /\ PoolInv /\ msgs' = msgs
  BY DEF IInv, Start
<1>2. ASSUME NEW g \in Handles, multi[g] = "ours"
      PROVE  multi'[g] = "ours"
  <2>1. CASE StartWithoutHandle(r)
    BY <1>2, <2>1 DEF StartWithoutHandle
  <2>2. ASSUME NEW h \in Handles, NEW hook \in Hooks, StartTransfer(r, h, hook)
        PROVE  multi'[g] = "ours"
    BY <1>1, <1>2, <2>2 DEF StartTransfer, TypeOK
  <2>3. ASSUME NEW h \in Handles, NEW hook \in Hooks, StartRefused(r, h, hook)
        PROVE  multi'[g] = "ours"
    <3>1. Draw(h)
      BY <2>3 DEF StartRefused
    <3>2. multi[h] # "ours"
      BY <1>1, <3>1, DrawTakes DEF NodeInv
    <3>3. \A f \in Handles \ {h} : multi'[f] = multi[f]
      BY <1>1, <2>3 DEF StartRefused, Retire, TypeOK
    <3>4. QED
      BY <1>2, <3>2, <3>3
  <2>4. QED
    BY <2>1, <2>2, <2>3 DEF Start
<1>3. QED
  BY <1>1, <1>2 DEF Unfinished

(* retire() ends no transfer but that of its own handle.                   *)
LEMMA RetireKeepsUnfinished ==
  ASSUME TypeOK, NEW h \in Handles, NEW scrub, NEW pool, NEW where,
         msgs' = MessagesWithout(h), Retire(h, scrub, pool, where)
  PROVE  Unfinished \ {h} \subseteq Unfinished'
<1>1. msgs' \subseteq msgs
  BY DEF MessagesWithout
<1>2. \A g \in Handles \ {h} : multi'[g] = multi[g]
  BY DEF Retire, TypeOK
<1>3. QED
  BY <1>1, <1>2 DEF Unfinished

(* No step leaves running_ above the transfers in flight.                  *)
LEMMA PendingStep ==
  IInv /\ IInv' /\ [Next]_vars /\ PendingNeverOvercounts
    => PendingNeverOvercounts'
<1> SUFFICES ASSUME IInv, IInv', [Next]_vars, PendingNeverOvercounts,
                    alive', pc' # "curl"
             PROVE  running' <= Cardinality(Unfinished')
  BY DEF PendingNeverOvercounts
<1>0. TypeOK /\ NodeInv /\ MessageInv /\ running \in Nat /\ running' \in Nat
  BY DEF IInv, TypeOK
<1>1. Unfinished \in SUBSET Handles /\ Unfinished' \in SUBSET Handles
  BY DEF Unfinished
<1> DEFINE n == Cardinality(Unfinished)
           m == Cardinality(Unfinished')
<1>2. n \in Nat /\ m \in Nat
  BY <1>1, HandleCount
<1>3. ASSUME alive, pc # "curl", running' = running,
             Unfinished \subseteq Unfinished'
      PROVE  running' <= m
  <2>1. running <= n
    BY <1>3 DEF PendingNeverOvercounts
  <2>2. n <= m
    BY <1>1, <1>3, HandleCount
  <2> HIDE DEF n, m
  <2>3. QED
    BY <1>0, <1>2, <1>3, <2>1, <2>2
<1>4. ASSUME NEW r \in Requests, Start(r) PROVE running' <= m
  <2>1. alive /\ pc # "curl" /\ running' = running
    BY <1>4 DEF Start, InUserCode
  <2>2. QED
    BY <1>3, <1>4, <2>1, StartKeepsUnfinished
<1>5. ASSUME NEW r \in Requests, Cancel(r) PROVE running' <= m
  <2>1. alive /\ pc # "curl"
    BY <1>5 DEF Cancel, InUserCode
  <2>2. CASE UNCHANGED <<transfers, idle, node, multi, sticky, msgs,
                         running, posted, delivered>>
    BY <1>3, <2>1, <2>2 DEF Unfinished
  <2>3. ASSUME NEW h \in Find(r), CancelTransfer(r, h) PROVE running' <= m
    <3>1. h \in Handles
      BY <1>0, <2>3 DEF Find, TypeOK
    <3>2. Unfinished \ {h} \subseteq Unfinished'
      BY <1>0, <2>3, <3>1, RetireKeepsUnfinished DEF CancelTransfer
    <3>3. n - 1 <= Cardinality(Unfinished \ {h})
          /\ Cardinality(Unfinished \ {h}) <= m
          /\ Cardinality(Unfinished \ {h}) \in Nat
      BY <1>1, <3>2, HandleCount
    <3>4. running <= n
      BY <2>1 DEF PendingNeverOvercounts
    <3>5. running' = IF running > 0 THEN running - 1 ELSE running
      BY <2>3 DEF CancelTransfer, AfterAbort
    <3> DEFINE k == Cardinality(Unfinished \ {h})
    <3> HIDE DEF n, m, k
    <3>6. n - 1 <= k /\ k <= m /\ k \in Nat
      BY <3>3 DEF k, n, m
    <3>7. QED
      BY <1>0, <1>2, <3>4, <3>5, <3>6
  <2>4. QED
    BY <1>5, <2>2, <2>3 DEF Cancel
<1>6. CASE EnterCurl \/ \E h \in Handles : \E res \in Outcomes : CurlDone(h, res)
  BY <1>6 DEF EnterCurl, CurlDone
<1>7. CASE CurlReturn
  <2>1. running' = n
    BY <1>7 DEF CurlReturn
  <2>2. Unfinished' = Unfinished
    BY <1>7 DEF CurlReturn, curl, Unfinished
  <2>3. QED
    BY <1>2, <2>1, <2>2
<1>8. CASE DrainOne
  <2>1. PICK d \in msgs :
          /\ msgs' = MessagesWithout(d.eh)
          /\ Retire(d.eh, node[d.eh].scrub, idle, "none")
    BY <1>8 DEF DrainOne
  <2>2. pc # "curl" /\ running' = running /\ alive' = alive
    BY <1>8 DEF DrainOne
  <2>3. d.eh \in Handles /\ d.eh \notin Unfinished
    BY <1>0, <2>1 DEF MessageInv, TypeOK, Unfinished
  <2>4. Unfinished \ {d.eh} \subseteq Unfinished'
    BY <1>0, <2>1, <2>3, RetireKeepsUnfinished
  <2>5. QED
    BY <1>3, <2>2, <2>3, <2>4
<1>9. CASE DrainEnd \/ HandlerThrows \/ RunPosted
  <2>1. pc # "curl" /\ UNCHANGED <<running, alive, multi, msgs>>
    BY <1>9 DEF DrainEnd, HandlerThrows, RunPosted, client, curl
  <2>2. Unfinished' = Unfinished
    BY <2>1 DEF Unfinished
  <2>3. QED
    BY <1>3, <2>1, <2>2
<1>10. CASE Destroy
  BY <1>10, Zenon DEF Destroy
<1>11. ASSUME NEW h \in Handles, OtherMultiReleases(h) PROVE running' <= m
  <2>1. /\ pc # "curl" /\ running' = running /\ alive' = alive /\ msgs' = msgs
        /\ multi[h] = "other" /\ multi' = [multi EXCEPT ![h] = "none"]
    BY <1>11 DEF OtherMultiReleases, InUserCode, client
  <2>2. \A g \in Handles : multi[g] = "ours" => multi'[g] = "ours"
    BY <1>0, <2>1 DEF TypeOK
  <2>3. Unfinished \subseteq Unfinished'
    BY <2>1, <2>2 DEF Unfinished
  <2>4. QED
    BY <1>3, <2>1, <2>3
<1>12. CASE UNCHANGED vars
  <2>1. /\ pc # "curl" /\ running' = running /\ alive
        /\ msgs' = msgs /\ multi' = multi
    BY <1>12 DEF vars, client, curl
  <2>2. QED
    BY <1>3, <2>1 DEF Unfinished
<1>13. QED
  BY <1>4, <1>5, <1>6, <1>7, <1>8, <1>9, <1>10, <1>11, <1>12 DEF Next

(* Outside curl running_ is at most the number of transfers curl works on, *)
(* though cancel() counts it down without asking curl: a loop that waits   *)
(* for pending_requests() to reach 0 is not held by a transfer that ended. *)
THEOREM PendingIsNoMore == Spec => []PendingNeverOvercounts
<1>1. Init => PendingNeverOvercounts
  <2> SUFFICES ASSUME Init PROVE PendingNeverOvercounts
    OBVIOUS
  <2>1. running = 0 /\ Unfinished \in SUBSET Handles
    BY DEF Init, Unfinished
  <2>2. QED
    BY <2>1, HandleCount DEF PendingNeverOvercounts
<1>2. QED
  BY <1>1, PendingStep, InvHolds, PTL DEF Spec

-----------------------------------------------------------------------------
(* The refinement of AsyncRequest *)

(* What has become of a request is never in doubt. *)
StatesFit ==
  \A r \in Requests :
    /\ r \notin started => StateOf(r) = "idle"
    /\ r \in dropped => StateOf(r) = "dropped"
    /\ Owed(r, "aborted") => StateOf(r) = "aborted"
    /\ Refused(r) => StateOf(r) = "refused"
    /\ Called(r) =>
         LET ec == delivered[r][1].ec
         IN  /\ ec = "aborted" => StateOf(r) = "told_aborted"
             /\ ec \in OwnErrors \ {"aborted"} => StateOf(r) = "told_refused"
             /\ ec \notin OwnErrors => StateOf(r) = "finished"
    /\ r \in started /\ r \notin dropped /\ ~IsOwed(r) /\ ~Called(r)
         => StateOf(r) = "in_flight"

(* A request that is owed one completion is owed no other, and a history   *)
(* has one entry at most.                                                  *)
LEMMA OneOwed ==
  ASSUME IInv, NEW r \in Requests
  PROVE  /\ IsOwed(r) <=> Owed(r, "aborted") \/ Refused(r)
         /\ ~(Owed(r, "aborted") /\ Refused(r))
         /\ Called(r) <=> Len(delivered[r]) = 1
         /\ ~Called(r) <=> Len(delivered[r]) = 0
         /\ ~(Len(delivered[r]) > 1)
<1>1. /\ TypeOK /\ PlaceInv
  BY DEF IInv
<1>2. IsOwed(r) <=> Owed(r, "aborted") \/ Refused(r)
  <2>1. "aborted" \in OwnErrors
    BY DEF OwnErrors
  <2>2. QED
    BY <2>1 DEF IsOwed, Refused
<1>3. ~(Owed(r, "aborted") /\ Refused(r))
  BY <1>1 DEF Owed, Refused, PlaceInv
<1>4. delivered[r] \in Seq(Results) /\ Len(delivered[r]) <= 1
  BY <1>1 DEF TypeOK, PlaceInv
<1> DEFINE n == Len(delivered[r])
<1>5. n \in Nat /\ n <= 1 /\ (Called(r) <=> n # 0)
  BY <1>4, EmptySeq, LenProperties DEF Called
<1> HIDE DEF n
<1>6. (Called(r) <=> n = 1) /\ (~Called(r) <=> n = 0) /\ ~(n > 1)
  BY <1>5
<1>7. QED
  BY <1>2, <1>3, <1>6 DEF n

(* The invariant gives each request's state from its history.              *)
LEMMA StateFacts == IInv => StatesFit
<1> SUFFICES ASSUME IInv, NEW r \in Requests
             PROVE  /\ r \notin started => StateOf(r) = "idle"
                    /\ r \in dropped => StateOf(r) = "dropped"
                    /\ Owed(r, "aborted") => StateOf(r) = "aborted"
                    /\ Refused(r) => StateOf(r) = "refused"
                    /\ Called(r) =>
                         LET ec == delivered[r][1].ec
                         IN  /\ ec = "aborted" => StateOf(r) = "told_aborted"
                             /\ ec \in OwnErrors \ {"aborted"}
                                  => StateOf(r) = "told_refused"
                             /\ ec \notin OwnErrors => StateOf(r) = "finished"
                    /\ r \in started /\ r \notin dropped
                         /\ ~IsOwed(r) /\ ~Called(r)
                         => StateOf(r) = "in_flight"
  BY DEF StatesFit
<1>1. /\ IsOwed(r) <=> Owed(r, "aborted") \/ Refused(r)
      /\ ~(Owed(r, "aborted") /\ Refused(r))
      /\ Called(r) <=> Len(delivered[r]) = 1
      /\ ~(Len(delivered[r]) > 1)
  BY OneOwed
<1>2. /\ r \in dropped => r \in started
      /\ IsOwed(r) => r \in started /\ ~Called(r) /\ r \notin dropped
      /\ Called(r) => r \in started /\ r \notin dropped
  BY DEF IInv, PlaceInv
<1>3. r \notin started => StateOf(r) = "idle"
  BY <1>1, <1>2 DEF StateOf
<1>4. r \in dropped => StateOf(r) = "dropped"
  BY <1>1, <1>2 DEF StateOf
<1>5. Owed(r, "aborted") => StateOf(r) = "aborted"
  BY <1>1, <1>2 DEF StateOf
<1>6. Refused(r) => StateOf(r) = "refused"
  BY <1>1, <1>2 DEF StateOf
<1>7. ASSUME r \in started, r \notin dropped, ~IsOwed(r), ~Called(r)
      PROVE  StateOf(r) = "in_flight"
  BY <1>1, <1>7 DEF StateOf
<1>8. ASSUME Called(r)
      PROVE  LET ec == delivered[r][1].ec
             IN  /\ ec = "aborted" => StateOf(r) = "told_aborted"
                 /\ ec \in OwnErrors \ {"aborted"} => StateOf(r) = "told_refused"
                 /\ ec \notin OwnErrors => StateOf(r) = "finished"
  <2>1. /\ r \in started /\ r \notin dropped
        /\ ~Owed(r, "aborted") /\ ~Refused(r) /\ Len(delivered[r]) = 1
    BY <1>1, <1>2, <1>8
  <2>2. "aborted" \in OwnErrors
    BY DEF OwnErrors
  <2> DEFINE ec == delivered[r][1].ec
  <2>3. ec = "aborted" => StateOf(r) = "told_aborted"
    BY <2>1, <2>2, <1>1 DEF StateOf
  <2>4. ec \in OwnErrors \ {"aborted"} => StateOf(r) = "told_refused"
    BY <2>1, <1>1 DEF StateOf
  <2>5. ec \notin OwnErrors => StateOf(r) = "finished"
    BY <2>1, <2>2, <1>1 DEF StateOf
  <2>6. QED
    BY <2>3, <2>4, <2>5
<1>9. QED
  BY <1>3, <1>4, <1>5, <1>6, <1>7, <1>8

(* What has become of a request changes with its handler's place only. *)
LEMMA SameState ==
  ASSUME IInv, StatesFit, StatesFit', NEW r \in Requests,
         r \in started' <=> r \in started,
         r \in dropped' <=> r \in dropped,
         \A e \in OwnErrors : Owed(r, e)' <=> Owed(r, e),
         delivered'[r] = delivered[r]
  PROVE  StateOf(r)' = StateOf(r)
<1>1. /\ Owed(r, "aborted")' <=> Owed(r, "aborted")
      /\ Refused(r)' <=> Refused(r)
      /\ IsOwed(r)' <=> IsOwed(r)
      /\ Called(r)' <=> Called(r)
  BY DEF Refused, IsOwed, Called, OwnErrors
<1>2. IsOwed(r) <=> Owed(r, "aborted") \/ Refused(r)
  BY OneOwed
<1>3. CASE r \notin started \/ r \in dropped \/ IsOwed(r)
  BY <1>1, <1>2, <1>3 DEF StatesFit
<1>4. CASE Called(r)
  <2> DEFINE ec == delivered[r][1].ec
  <2>1. delivered'[r][1].ec = ec
    OBVIOUS
  <2>2. CASE ec = "aborted"
    BY <1>1, <1>4, <2>1, <2>2 DEF StatesFit
  <2>3. CASE ec \in OwnErrors \ {"aborted"}
    BY <1>1, <1>4, <2>1, <2>3 DEF StatesFit
  <2>4. CASE ec \notin OwnErrors
    BY <1>1, <1>4, <2>1, <2>4 DEF StatesFit
  <2>5. QED
    BY <2>2, <2>3, <2>4
<1>5. CASE r \in started /\ r \notin dropped /\ ~IsOwed(r) /\ ~Called(r)
  BY <1>1, <1>5 DEF StatesFit
<1>6. QED
  BY <1>3, <1>4, <1>5

(* A step that moves one handler moves one request. *)
LEMMA OneMoves ==
  ASSUME NEW r \in Requests, alive' = alive,
         \A q \in Requests \ {r} : StateOf(q)' = StateOf(q)
  PROVE  Promise!Move(r, StateOf(r), StateOf(r)')
BY DEF Promise!Move

(* Nothing is in flight after ~Client. *)
DeadInv == ~alive => transfers = {}

(* What is said of a dead client stays true of it.                         *)
LEMMA DeadStep == DeadInv /\ [Next]_vars => DeadInv'
<1> SUFFICES ASSUME DeadInv, [Next]_vars PROVE DeadInv'
  OBVIOUS
<1>1. CASE Destroy
  BY <1>1 DEF Destroy, DeadInv
<1>2. ASSUME NEW r \in Requests, Start(r) PROVE DeadInv'
  BY <1>2 DEF Start, DeadInv
<1>3. ASSUME alive' = alive, transfers' \subseteq transfers PROVE DeadInv'
  BY <1>3 DEF DeadInv
<1>4. ASSUME NEW r \in Requests, Cancel(r) PROVE DeadInv'
  BY <1>3, <1>4 DEF Cancel, CancelTransfer, Retire
<1>5. CASE DrainOne
  BY <1>3, <1>5 DEF DrainOne, Retire
<1>6. CASE \/ EnterCurl \/ CurlReturn \/ DrainEnd \/ HandlerThrows \/ RunPosted
           \/ \E h \in Handles : \E res \in Outcomes : CurlDone(h, res)
           \/ \E h \in Handles : OtherMultiReleases(h)
           \/ UNCHANGED vars
  BY <1>3, <1>6 DEF EnterCurl, CurlReturn, DrainEnd, HandlerThrows, RunPosted,
                    CurlDone, OtherMultiReleases, client, vars
<1>7. QED
  BY <1>1, <1>2, <1>4, <1>5, <1>6 DEF Next

(* A request in flight is started, and nothing else was done with it.      *)
LEMMA InFlightState ==
  ASSUME IInv, StatesFit, NEW r \in Requests, InFlight(r)
  PROVE  /\ StateOf(r) = "in_flight" /\ delivered[r] = <<>>
         /\ r \in started /\ r \notin dropped /\ ~IsOwed(r)
<1>1. r \in started /\ r \notin dropped /\ ~IsOwed(r) /\ ~Called(r)
  BY DEF IInv, PlaceInv, NodeInv, InFlight
<1>2. QED
  BY <1>1 DEF StatesFit, Called

(* A request that no transfer serves was owed a completion, called or      *)
(* dropped (NeverLost), if it started at all.                              *)
LEMMA NotInFlight ==
  ASSUME IInv, StatesFit, NEW r \in Requests, ~InFlight(r)
  PROVE  StateOf(r) # "in_flight"
<1>1. r \notin started \/ r \in dropped \/ IsOwed(r) \/ Called(r)
  BY DEF IInv, NeverLost
<1>2. IsOwed(r) <=> Owed(r, "aborted") \/ Refused(r)
  BY OneOwed
<1>3. CASE r \notin started \/ r \in dropped \/ IsOwed(r)
  BY <1>2, <1>3 DEF StatesFit
<1>4. CASE Called(r)
  <2> DEFINE ec == delivered[r][1].ec
  <2>1. \/ ec = "aborted" \/ ec \in OwnErrors \ {"aborted"}
        \/ ec \notin OwnErrors
    OBVIOUS
  <2>2. QED
    BY <1>4, <2>1 DEF StatesFit
<1>5. QED
  BY <1>1, <1>3, <1>4

(* start() submits a request or refuses it. *)
LEMMA StartRefines ==
  ASSUME IInv, StatesFit, StatesFit', NEW r \in Requests, Start(r)
  PROVE  Promise!Submit(r) \/ Promise!Refuse(r)
<1>1. /\ alive /\ alive' = alive /\ r \notin started
      /\ started' = started \union {r} /\ dropped' = dropped
  BY DEF Start
<1>2. /\ TypeOK /\ StateOf(r) = "idle"
      /\ ~IsOwed(r) /\ ~Called(r) /\ r \notin dropped
  BY <1>1, NotStarted DEF IInv, StatesFit
<1>3. ASSUME UNCHANGED <<posted, delivered>> PROVE Promise!Submit(r)
  <2>1. \A q \in Requests \ {r} : StateOf(q)' = StateOf(q)
    <3> SUFFICES ASSUME NEW q \in Requests \ {r} PROVE StateOf(q)' = StateOf(q)
      OBVIOUS
    <3>1. \A e \in OwnErrors : Owed(q, e)' <=> Owed(q, e)
      BY <1>3 DEF Owed
    <3>2. QED
      BY <1>1, <1>3, <3>1, SameState
  <2>2. ~IsOwed(r)' /\ ~Called(r)' /\ r \in started' /\ r \notin dropped'
    BY <1>1, <1>2, <1>3 DEF IsOwed, Owed, Called
  <2>3. StateOf(r)' = "in_flight"
    BY <2>2 DEF StatesFit
  <2>4. QED
    BY <1>1, <1>2, <2>1, <2>3, OneMoves DEF Promise!Submit
<1>4. ASSUME NEW ec \in {"failed_init", "out_of_memory"}, Post(r, ec)
      PROVE  Promise!Refuse(r)
  <2>1. ec \in OwnErrors \ {"aborted"}
    BY DEF OwnErrors
  <2>2. /\ delivered' = delivered
        /\ \A q \in Requests, e \in OwnErrors :
             Owed(q, e)' <=> Owed(q, e) \/ (q = r /\ e = ec)
    BY <1>2, <1>4, <2>1, PostEffect
  <2>3. \A q \in Requests \ {r} : StateOf(q)' = StateOf(q)
    BY <1>1, <2>2, SameState
  <2>4. Refused(r)'
    BY <2>1, <2>2 DEF Refused
  <2>5. StateOf(r)' = "refused"
    BY <2>4 DEF StatesFit
  <2>6. QED
    BY <1>1, <1>2, <2>3, <2>5, OneMoves DEF Promise!Refuse
<1>5. QED
  BY <1>3, <1>4 DEF Start, StartWithoutHandle, StartTransfer, StartRefused

(* cancel() that finds a transfer aborts its request. *)
LEMMA CancelRefines ==
  ASSUME IInv, StatesFit, StatesFit', NEW r \in Requests, Cancel(r)
  PROVE  Promise!Abort(r) \/ UNCHANGED Promise!vars
<1>1. alive' = alive /\ slot[r] # 0 /\ UNCHANGED <<started, dropped>>
  BY DEF Cancel
<1>2. TypeOK
  BY DEF IInv
<1>3. ASSUME UNCHANGED <<posted, delivered>> PROVE UNCHANGED Promise!vars
  <2>1. \A q \in Requests : StateOf(q)' = StateOf(q)
    <3> SUFFICES ASSUME NEW q \in Requests PROVE StateOf(q)' = StateOf(q)
      OBVIOUS
    <3>1. \A e \in OwnErrors : Owed(q, e)' <=> Owed(q, e)
      BY <1>3 DEF Owed
    <3>2. QED
      BY <1>1, <1>3, <3>1, SameState
  <2>2. QED
    BY <1>1, <2>1 DEF Promise!vars
<1>4. ASSUME alive, NEW h \in Find(r), CancelTransfer(r, h)
      PROVE  Promise!Abort(r)
  <2>1. h \in transfers /\ node[h].handler = r
    BY <1>1, FindOwn
  <2>2. StateOf(r) = "in_flight"
    BY <2>1, InFlightState DEF InFlight
  <2>3. Post(r, "aborted") /\ "aborted" \in OwnErrors
    BY <1>4, <2>1 DEF CancelTransfer, OwnErrors
  <2>4. /\ delivered' = delivered
        /\ \A q \in Requests, e \in OwnErrors :
             Owed(q, e)' <=> Owed(q, e) \/ (q = r /\ e = "aborted")
    BY <1>2, <2>3, PostEffect
  <2>5. \A q \in Requests \ {r} : StateOf(q)' = StateOf(q)
    BY <1>1, <2>4, SameState
  <2>6. Owed(r, "aborted")'
    BY <2>3, <2>4
  <2>7. StateOf(r)' = "aborted"
    BY <2>6 DEF StatesFit
  <2>8. QED
    BY <1>1, <1>4, <2>2, <2>5, <2>7, OneMoves DEF Promise!Abort
<1>5. QED
  BY <1>3, <1>4 DEF Cancel

(* check_completions() finishes the request whose transfer ended. *)
LEMMA DrainRefines ==
  ASSUME IInv, DeadInv, StatesFit, StatesFit', DrainOne
  PROVE  \E r \in Requests : Promise!Finish(r)
<1>1. PICK m \in msgs :
        delivered' = [delivered EXCEPT ![node[m.eh].handler] = Append(@, m.res)]
  BY DEF DrainOne
<1>2. alive' = alive /\ UNCHANGED <<posted, started, dropped>>
  BY DEF DrainOne
<1>3. TypeOK /\ NodeInv /\ m.eh \in transfers /\ m.res \in Outcomes
  BY <1>1 DEF IInv, MessageInv, TypeOK
<1>4. PICK r \in Requests : r = node[m.eh].handler
  BY <1>3 DEF NodeInv, TypeOK
<1>5. StateOf(r) = "in_flight" /\ delivered[r] = <<>>
  BY <1>3, <1>4, InFlightState DEF InFlight
<1>6. alive
  BY <1>3 DEF DeadInv
<1>7. /\ delivered'[r] = <<m.res>>
      /\ \A q \in Requests \ {r} : delivered'[q] = delivered[q]
  BY <1>1, <1>3, <1>4, <1>5 DEF TypeOK
<1>8. StateOf(r)' = "finished"
  <2>1. Called(r)' /\ delivered'[r][1] = m.res
    BY <1>7 DEF Called
  <2>2. m.res.ec \notin OwnErrors
    BY <1>3 DEF Outcomes, OwnErrors
  <2>3. QED
    BY <2>1, <2>2 DEF StatesFit
<1>9. \A q \in Requests \ {r} : StateOf(q)' = StateOf(q)
  <2> SUFFICES ASSUME NEW q \in Requests \ {r} PROVE StateOf(q)' = StateOf(q)
    OBVIOUS
  <2>1. \A e \in OwnErrors : Owed(q, e)' <=> Owed(q, e)
    BY <1>2 DEF Owed
  <2>2. QED
    BY <1>2, <1>7, <2>1, SameState
<1>10. Promise!Finish(r)
  BY <1>2, <1>5, <1>6, <1>8, <1>9, OneMoves DEF Promise!Finish
<1>11. QED
  BY <1>10

(* The oldest posted completion is delivered to the request it is owed to. *)
LEMMA RunPostedRefines ==
  ASSUME IInv, StatesFit, StatesFit', RunPosted
  PROVE  \E r \in Requests : Promise!Deliver(r)
<1>1. /\ posted # <<>> /\ posted' = Tail(posted)
      /\ delivered' = [delivered EXCEPT
           ![Head(posted).req] = Append(@, Made(Head(posted).ec))]
      /\ UNCHANGED <<alive, started, dropped>>
  BY DEF RunPosted, client
<1>2. TypeOK /\ PlaceInv
  BY DEF IInv
<1> DEFINE n == Len(posted)
<1>3. /\ posted \in Seq([req : Requests, ec : OwnErrors]) /\ n \in Nat \ {0}
      /\ Head(posted) = posted[1] /\ Len(posted') = n - 1
      /\ \A i \in 1..n - 1 : posted'[i] = posted[i + 1]
  BY <1>1, <1>2, EmptySeq, LenProperties, HeadTailProperties DEF TypeOK
<1> HIDE DEF n
<1>4. 1 \in 1..n /\ posted[1] \in [req : Requests, ec : OwnErrors]
  <2>1. 1 \in 1..n
    BY <1>3
  <2>2. QED
    BY <1>3, <2>1, ElementOfSeq DEF n
<1>5. PICK r \in Requests, ec \in OwnErrors : r = posted[1].req /\ ec = posted[1].ec
  BY <1>4
<1>6. Owed(r, ec) /\ IsOwed(r)
  BY <1>4, <1>5 DEF Owed, IsOwed, n
<1>7. ~Called(r) /\ r \in started /\ r \notin dropped
  BY <1>2, <1>6 DEF PlaceInv
<1>8. /\ delivered'[r] = <<Made(ec)>>
      /\ \A q \in Requests \ {r} : delivered'[q] = delivered[q]
  <2>1. delivered[r] = <<>> /\ delivered \in [Requests -> Seq(Results)]
    BY <1>2, <1>7 DEF TypeOK, Called
  <2>2. delivered' = [delivered EXCEPT ![r] = Append(delivered[r], Made(ec))]
    BY <1>1, <1>3, <1>5
  <2>3. Append(delivered[r], Made(ec)) = <<Made(ec)>>
    BY <2>1
  <2>4. QED
    BY <2>1, <2>2, <2>3
<1>9. Called(r)' /\ delivered'[r][1].ec = ec
  BY <1>8 DEF Called, Made
<1>10. \A q \in Requests \ {r} : StateOf(q)' = StateOf(q)
  <2> SUFFICES ASSUME NEW q \in Requests \ {r} PROVE StateOf(q)' = StateOf(q)
    OBVIOUS
  <2>1. ASSUME NEW e \in OwnErrors PROVE Owed(q, e)' <=> Owed(q, e)
    <3>1. ASSUME NEW i \in 1..n, posted[i].req = q, posted[i].ec = e
          PROVE  Owed(q, e)'
      <4>1. i - 1 \in 1..n - 1 /\ (i - 1) + 1 = i
        BY <1>3, <1>5, <3>1
      <4>2. posted'[i - 1] = posted[i]
        BY <1>3, <4>1
      <4>3. QED
        BY <1>3, <3>1, <4>1, <4>2 DEF Owed
    <3>2. ASSUME NEW i \in 1..n - 1, posted'[i].req = q, posted'[i].ec = e
          PROVE  Owed(q, e)
      <4>1. i + 1 \in 1..n /\ posted'[i] = posted[i + 1]
        BY <1>3
      <4>2. QED
        BY <3>2, <4>1 DEF Owed, n
    <3>3. QED
      BY <1>3, <3>1, <3>2 DEF Owed, n
  <2>2. QED
    BY <1>1, <1>8, <2>1, SameState
<1>11. CASE ec = "aborted"
  <2>1. StateOf(r) = "aborted" /\ StateOf(r)' = "told_aborted"
    BY <1>6, <1>9, <1>11 DEF StatesFit
  <2>2. QED
    BY <1>1, <1>10, <2>1, OneMoves DEF Promise!Deliver
<1>12. CASE ec # "aborted"
  <2>1. ec \in OwnErrors \ {"aborted"} /\ Refused(r)
    BY <1>6, <1>12 DEF Refused
  <2>2. StateOf(r) = "refused" /\ StateOf(r)' = "told_refused"
    BY <1>9, <2>1 DEF StatesFit
  <2>3. QED
    BY <1>1, <1>10, <2>2, OneMoves DEF Promise!Deliver
<1>13. QED
  BY <1>11, <1>12

(* ~Client is Close: it drops what is in flight, and nothing else.         *)
LEMMA DestroyRefines ==
  ASSUME IInv, StatesFit, StatesFit', Destroy
  PROVE  Promise!Close
<1>1. /\ alive /\ alive' = FALSE /\ UNCHANGED <<posted, delivered, started>>
      /\ dropped' = dropped \union {node[h].handler : h \in transfers}
  BY DEF Destroy
<1>2. \A r \in Requests : r \in dropped' <=> r \in dropped \/ InFlight(r)
  BY <1>1 DEF InFlight
<1>3. ASSUME NEW r \in Requests
      PROVE  StateOf(r)' = IF StateOf(r) = "in_flight" THEN "dropped"
                                                       ELSE StateOf(r)
  <2>1. CASE InFlight(r)
    BY <1>2, <2>1, InFlightState DEF StatesFit
  <2>2. CASE ~InFlight(r)
    <3>1. \A e \in OwnErrors : Owed(r, e)' <=> Owed(r, e)
      BY <1>1 DEF Owed
    <3>2. StateOf(r)' = StateOf(r)
      BY <1>1, <1>2, <2>2, <3>1, SameState
    <3>3. StateOf(r) # "in_flight"
      BY <2>2, NotInFlight
    <3>4. QED
      BY <3>2, <3>3
  <2>3. QED
    BY <2>1, <2>2
<1>4. QED
  BY <1>1, <1>3 DEF Promise!Close

(* Every step is one of AsyncRequest's, or none of its business. *)
LEMMA StepRefines ==
  ASSUME IInv, IInv', DeadInv, [Next]_vars
  PROVE  [Promise!Next]_(Promise!vars)
<1>1. StatesFit /\ StatesFit'
  <2>1. IInv' => StatesFit'
    BY StateFacts, PTL
  <2>2. QED
    BY <2>1, StateFacts
<1>2. ASSUME UNCHANGED <<posted, delivered, alive, started, dropped>>
      PROVE  UNCHANGED Promise!vars
  <2>1. \A q \in Requests : StateOf(q)' = StateOf(q)
    <3> SUFFICES ASSUME NEW q \in Requests PROVE StateOf(q)' = StateOf(q)
      OBVIOUS
    <3>1. \A e \in OwnErrors : Owed(q, e)' <=> Owed(q, e)
      BY <1>2 DEF Owed
    <3>2. QED
      BY <1>1, <1>2, <3>1, SameState
  <2>2. QED
    BY <1>2, <2>1 DEF Promise!vars
<1>3. ASSUME NEW r \in Requests, Start(r) PROVE Promise!Next
  BY <1>1, <1>3, StartRefines DEF Promise!Next
<1>4. ASSUME NEW r \in Requests, Cancel(r) PROVE [Promise!Next]_(Promise!vars)
  BY <1>1, <1>4, CancelRefines DEF Promise!Next
<1>5. CASE DrainOne
  BY <1>1, <1>5, DrainRefines DEF Promise!Next
<1>6. CASE RunPosted
  BY <1>1, <1>6, RunPostedRefines DEF Promise!Next
<1>7. CASE Destroy
  BY <1>1, <1>7, DestroyRefines DEF Promise!Next
<1>8. CASE \/ EnterCurl \/ CurlReturn \/ DrainEnd \/ HandlerThrows
           \/ \E h \in Handles : \E res \in Outcomes : CurlDone(h, res)
           \/ \E h \in Handles : OtherMultiReleases(h)
           \/ UNCHANGED vars
  BY <1>2, <1>8 DEF EnterCurl, CurlReturn, DrainEnd, HandlerThrows, CurlDone,
                    OtherMultiReleases, client, history, vars
<1>9. QED
  BY <1>3, <1>4, <1>5, <1>6, <1>7, <1>8 DEF Next

(* The client does nothing AsyncRequest forbids: one step decides how a    *)
(* request ends, what start() and cancel() owe is delivered by a later     *)
(* one, and ~Client drops what is in flight and that only.                 *)
THEOREM KeepsThePromise ==
  Spec => Promise!Init /\ [][Promise!Next]_(Promise!vars)
<1>1. Init => Promise!Init /\ DeadInv
  <2> SUFFICES ASSUME Init PROVE Promise!Init /\ DeadInv
    OBVIOUS
  <2>1. StatesFit
    BY InitInv, StateFacts
  <2>2. \A r \in Requests : StateOf(r) = "idle"
    BY <2>1 DEF Init, StatesFit
  <2>3. QED
    BY <2>2 DEF Init, Promise!Init, DeadInv
<1>2. IInv /\ IInv' /\ DeadInv /\ [Next]_vars => [Promise!Next]_(Promise!vars)
  BY StepRefines
<1>3. QED
  BY <1>1, <1>2, DeadStep, InvHolds, PTL DEF Spec

=============================================================================
