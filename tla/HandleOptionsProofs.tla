------------------------ MODULE HandleOptionsProofs ------------------------
(* The properties of HandleOptions for every set of requests.              *)
EXTENDS HandleOptions, TLAPS

OptsType ==
  [verb : {"GET", "POST"}, custom : {"none", "PUT", "PATCH", "DELETE"},
   postfields : {"none", "own", "stale", "hook"}, size : Int,
   headers : {"none", "own", "stale"}, follow : 0..1,
   hops : Int, extra : {"none", "hook"}, share : {"none", "hook"}]

(* What start() sets field by field, by method and hook: postfields, verb  *)
(* and the rest do not depend on what the handle carried before, save     *)
(* size, extra and share.                                                 *)
LEMMA StartedFields ==
  ASSUME NEW o \in OptsType, NEW r \in Requests
  PROVE  /\ Started(o, r) \in OptsType
         /\ Started(o, r).verb = IF r.method # "GET" \/ r.hook \in {"post", "postfields"}
                                   THEN "POST" ELSE "GET"
         /\ Started(o, r).custom = IF r.method \in {"GET", "POST"}
                                     THEN "none" ELSE r.method
         /\ Started(o, r).postfields = IF r.hook = "postfields" THEN "hook"
                                         ELSE IF r.method = "GET" THEN "none"
                                         ELSE "own"
         /\ Started(o, r).size = IF r.method = "GET" THEN o.size ELSE r.size
         /\ Started(o, r).headers = r.headers
         /\ Started(o, r).follow = IF r.hops # 0 THEN 1 ELSE 0
         /\ Started(o, r).hops = r.hops
         /\ Started(o, r).extra = IF r.hook = "extra" THEN "hook" ELSE o.extra
<1>1. /\ r \in RequestType
      /\ r.hops \in Int /\ r.size \in Int /\ r.headers \in {"none", "own"}
  BY RequestsAssumption DEF RequestType
<1>2. PICK c : c = Common(o, r)
  OBVIOUS
<1>3. /\ c \in OptsType
      /\ c.follow = IF r.hops # 0 THEN 1 ELSE 0
      /\ c.hops = r.hops /\ c.headers = r.headers
      /\ c.verb = o.verb /\ c.size = o.size /\ c.extra = o.extra
  <2>1. PICK f \in 0..1 : f = IF r.hops # 0 THEN 1 ELSE 0
    OBVIOUS
  <2>2. PICK c1 : c1 = [o EXCEPT !.follow = f, !.hops = r.hops]
    OBVIOUS
  <2>3. /\ c1 \in OptsType /\ c1.follow = f /\ c1.hops = r.hops
        /\ c1.verb = o.verb /\ c1.size = o.size /\ c1.extra = o.extra
    BY <1>1, <2>2 DEF OptsType
  <2>4. c = [c1 EXCEPT !.headers = r.headers]
    BY <1>2, <2>1, <2>2 DEF Common
  <2> QED
    BY <1>1, <2>1, <2>3, <2>4 DEF OptsType, RequestType
<1>4. PICK m : m = WithMethod(c, r)
  OBVIOUS
<1>5. /\ m \in OptsType
      /\ m.verb = IF r.method # "GET" THEN "POST" ELSE "GET"
      /\ m.custom = IF r.method \in {"GET", "POST"} THEN "none" ELSE r.method
      /\ m.postfields = IF r.method = "GET" THEN "none" ELSE "own"
      /\ m.size = IF r.method = "GET" THEN o.size ELSE r.size
      /\ m.headers = r.headers /\ m.follow = c.follow
      /\ m.hops = r.hops /\ m.extra = o.extra
  <2>1. CASE r.method = "GET"
    <3>1. PICK d : d = [c EXCEPT !.custom = "none"]
      OBVIOUS
    <3>2. PICK e : e = PostFields(d, "none")
      OBVIOUS
    <3>3. m = [e EXCEPT !.verb = "GET"]
      BY <1>4, <2>1, <3>1, <3>2 DEF WithMethod, Get
    <3>4. /\ d \in OptsType /\ d.custom = "none" /\ d.size = c.size
          /\ d.headers = c.headers /\ d.follow = c.follow
          /\ d.hops = c.hops /\ d.extra = c.extra
      BY <1>3, <3>1 DEF OptsType
    <3>5. /\ e \in OptsType /\ e.postfields = "none" /\ e.custom = d.custom
          /\ e.size = d.size /\ e.headers = d.headers /\ e.follow = d.follow
          /\ e.hops = d.hops /\ e.extra = d.extra
      BY <3>2, <3>4 DEF PostFields, OptsType
    <3> QED
      BY <1>3, <2>1, <3>3, <3>4, <3>5 DEF OptsType
  <2>2. CASE r.method # "GET"
    <3>1. PICK u \in {"none", "PUT", "PATCH", "DELETE"} :
            u = IF r.method = "POST" THEN "none" ELSE r.method
      BY <1>1, <2>2 DEF RequestType, Methods
    <3>2. PICK d : d = [c EXCEPT !.custom = u, !.size = r.size]
      OBVIOUS
    <3>3. m = PostFields(d, "own")
      BY <1>4, <2>2, <3>1, <3>2 DEF WithMethod, WithBody
    <3>4. /\ d \in OptsType /\ d.custom = u /\ d.size = r.size
          /\ d.headers = c.headers /\ d.follow = c.follow
          /\ d.hops = c.hops /\ d.extra = c.extra
      BY <1>1, <1>3, <3>2 DEF OptsType
    <3>5. /\ m \in OptsType /\ m.postfields = "own" /\ m.verb = "POST"
          /\ m.custom = d.custom /\ m.size = d.size
          /\ m.headers = d.headers /\ m.follow = d.follow
          /\ m.hops = d.hops /\ m.extra = d.extra
      BY <3>3, <3>4 DEF PostFields, OptsType
    <3> QED
      BY <1>3, <2>2, <3>1, <3>4, <3>5
  <2> QED
    BY <2>1, <2>2
<1>6. PICK w \in {"none", "hook"} : w = IF r.hook = "share" THEN "hook" ELSE m.share
  BY <1>5 DEF OptsType
<1>7. PICK x \in {"none", "hook"} : x = IF r.hook = "extra" THEN "hook" ELSE m.extra
  BY <1>5 DEF OptsType
<1>8. PICK v \in {"GET", "POST"} :
        v = IF r.hook \in {"post", "postfields"} THEN "POST" ELSE m.verb
  BY <1>5 DEF OptsType
<1>9. PICK p \in {"none", "own", "stale", "hook"} :
        p = IF r.hook = "postfields" THEN "hook" ELSE m.postfields
  BY <1>5 DEF OptsType
<1>10. PICK m1 : m1 = [m EXCEPT !.extra = x, !.share = w]
  OBVIOUS
<1>11. PICK m2 : m2 = [m1 EXCEPT !.verb = v, !.postfields = p]
  OBVIOUS
<1>12. PICK s : s = Started(o, r)
  OBVIOUS
<1>13. s = m2
  BY <1>2, <1>4, <1>5, <1>6, <1>7, <1>8, <1>9, <1>10, <1>11, <1>12
     DEF Started, Hooked, OptsType
<1>14. /\ m1 \in OptsType /\ m1.extra = x
       /\ m1.custom = m.custom /\ m1.size = m.size /\ m1.headers = m.headers
       /\ m1.follow = m.follow /\ m1.hops = m.hops
  BY <1>5, <1>10 DEF OptsType
<1>15. /\ m2 \in OptsType /\ m2.extra = x /\ m2.verb = v /\ m2.postfields = p
       /\ m2.custom = m.custom /\ m2.size = m.size /\ m2.headers = m.headers
       /\ m2.follow = m.follow /\ m2.hops = m.hops
  BY <1>11, <1>14 DEF OptsType
<1> QED
  BY <1>3, <1>5, <1>7, <1>8, <1>9, <1>12, <1>13, <1>15

(* What configure_handle sets are options, none of them extra.             *)
LEMMA ConfiguredType == Configured \in OptsType /\ Configured.extra = "none"
BY DEF Configured, OptsType

(* Nor is any that is left after a reset.                                  *)
LEMMA ScrubbedType ==
  ASSUME NEW o \in OptsType
  PROVE  Scrubbed(o) \in OptsType /\ Scrubbed(o).extra = "none"
BY DEF Scrubbed, Configured, OptsType

(* Two handles without a leftover extra option start a request alike. *)
LEMMA StartedAlike ==
  ASSUME NEW o \in OptsType, NEW p \in OptsType, NEW r \in Requests,
         o.extra = "none", p.extra = "none"
  PROVE  But(Started(o, r)) = But(Started(p, r))
<1>1. PICK x : x = Started(o, r)
  OBVIOUS
<1>2. PICK y : y = Started(p, r)
  OBVIOUS
<1>3. x \in OptsType /\ y \in OptsType
  BY <1>1, <1>2, StartedFields
<1>4. /\ x.verb = y.verb /\ x.custom = y.custom /\ x.postfields = y.postfields
      /\ x.headers = y.headers /\ x.hops = y.hops
      /\ x.follow = y.follow /\ x.extra = y.extra
  BY <1>1, <1>2, StartedFields
<1> QED
  BY <1>1, <1>2, <1>3, <1>4 DEF But, OptsType

(* The invariant holds of a new handle.                                    *)
LEMMA InvInit == Init => IInv
BY NoneAssumption
  DEF Init, IInv, TypeOK, Configured, SameAsFresh, NothingDangles,
      SendsWhatWasAsked, ExtraIsReset

(* start() keeps it.                                                       *)
LEMMA InvStart ==
  ASSUME IInv, NEW r \in Requests, Start(r)
  PROVE  IInv'
<1>1. /\ opts \in OptsType /\ opts.extra = "none"
      /\ current' = r /\ opts' = Started(opts, r)
  BY DEF IInv, TypeOK, OptsType, ExtraIsReset, Start
<1>2. r # None /\ r \in RequestType
  BY RequestsAssumption, NoneAssumption
<1>3. opts' \in OptsType
  BY <1>1, StartedFields
<1>4. TypeOK'
  BY <1>1, <1>3 DEF TypeOK, OptsType
<1>5. SameAsFresh'
  BY <1>1, ConfiguredType, StartedAlike DEF SameAsFresh
<1>6. NothingDangles'
  <2>1. r.headers # "stale"
    BY <1>2 DEF RequestType
  <2>2. /\ opts'.headers = r.headers
        /\ opts'.postfields = IF r.hook = "postfields" THEN "hook"
                               ELSE IF r.method = "GET" THEN "none" ELSE "own"
    BY <1>1, StartedFields
  <2> QED
    BY <2>1, <2>2 DEF NothingDangles
<1>7. SendsWhatWasAsked'
  <2>1. /\ opts'.verb = IF r.method # "GET" \/ r.hook \in {"post", "postfields"}
                           THEN "POST" ELSE "GET"
        /\ opts'.custom = IF r.method \in {"GET", "POST"} THEN "none" ELSE r.method
        /\ opts'.postfields = IF r.hook = "postfields" THEN "hook"
                               ELSE IF r.method = "GET" THEN "none" ELSE "own"
        /\ opts'.size = IF r.method = "GET" THEN opts.size ELSE r.size
    BY <1>1, StartedFields
  <2>2. r.method \in Methods
    BY <1>2 DEF RequestType
  <2> QED
    BY <1>1, <2>1, <2>2 DEF SendsWhatWasAsked, RequestMethod, SendsBody, Methods
<1>8. ExtraIsReset'
  BY <1>1, <1>2 DEF ExtraIsReset
<1> QED
  BY <1>4, <1>5, <1>6, <1>7, <1>8 DEF IInv

(* A completion that pools the handle keeps it.                            *)
LEMMA InvFinish ==
  ASSUME IInv, Finish
  PROVE  IInv'
<1>1. /\ opts \in OptsType /\ current \in Requests /\ current # None
      /\ current' = None
      /\ opts' = IF current.hook # "none" THEN Scrubbed(opts) ELSE Outlived(opts)
  BY DEF IInv, TypeOK, OptsType, Finish
<1>2. SameAsFresh' /\ NothingDangles' /\ SendsWhatWasAsked'
  BY <1>1 DEF SameAsFresh, NothingDangles, SendsWhatWasAsked
<1>3. CASE current.hook # "none"
  BY <1>1, <1>2, <1>3, ScrubbedType DEF IInv, TypeOK, OptsType, ExtraIsReset
<1>4. CASE current.hook = "none"
  <2>1. opts' = Outlived(opts)
    BY <1>1, <1>4
  <2>2. opts' \in OptsType /\ opts'.extra = opts.extra
    BY <1>1, <2>1 DEF Outlived, OptsType
  <2>3. PICK f : f = Started(Configured, current)
    OBVIOUS
  <2>4. f \in OptsType /\ f.extra = "none"
    BY <1>1, <1>4, <2>3, ConfiguredType, StartedFields
  <2>5. But(opts) = But(f)
    BY <1>1, <2>3 DEF IInv, SameAsFresh
  <2>6. opts.extra = "none"
    BY <1>1, <2>4, <2>5 DEF But, OptsType
  <2>7. TypeOK' /\ ExtraIsReset'
    BY <1>1, <2>2, <2>6 DEF TypeOK, OptsType, ExtraIsReset
  <2> QED
    BY <1>2, <2>7 DEF IInv
<1> QED
  BY <1>3, <1>4

(* The inductive invariant: every way of ending a request leaves a handle  *)
(* that starts the next one like a new handle. *)
THEOREM InvHolds == Spec => []IInv
<1>1. IInv /\ [Next]_vars => IInv'
  <2> SUFFICES ASSUME IInv, [Next]_vars PROVE IInv'
    OBVIOUS
  <2>1. CASE \E r \in Requests : Start(r)
    BY <2>1, InvStart
  <2>2. CASE Finish
    BY <2>2, InvFinish
  <2>3. CASE Replace
    BY <2>3, ConfiguredType, ScrubbedType
      DEF Replace, IInv, TypeOK, OptsType, SameAsFresh, NothingDangles,
          SendsWhatWasAsked, ExtraIsReset
  <2>4. CASE UNCHANGED vars
    BY <2>4 DEF vars, IInv, TypeOK, SameAsFresh, NothingDangles,
                SendsWhatWasAsked, ExtraIsReset
  <2> QED
    BY <2>1, <2>2, <2>3, <2>4 DEF Next
<1> QED
  BY <1>1, InvInit, PTL DEF Spec

(* A pooled handle sends what a new one would, POSTFIELDSIZE aside: the    *)
(* options start() sets, in the order it sets them, leave nothing of any   *)
(* earlier request, however many there were. *)
THEOREM ReuseIsFresh == Spec => []SameAsFresh
<1>1. IInv => SameAsFresh
  BY DEF IInv
<1> QED
  BY <1>1, InvHolds, PTL

(* No option of a request in flight points into an earlier transfer. *)
THEOREM NoDangling == Spec => []NothingDangles
<1>1. IInv => NothingDangles
  BY DEF IInv
<1> QED
  BY <1>1, InvHolds, PTL

(* The options keep their types: configure_handle(), start(), a hook and   *)
(* retire() set nothing else. *)
THEOREM TypeCorrect == Spec => []TypeOK
<1>1. IInv => TypeOK
  BY DEF IInv
<1> QED
  BY <1>1, InvHolds, PTL

(* A request goes out with its own method and body, whatever the handle    *)
(* sent before and in whichever order earlier requests came.               *)
THEOREM SentAsAsked == Spec => []SendsWhatWasAsked
<1>1. IInv => SendsWhatWasAsked
  BY DEF IInv
<1> QED
  BY <1>1, InvHolds, PTL

=============================================================================
