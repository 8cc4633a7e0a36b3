---- MODULE VirtualDevicesProofs ----
(***************************************************************************)
(* Proofs about VirtualDevices, for every set of serials and parameters,   *)
(* any number of requests and of failed PUTs.                              *)
(***************************************************************************)
EXTENDS VirtualDevices, TLAPS

----------------------------------------------------------------------------
(* The invariants, strengthened.  All but the types are about a bridge that *)
(* runs (a shutdown is not taken back), and about one serial.               *)

Running == phase = "running"

Request == [serial : Serials, param : Params]

Types ==
    /\ phase \in {"running", "closing", "closed"}
    /\ asked \in [Requests -> Request \cup {None}]
    /\ put \in [Requests -> [Kinds -> {"none", "sent", "done", "failed"}]]
    /\ keeper \in [Requests -> {"none", "sleeping", "waiting", "ended"}]
    /\ tasks \in [Serials -> Requests \cup {0}]
    /\ device \in [Serials -> Params \cup {Gone}]
    /\ age \in [Serials -> {0, 1}]
    /\ chosen \in [Serials -> Requests \cup {0}]

\* The requests for serial s; a create PUT of it is under way; a PUT of a
\* keepalive of it, other than that of request o, may still be executed.
For(s) == {r \in Ran : SerialOf(r) = s}
UnderWay(r) == put[r]["create"] \in {"sent", "done"}
Creating(s) == \E r \in For(s) : UnderWay(r)
KeepSent(s, o) == \E r \in For(s) : r # o /\ put[r]["keep"] = "sent"

\* A request that was not made has no task.
Unasked == \A r \in Requests \ Ran : keeper[r] = "none" /\ \A k \in Kinds : put[r][k] = "none"

\* A serial has the keepalive of the request that was acknowledged last, unless
\* that wants no expiry, and no other.
TaskOf(s) ==
    /\ chosen[s] # 0 => chosen[s] \in For(s)
    /\ tasks[s] = IF chosen[s] = 0 \/ Lasting(chosen[s]) THEN 0 ELSE chosen[s]
    /\ \A r \in For(s) : Awake(r) => tasks[s] = r

\* Where no PUTs crossed a create PUT is alone; where they did and one wants no
\* expiry, that is remembered.
CreateOf(s) ==
    \A r \in For(s) :
        /\ put[r]["create"] = "done" => device[s] # Gone /\ age[s] = 0
        /\ UnderWay(r) /\ s \in crossed => ~Lasting(r) \/ s \in replaced
        /\ UnderWay(r) /\ s \notin crossed =>
              /\ \A q \in For(s) : UnderWay(q) => q = r
              /\ ~KeepSent(s, 0)
              /\ put[r]["create"] = "done" => device[s] = asked[r].param

\* A keepalive that waits is the only one with a PUT under way; without a
\* crossing none of a replaced request has one.
KeepOf(s) ==
    /\ \A r \in For(s) : keeper[r] = "waiting" => ~KeepSent(s, r)
    /\ s \notin crossed => ~KeepSent(s, tasks[s])
    /\ chosen[s] # 0 /\ Lasting(chosen[s]) /\ s \notin replaced => ~KeepSent(s, 0)

\* The keepalive of a device is alive and in time.
AwakeOf(s) ==
    chosen[s] # 0 /\ ~Lasting(chosen[s]) /\ s \notin failed =>
        \/ keeper[chosen[s]] = "sleeping" /\ age[s] = 0
        \/ keeper[chosen[s]] = "waiting" /\ put[chosen[s]]["keep"] = "sent"
        \/ keeper[chosen[s]] = "waiting" /\ put[chosen[s]]["keep"] = "done" /\ age[s] = 0

\* The device is there; without a creation under way it is as acknowledged,
\* where no PUTs crossed or none can undo it.
DeviceOf(s) ==
    chosen[s] # 0 /\ s \notin failed =>
        /\ s \notin replaced => device[s] # Gone
        /\ ~Creating(s) /\ s \notin replaced /\ (s \notin crossed \/ Lasting(chosen[s]))
              => device[s] = asked[chosen[s]].param
        /\ ~Creating(s) /\ keeper[chosen[s]] = "waiting" /\ put[chosen[s]]["keep"] = "done"
              => device[s] = asked[chosen[s]].param

SerialInv(s) == TaskOf(s) /\ CreateOf(s) /\ KeepOf(s) /\ AwakeOf(s) /\ DeviceOf(s)

IInv ==
    /\ Types
    /\ Running => Unasked /\ \A s \in Serials : SerialInv(s)

----------------------------------------------------------------------------
(* Types.                                                                  *)

USE ParamsAssumption, BoundsAssumption
USE DEF bridge, atSysap, history, Kinds

\* The requests are numbered, and none is the number 0.
LEMMA RequestsFacts == 0 \notin Requests /\ Requests \subseteq Nat
  BY DEF Requests

\* What a request asks for.
LEMMA Asks ==
    ASSUME Types, NEW r \in Ran
    PROVE  /\ r \in Requests /\ r # 0
           /\ SerialOf(r) \in Serials /\ asked[r].param \in Params /\ asked[r].param # Gone
  BY RequestsFacts DEF Types, Ran, SerialOf, Request

\* One PUT changes.
LEMMA PutChanges ==
    ASSUME Types, NEW r \in Requests, NEW k \in Kinds, NEW v \in {"none", "sent", "done", "failed"},
           put' = [put EXCEPT ![r][k] = v]
    PROVE  /\ put' \in [Requests -> [Kinds -> {"none", "sent", "done", "failed"}]]
           /\ put'[r][k] = v
           /\ \A q \in Requests, j \in Kinds : q # r \/ j # k => put'[q][j] = put[q][j]
  BY DEF Types

LEMMA InitTypes == Init => Types /\ Unasked
  BY DEF Init, Types, Unasked, Ran, Kinds

LEMMA TypeStep == Types /\ [Next]_vars => Types'
<1> SUFFICES ASSUME Types, [Next]_vars PROVE Types'
  OBVIOUS
<1>1. CASE Create
  <2>1. PICK r \in Requests, s \in Serials, p \in Params :
            /\ asked' = [asked EXCEPT ![r] = [serial |-> s, param |-> p]]
            /\ put' = [put EXCEPT ![r]["create"] = "sent"]
    BY <1>1 DEF Create
  <2>2. put' \in [Requests -> [Kinds -> {"none", "sent", "done", "failed"}]]
    BY <2>1, PutChanges
  <2>3. asked' \in [Requests -> Request \cup {None}]
    BY <2>1 DEF Types, Request
  <2> QED BY <1>1, <2>2, <2>3 DEF Create, Types
<1>2. CASE Execute
  <2>1. PICK r \in Ran, k \in Kinds :
            /\ put' = [put EXCEPT ![r][k] = "done"]
            /\ device' = [device EXCEPT ![SerialOf(r)] = asked[r].param]
            /\ age' = [age EXCEPT ![SerialOf(r)] = 0]
    BY <1>2 DEF Execute, InFlight
  <2>2. put' \in [Requests -> [Kinds -> {"none", "sent", "done", "failed"}]]
    BY <2>1, Asks, PutChanges
  <2> QED BY <1>2, <2>1, <2>2, Asks DEF Execute, Types
<1>3. ASSUME NEW r \in Ran, NEW k \in Kinds, NEW v \in {"none", "sent", "done", "failed"},
             put' = [put EXCEPT ![r][k] = v],
             UNCHANGED <<phase, asked, device, age>>,
             keeper' \in [Requests -> {"none", "sleeping", "waiting", "ended"}],
             tasks' \in [Serials -> Requests \cup {0}], chosen' \in [Serials -> Requests \cup {0}]
      PROVE  Types'
  <2>1. put' \in [Requests -> [Kinds -> {"none", "sent", "done", "failed"}]]
    BY <1>3, Asks, PutChanges
  <2> QED BY <1>3, <2>1 DEF Types
<1>4. CASE Fault \/ CreateFails \/ Kept
  BY <1>3, <1>4 DEF Fault, CreateFails, Kept, Types
<1>5. CASE Created
  <2>1. PICK r \in Ran :
            /\ put' = [put EXCEPT ![r]["create"] = "none"]
            /\ Start(r)
            /\ chosen' = [chosen EXCEPT ![SerialOf(r)] = r]
    BY <1>5 DEF Created
  <2>2. r \in Requests /\ SerialOf(r) \in Serials
    BY Asks
  <2>3. chosen' \in [Serials -> Requests \cup {0}] /\ tasks' \in [Serials -> Requests \cup {0}]
    BY <2>1, <2>2 DEF Types, Start
  <2>4. \A q : Cancelled(q) \in [Requests -> {"none", "sleeping", "waiting", "ended"}]
    BY DEF Cancelled, Types
  <2>5. keeper' \in [Requests -> {"none", "sleeping", "waiting", "ended"}]
    BY <2>1, <2>4 DEF Start, Types
  <2> QED BY <1>3, <1>5, <2>1, <2>3, <2>5 DEF Created
<1>6. CASE KeeperDies
  BY <1>6 DEF KeeperDies, Types
<1>7. CASE HalfTtl
  <2>1. \A r \in Requests, v \in {"sent", "failed"} :
           [put[r] EXCEPT !["keep"] = v] \in [Kinds -> {"none", "sent", "done", "failed"}]
    BY DEF Types
  <2>2. put' \in [Requests -> [Kinds -> {"none", "sent", "done", "failed"}]]
    BY <1>7, <2>1 DEF HalfTtl, Types
  <2>3. /\ device' \in [Serials -> Params \cup {Gone}] /\ age' \in [Serials -> {0, 1}]
        /\ keeper' \in [Requests -> {"none", "sleeping", "waiting", "ended"}]
    BY <1>7 DEF HalfTtl, Types
  <2> QED BY <1>7, <2>2, <2>3 DEF HalfTtl, Types
<1>8. CASE StopKeepalives
  BY <1>8 DEF StopKeepalives, Types
<1>9. CASE Close
  BY <1>9 DEF Close, Types
<1>10. CASE UNCHANGED vars
  BY <1>10 DEF vars, Types
<1> QED BY <1>1, <1>2, <1>4, <1>5, <1>6, <1>7, <1>8, <1>9, <1>10 DEF Next

\* Only Create makes a request, and all the others leave what is asked alone.
LEMMA AskedStays ==
    ASSUME Execute \/ Fault \/ Created \/ CreateFails \/ Kept \/ KeeperDies \/ HalfTtl
    PROVE  /\ asked' = asked /\ phase' = phase /\ Ran' = Ran
           /\ \A s : For(s)' = For(s)
           /\ \A r : SerialOf(r)' = SerialOf(r) /\ (Lasting(r)' <=> Lasting(r))
<1>1. asked' = asked /\ phase' = phase
  BY DEF Execute, Fault, Created, CreateFails, Kept, KeeperDies, HalfTtl
<1> QED BY <1>1 DEF Ran, For, SerialOf, Lasting

LEMMA UnaskedStep == Types /\ Unasked /\ Running' /\ [Next]_vars => Unasked'
<1> SUFFICES ASSUME Types, Unasked, Running', [Next]_vars PROVE Unasked'
  OBVIOUS
<1>1. CASE Create
  <2>1. PICK r \in Requests, s \in Serials, p \in Params :
            /\ asked' = [asked EXCEPT ![r] = [serial |-> s, param |-> p]]
            /\ put' = [put EXCEPT ![r]["create"] = "sent"]
            /\ keeper' = keeper
    BY <1>1 DEF Create
  <2>2. \A q \in Requests, j \in Kinds : q # r => put'[q][j] = put[q][j]
    BY <2>1, PutChanges
  <2>3. r \in Ran' /\ Ran \subseteq Ran'
    BY <2>1 DEF Ran, Types
  <2> QED BY <2>1, <2>2, <2>3 DEF Unasked
<1>2. ASSUME NEW r \in Ran, NEW k \in Kinds, NEW v \in {"none", "sent", "done", "failed"},
             put' = [put EXCEPT ![r][k] = v], Ran' = Ran,
             \A q \in Requests \ Ran : keeper[q] = "none" => keeper'[q] = "none"
      PROVE  Unasked'
  <2>1. r \in Requests /\ \A q \in Requests, j \in Kinds : q # r => put'[q][j] = put[q][j]
    BY <1>2, Asks, PutChanges
  <2> QED BY <1>2, <2>1 DEF Unasked
<1>3. CASE Execute
  BY <1>2, <1>3, AskedStays DEF Execute, InFlight
<1>4. CASE Fault \/ CreateFails
  BY <1>2, <1>4, AskedStays DEF Fault, CreateFails
<1>5. CASE Created
  <2>1. PICK r \in Ran : put' = [put EXCEPT ![r]["create"] = "none"] /\ Start(r)
    BY <1>5 DEF Created
  <2>2. \A q \in Requests \ Ran : keeper[q] = "none" => keeper'[q] = "none"
    BY <2>1 DEF Start, Cancelled, Awake, Types
  <2> QED BY <1>2, <1>5, <2>1, <2>2, AskedStays
<1>6. CASE Kept
  BY <1>2, <1>6, AskedStays DEF Kept, Types
<1>7. CASE KeeperDies
  BY <1>7, AskedStays DEF KeeperDies, Unasked, Types
<1>8. CASE HalfTtl
  BY <1>8, AskedStays DEF HalfTtl, Due, Unasked, Types
<1>9. CASE StopKeepalives \/ Close
  BY <1>9 DEF StopKeepalives, Close, Running
<1>10. CASE UNCHANGED vars
  BY <1>10 DEF vars, Unasked, Ran
<1> QED BY <1>1, <1>3, <1>4, <1>5, <1>6, <1>7, <1>8, <1>9, <1>10 DEF Next

LEMMA Typed == Spec => []Types
<1> QED BY InitTypes, TypeStep, PTL DEF Spec

----------------------------------------------------------------------------
(* What a step leaves alone.                                               *)

\* The requests for serial s, and what the bridge and the SysAP have of it.
Untouched(s) ==
    /\ For(s)' = For(s)
    /\ \A r \in For(s) :
          /\ keeper'[r] = keeper[r] /\ asked'[r] = asked[r]
          /\ \A k \in Kinds : put'[r][k] = put[r][k]
    /\ tasks'[s] = tasks[s] /\ chosen'[s] = chosen[s]
    /\ device'[s] = device[s] /\ age'[s] = age[s]
    /\ s \in failed' <=> s \in failed
    /\ s \in crossed' <=> s \in crossed
    /\ s \in replaced' <=> s \in replaced

LEMMA Stays ==
    ASSUME NEW s, SerialInv(s), Untouched(s)
    PROVE  SerialInv(s)'
<1> USE DEF SerialInv, Untouched
<1>1. /\ Creating(s)' <=> Creating(s)
      /\ \A o : KeepSent(s, o)' <=> KeepSent(s, o)
      /\ \A r \in For(s) : (UnderWay(r)' <=> UnderWay(r)) /\ (Lasting(r)' <=> Lasting(r)) /\ (Awake(r)' <=> Awake(r))
  BY DEF Creating, KeepSent, UnderWay, Lasting, Awake
<1>2. TaskOf(s)'
  BY <1>1 DEF TaskOf
<1>3. CreateOf(s)'
  BY <1>1 DEF CreateOf
<1>4. KeepOf(s)'
  BY <1>1 DEF KeepOf, TaskOf
<1>5. AwakeOf(s)'
  BY <1>1 DEF AwakeOf, TaskOf
<1>6. DeviceOf(s)'
  BY <1>1 DEF DeviceOf, TaskOf
<1> QED BY <1>2, <1>3, <1>4, <1>5, <1>6

\* The serials a step on one request is not about.
LEMMA OtherSerials ==
    ASSUME Types, NEW r \in Ran, NEW s \in Serials, s # SerialOf(r),
           asked' = asked,
           \A q \in Requests \ {r} : \A k \in Kinds : put'[q][k] = put[q][k],
           \A q \in For(s) : keeper'[q] = keeper[q],
           tasks'[s] = tasks[s], chosen'[s] = chosen[s],
           device'[s] = device[s], age'[s] = age[s],
           s \in failed' <=> s \in failed,
           s \in crossed' <=> s \in crossed,
           s \in replaced' <=> s \in replaced
    PROVE  Untouched(s)
<1>1. For(s)' = For(s) /\ r \notin For(s) /\ For(s) \subseteq Requests
  BY DEF For, Ran, SerialOf
<1> QED BY <1>1 DEF Untouched

----------------------------------------------------------------------------
(* The steps of a running bridge, one by one.                              *)

LEMMA CreateKeeps ==
    ASSUME Types, Unasked, \A s \in Serials : SerialInv(s), Create, NEW t \in Serials
    PROVE  SerialInv(t)'
<1>1. PICK r \in Requests, s \in Serials, p \in Params :
          /\ asked[r] = None
          /\ asked' = [asked EXCEPT ![r] = [serial |-> s, param |-> p]]
          /\ put' = [put EXCEPT ![r]["create"] = "sent"]
          /\ Crossing(s, p \in Forever)
          /\ UNCHANGED <<keeper, tasks, device, age, chosen, failed>>
  BY DEF Create
<1>2. /\ r \notin Ran /\ Ran' = Ran \cup {r} /\ asked'[r].serial = s /\ asked'[r].param = p
      /\ \A q \in Ran : asked'[q] = asked[q]
      /\ put'[r]["create"] = "sent" /\ put'[r]["keep"] = put[r]["keep"]
      /\ \A q \in Requests, k \in Kinds : q # r => put'[q][k] = put[q][k]
  BY <1>1, PutChanges DEF Ran, Types, Request
<1>3. put'[r]["keep"] = "none" /\ keeper[r] = "none"
  BY <1>2 DEF Unasked
<1>4. /\ For(t)' = IF t = s THEN For(t) \cup {r} ELSE For(t)
      /\ r \notin For(t) /\ For(t) \subseteq Ran
  BY <1>2 DEF For, SerialOf
<1>5. CASE t # s
  <2>1. Untouched(t)
    BY <1>1, <1>2, <1>4, <1>5 DEF Untouched, Crossing, Ran
  <2> QED BY <2>1, Stays
<1>6. CASE t = s
  <2> DEFINE others == {q \in For(t) : UnderWay(q) \/ put[q]["keep"] = "sent"}
  <2>1. /\ t \in crossed' <=> others # {}
        /\ t \in replaced' <=> t \in replaced \/ (others # {} /\ \E q \in others : Lasting(q) \/ p \in Forever)
    <3>1. others = {q \in Ran : SerialOf(q) = s /\
                       (put[q]["create"] \in {"sent", "done"} \/ put[q]["keep"] = "sent")}
      BY <1>6 DEF For, UnderWay
    <3> HIDE DEF others
    <3> QED BY <1>1, <1>6, <3>1 DEF Crossing
  <2>2. /\ \A q \in For(t) : /\ q \in For(t)' /\ q # r /\ (UnderWay(q)' <=> UnderWay(q))
                             /\ (Lasting(q)' <=> Lasting(q)) /\ (Awake(q)' <=> Awake(q))
                             /\ asked'[q] = asked[q]
                             /\ put'[q]["keep"] = put[q]["keep"] /\ put'[q]["create"] = put[q]["create"]
        /\ r \in For(t)' /\ UnderWay(r)' /\ ~Awake(r)' /\ (Lasting(r)' <=> p \in Forever)
        /\ \A q \in For(t)' : q \in For(t) \/ q = r
    BY <1>1, <1>2, <1>3, <1>4, <1>6 DEF UnderWay, Lasting, Awake, Ran
  <2>3. Creating(t)' /\ \A o : KeepSent(t, o)' <=> KeepSent(t, o)
    BY <1>3, <2>2 DEF Creating, KeepSent
  <2>4. t \notin crossed' => ~KeepSent(t, 0) /\ \A q \in For(t) : ~UnderWay(q)
    BY <2>1 DEF KeepSent
  <2>5. t \notin replaced' => t \notin replaced
    BY <2>1
  <2> HIDE DEF others
  <2>6. SerialInv(t) /\ UNCHANGED <<keeper, tasks, device, age, chosen, failed>>
    BY <1>1
  <2> USE DEF SerialInv
  <2>7. TaskOf(t)'
    BY <2>2, <2>6 DEF TaskOf
  <2>8. CreateOf(t)'
    <3>1. put'[r]["create"] = "sent"
      BY <1>2
    <3>2. t \in crossed' /\ p \in Forever => t \in replaced'
      BY <2>1
    <3>3. ASSUME NEW q \in For(t), UnderWay(q) PROVE t \in crossed' /\ (Lasting(q) => t \in replaced')
      <4>1. q \in others
        BY <3>3 DEF others
      <4> QED BY <2>1, <4>1
    <3> SUFFICES ASSUME NEW q \in For(t)'
                 PROVE  /\ put'[q]["create"] = "done" => device'[t] # Gone /\ age'[t] = 0
                        /\ UnderWay(q)' /\ t \in crossed' => ~Lasting(q)' \/ t \in replaced'
                        /\ UnderWay(q)' /\ t \notin crossed' =>
                              /\ \A u \in For(t)' : UnderWay(u)' => u = q
                              /\ ~KeepSent(t, 0)'
                              /\ put'[q]["create"] = "done" => device'[t] = asked'[q].param
      BY DEF CreateOf
    <3>4. CASE q = r
      BY <2>2, <2>3, <2>4, <3>1, <3>2, <3>4
    <3>5. CASE q # r
      BY <2>2, <2>6, <3>3, <3>5 DEF CreateOf
    <3> QED BY <3>4, <3>5
  <2>9. KeepOf(t)'
    <3>1. \A q \in For(t)' : keeper'[q] = "waiting" => q \in For(t) /\ keeper[q] = "waiting"
      BY <1>3, <2>2, <2>6
    <3>2. ~KeepSent(t, 0) => ~KeepSent(t, tasks[t])
      BY <2>2, Asks DEF KeepSent, For
    <3> QED BY <2>2, <2>3, <2>4, <2>5, <2>6, <3>1, <3>2 DEF KeepOf, TaskOf
  <2>10. AwakeOf(t)'
    BY <2>2, <2>6 DEF AwakeOf, TaskOf
  <2>11. DeviceOf(t)'
    BY <2>2, <2>3, <2>5, <2>6 DEF DeviceOf, TaskOf
  <2> QED BY <2>7, <2>8, <2>9, <2>10, <2>11
<1> QED BY <1>5, <1>6

LEMMA ExecuteKeeps ==
    ASSUME Types, \A s \in Serials : SerialInv(s), Execute, NEW t \in Serials
    PROVE  SerialInv(t)'
<1>1. PICK r \in Ran, k \in Kinds :
          /\ put[r][k] = "sent"
          /\ put' = [put EXCEPT ![r][k] = "done"]
          /\ device' = [device EXCEPT ![SerialOf(r)] = asked[r].param]
          /\ age' = [age EXCEPT ![SerialOf(r)] = 0]
          /\ UNCHANGED <<asked, keeper, tasks, chosen, failed, crossed, replaced>>
  BY DEF Execute, InFlight
<1>2. /\ r \in Requests /\ r # 0 /\ SerialOf(r) \in Serials /\ asked[r].param # Gone
      /\ put'[r][k] = "done"
      /\ \A q \in Requests, j \in Kinds : q # r \/ j # k => put'[q][j] = put[q][j]
  <2>1. /\ r \in Requests /\ r # 0 /\ SerialOf(r) \in Serials /\ asked[r].param # Gone
    BY Asks
  <2> QED BY <1>1, <2>1 DEF Types
<1>3. CASE t # SerialOf(r)
  <2>1. Untouched(t)
    BY <1>1, <1>2, <1>3, OtherSerials DEF Types
  <2> QED BY <2>1, Stays
<1>4. CASE t = SerialOf(r)
  <2>1. /\ For(t)' = For(t) /\ r \in For(t) /\ For(t) \subseteq Requests
        /\ \A q : (Lasting(q)' <=> Lasting(q)) /\ (Awake(q)' <=> Awake(q))
        /\ device'[t] = asked[r].param /\ device'[t] # Gone /\ age'[t] = 0
    BY <1>1, <1>2, <1>4 DEF For, Ran, SerialOf, Lasting, Awake, Types
  <2>2. \A q \in For(t) : UnderWay(q)' <=> UnderWay(q)
    BY <1>1, <1>2, <2>1 DEF UnderWay
  <2>3. /\ Creating(t)' <=> Creating(t)
        /\ \A o : KeepSent(t, o)' => KeepSent(t, o)
    <3>1. \A q \in For(t) : put'[q]["keep"] = "sent" => put[q]["keep"] = "sent"
      BY <1>2, <2>1
    <3> QED BY <2>1, <2>2, <3>1 DEF Creating, KeepSent
  <2>4. k = "create" => UnderWay(r) /\ Creating(t)
    BY <1>1, <2>1 DEF UnderWay, Creating
  <2>5. k = "keep" => \A o : o # r => KeepSent(t, o)
    BY <1>1, <2>1 DEF KeepSent
  <2>6. SerialInv(t)
    OBVIOUS
  <2> USE DEF SerialInv
  <2>7. TaskOf(t)'
    BY <1>1, <2>1, <2>6 DEF TaskOf
  <2>8. CreateOf(t)'
    <3> SUFFICES ASSUME NEW q \in For(t)
                 PROVE  /\ put'[q]["create"] = "done" => device'[t] # Gone /\ age'[t] = 0
                        /\ UnderWay(q)' /\ t \in crossed' => ~Lasting(q)' \/ t \in replaced'
                        /\ UnderWay(q)' /\ t \notin crossed' =>
                              /\ \A u \in For(t)' : UnderWay(u)' => u = q
                              /\ ~KeepSent(t, 0)'
                              /\ put'[q]["create"] = "done" => device'[t] = asked'[q].param
      BY <2>1 DEF CreateOf
    <3>1. UnderWay(q) /\ t \in crossed => ~Lasting(q) \/ t \in replaced
      BY <2>6 DEF CreateOf
    <3>2. UnderWay(q) /\ t \notin crossed => (\A u \in For(t) : UnderWay(u) => u = q) /\ ~KeepSent(t, 0)
      BY <2>6 DEF CreateOf
    <3>3. UnderWay(q) /\ t \notin crossed => q = r
      BY <1>2, <2>1, <2>4, <2>5, <3>2
    <3> QED BY <1>1, <2>1, <2>2, <2>3, <3>1, <3>2, <3>3
  <2>9. KeepOf(t)'
    BY <1>1, <2>1, <2>3, <2>6 DEF KeepOf
  <2>10. AwakeOf(t)'
    <3>1. ASSUME chosen[t] # 0, ~Lasting(chosen[t]), t \notin failed
          PROVE  \/ keeper'[chosen[t]] = "sleeping" /\ age'[t] = 0
                 \/ keeper'[chosen[t]] = "waiting" /\ put'[chosen[t]]["keep"] = "sent"
                 \/ keeper'[chosen[t]] = "waiting" /\ put'[chosen[t]]["keep"] = "done" /\ age'[t] = 0
      <4>1. chosen[t] \in Requests
        BY <2>1, <2>6, <3>1 DEF TaskOf
      <4>2. put'[chosen[t]]["keep"] \in {put[chosen[t]]["keep"], "done"}
        BY <1>2, <4>1
      <4> QED BY <1>1, <2>1, <2>6, <3>1, <4>2 DEF AwakeOf
    <3> QED BY <1>1, <2>1, <3>1 DEF AwakeOf
  <2>11. DeviceOf(t)'
    <3>1. ASSUME chosen[t] # 0, ~Creating(t), t \notin replaced, t \notin crossed \/ Lasting(chosen[t])
          PROVE  r = chosen[t]
      BY <1>2, <2>4, <2>5, <2>6, <3>1 DEF KeepOf, TaskOf
    <3>2. ASSUME chosen[t] # 0, ~Creating(t), keeper[chosen[t]] = "waiting"
          PROVE  r = chosen[t]
      BY <2>4, <2>5, <2>6, <3>2 DEF KeepOf, TaskOf
    <3> QED BY <1>1, <2>1, <2>3, <3>1, <3>2 DEF DeviceOf
  <2> QED BY <2>7, <2>8, <2>9, <2>10, <2>11
<1> QED BY <1>3, <1>4

LEMMA FaultKeeps ==
    ASSUME Types, \A s \in Serials : SerialInv(s), Fault, NEW t \in Serials
    PROVE  SerialInv(t)'
<1>1. PICK r \in Ran, k \in Kinds :
          /\ put[r][k] \in {"sent", "done"}
          /\ put' = [put EXCEPT ![r][k] = "failed"]
          /\ failed' = failed \cup {SerialOf(r)}
          /\ UNCHANGED <<asked, keeper, tasks, device, age, chosen, crossed, replaced>>
  BY DEF Fault
<1>2. /\ r \in Requests
      /\ put'[r][k] = "failed"
      /\ \A q \in Requests, j \in Kinds : q # r \/ j # k => put'[q][j] = put[q][j]
  <2>1. /\ r \in Requests
    BY Asks
  <2> QED BY <1>1, <2>1 DEF Types
<1>3. CASE t # SerialOf(r)
  <2>1. Untouched(t)
    BY <1>1, <1>2, <1>3, OtherSerials
  <2> QED BY <2>1, Stays
<1>4. CASE t = SerialOf(r)
  <2>1. /\ For(t)' = For(t) /\ For(t) \subseteq Requests /\ t \in failed'
        /\ \A q : (Lasting(q)' <=> Lasting(q)) /\ (Awake(q)' <=> Awake(q))
    BY <1>1, <1>4 DEF For, Ran, SerialOf, Lasting, Awake
  <2>2. \A q \in For(t), j \in Kinds : put'[q][j] \in {"sent", "done"} => put'[q][j] = put[q][j]
    BY <1>2, <2>1
  <2>3. /\ \A q \in For(t) : UnderWay(q)' => UnderWay(q)
        /\ \A o : KeepSent(t, o)' => KeepSent(t, o)
    BY <2>1, <2>2 DEF UnderWay, KeepSent
  <2>4. SerialInv(t)
    OBVIOUS
  <2> USE DEF SerialInv
  <2>5. TaskOf(t)'
    BY <1>1, <2>1, <2>4 DEF TaskOf
  <2>6. CreateOf(t)'
    BY <1>1, <2>1, <2>2, <2>3, <2>4 DEF CreateOf
  <2>7. KeepOf(t)'
    BY <1>1, <2>1, <2>3, <2>4 DEF KeepOf
  <2>8. AwakeOf(t)' /\ DeviceOf(t)'
    BY <2>1 DEF AwakeOf, DeviceOf
  <2> QED BY <2>5, <2>6, <2>7, <2>8
<1> QED BY <1>3, <1>4

LEMMA CreateFailsKeeps ==
    ASSUME Types, \A s \in Serials : SerialInv(s), CreateFails, NEW t \in Serials
    PROVE  SerialInv(t)'
<1>1. PICK r \in Ran :
          /\ put[r]["create"] = "failed"
          /\ put' = [put EXCEPT ![r]["create"] = "none"]
          /\ UNCHANGED <<asked, keeper, tasks, device, age, chosen, failed, crossed, replaced>>
  BY DEF CreateFails
<1>2. /\ r \in Requests
      /\ put'[r]["create"] = "none" /\ put'[r]["keep"] = put[r]["keep"]
      /\ \A q \in Requests, j \in Kinds : q # r => put'[q][j] = put[q][j]
  BY <1>1, Asks, PutChanges
<1>3. /\ For(t)' = For(t) /\ For(t) \subseteq Requests
      /\ \A q : (Lasting(q)' <=> Lasting(q)) /\ (Awake(q)' <=> Awake(q))
  BY <1>1 DEF For, Ran, SerialOf, Lasting, Awake
<1>4. \A q \in Requests : /\ put'[q]["keep"] = put[q]["keep"] /\ (UnderWay(q)' <=> UnderWay(q))
                          /\ (put'[q]["create"] = "done" <=> put[q]["create"] = "done")
  BY <1>1, <1>2 DEF UnderWay
<1>5. /\ Creating(t)' <=> Creating(t)
      /\ \A o : KeepSent(t, o)' <=> KeepSent(t, o)
  BY <1>3, <1>4 DEF Creating, KeepSent
<1>6. SerialInv(t)
  OBVIOUS
<1> USE DEF SerialInv
<1>7. TaskOf(t)'
  BY <1>1, <1>3, <1>6 DEF TaskOf
<1>8. CreateOf(t)'
  BY <1>1, <1>3, <1>4, <1>5, <1>6 DEF CreateOf
<1>9. KeepOf(t)'
  BY <1>1, <1>3, <1>5, <1>6 DEF KeepOf
<1>10. AwakeOf(t)' /\ DeviceOf(t)'
  <2>1. chosen[t] # 0 => put'[chosen[t]]["keep"] = put[chosen[t]]["keep"]
    BY <1>3, <1>4, <1>6 DEF TaskOf
  <2> QED BY <1>1, <1>3, <1>5, <1>6, <2>1 DEF AwakeOf, DeviceOf
<1> QED BY <1>7, <1>8, <1>9, <1>10

LEMMA KeptKeeps ==
    ASSUME Types, \A s \in Serials : SerialInv(s), Kept, NEW t \in Serials
    PROVE  SerialInv(t)'
<1>1. PICK r \in Ran :
          /\ keeper[r] = "waiting" /\ put[r]["keep"] = "done"
          /\ keeper' = [keeper EXCEPT ![r] = "sleeping"]
          /\ put' = [put EXCEPT ![r]["keep"] = "none"]
          /\ crossed' = IF \E q \in Ran : SerialOf(q) = SerialOf(r) /\ put[q]["create"] # "none"
                        THEN crossed ELSE crossed \ {SerialOf(r)}
          /\ UNCHANGED <<asked, tasks, device, age, chosen, failed, replaced>>
  BY DEF Kept
<1>2. /\ r \in Requests /\ r # 0
      /\ put'[r]["keep"] = "none" /\ put'[r]["create"] = put[r]["create"]
      /\ \A q \in Requests, j \in Kinds : q # r => put'[q][j] = put[q][j]
      /\ keeper'[r] = "sleeping" /\ \A q \in Requests : q # r => keeper'[q] = keeper[q]
  BY <1>1, Asks, PutChanges DEF Types
<1>3. CASE t # SerialOf(r)
  <2>1. \A q \in For(t) : q \in Requests /\ q # r
    BY <1>3 DEF For, Ran
  <2>2. Untouched(t)
    BY <1>1, <1>2, <1>3, <2>1, OtherSerials
  <2> QED BY <2>2, Stays
<1>4. CASE t = SerialOf(r)
  <2>1. /\ For(t)' = For(t) /\ r \in For(t) /\ For(t) \subseteq Requests
        /\ \A q : Lasting(q)' <=> Lasting(q)
        /\ \A q \in Requests : (Awake(q)' <=> Awake(q)) /\ (UnderWay(q)' <=> UnderWay(q))
        /\ \A q \in Requests : put'[q]["create"] = put[q]["create"]
    BY <1>1, <1>2, <1>4 DEF For, Ran, SerialOf, Lasting, Awake, UnderWay
  <2>2. t \in crossed /\ t \notin crossed' => ~Creating(t)
    BY <1>1, <1>4 DEF Creating, For, UnderWay
  <2>3. SerialInv(t) /\ (t \in crossed' => t \in crossed)
    BY <1>1
  <2>4. Creating(t)' <=> Creating(t)
    BY <2>1 DEF Creating
  <2>5. \A o : ~KeepSent(t, o)'
    <3>1. ~KeepSent(t, r)
      BY <1>1, <2>1, <2>3 DEF SerialInv, KeepOf
    <3> QED BY <1>2, <2>1, <3>1 DEF KeepSent
  <2> USE DEF SerialInv
  <2>6. tasks[t] = r /\ chosen[t] = r /\ ~Lasting(r)
    BY <1>1, <1>2, <2>1, <2>3 DEF TaskOf, Awake
  <2>7. TaskOf(t)'
    BY <1>1, <2>1, <2>3 DEF TaskOf
  <2>8. CreateOf(t)'
    <3>1. CASE Creating(t)
      <4>1. t \in crossed' <=> t \in crossed
        BY <2>2, <2>3, <3>1
      <4> QED BY <1>1, <2>1, <2>3, <2>5, <4>1 DEF CreateOf
    <3>2. CASE ~Creating(t)
      BY <1>1, <2>1, <2>3, <3>2 DEF CreateOf, Creating
    <3> QED BY <3>1, <3>2
  <2>9. KeepOf(t)'
    BY <2>5 DEF KeepOf
  <2>10. AwakeOf(t)'
    BY <1>1, <1>2, <2>3, <2>6 DEF AwakeOf
  <2>11. DeviceOf(t)'
    BY <1>1, <1>2, <2>1, <2>3, <2>4, <2>6 DEF DeviceOf
  <2> QED BY <2>7, <2>8, <2>9, <2>10, <2>11
<1> QED BY <1>3, <1>4

\* A keepalive dies of a PUT that failed, and that is remembered.
LEMMA KeeperDiesKeeps ==
    ASSUME Types, \A s \in Serials : SerialInv(s), KeeperDies, NEW t \in Serials
    PROVE  SerialInv(t)'
<1>1. PICK r \in Ran :
          /\ keeper[r] = "waiting" /\ put[r]["keep"] = "failed"
          /\ keeper' = [keeper EXCEPT ![r] = "ended"]
          /\ UNCHANGED <<asked, put, tasks, device, age, chosen, failed, crossed, replaced>>
  BY DEF KeeperDies
<1>2. /\ r \in Requests /\ r # 0
      /\ keeper'[r] = "ended" /\ \A q \in Requests : q # r => keeper'[q] = keeper[q]
  BY <1>1, Asks DEF Types
<1>3. CASE t # SerialOf(r)
  <2>1. \A q \in For(t) : q \in Requests /\ q # r
    BY <1>3 DEF For, Ran
  <2>2. Untouched(t)
    BY <1>1, <1>2, <1>3, <2>1, OtherSerials
  <2> QED BY <2>2, Stays
<1>4. CASE t = SerialOf(r)
  <2>1. /\ For(t)' = For(t) /\ r \in For(t) /\ For(t) \subseteq Requests
        /\ \A q : (Lasting(q)' <=> Lasting(q)) /\ (UnderWay(q)' <=> UnderWay(q))
        /\ \A q \in Requests : Awake(q)' => Awake(q)
    BY <1>1, <1>2, <1>4 DEF For, Ran, SerialOf, Lasting, Awake, UnderWay
  <2>2. SerialInv(t)
    OBVIOUS
  <2>3. /\ Creating(t)' <=> Creating(t)
        /\ \A o : KeepSent(t, o)' <=> KeepSent(t, o)
    BY <1>1, <2>1 DEF Creating, KeepSent
  <2> USE DEF SerialInv
  <2>4. t \in failed
    <3>1. chosen[t] = r /\ chosen[t] # 0 /\ ~Lasting(r)
      BY <1>1, <1>2, <2>1, <2>2 DEF TaskOf, Awake
    <3> QED BY <1>1, <2>2, <3>1 DEF AwakeOf
  <2>5. TaskOf(t)'
    BY <1>1, <2>1, <2>2 DEF TaskOf
  <2>6. CreateOf(t)'
    BY <1>1, <2>1, <2>2, <2>3 DEF CreateOf
  <2>7. KeepOf(t)'
    <3>1. \A q \in For(t) : keeper'[q] = "waiting" => keeper[q] = "waiting"
      BY <1>2, <2>1
    <3> QED BY <1>1, <2>1, <2>2, <2>3, <3>1 DEF KeepOf
  <2>8. AwakeOf(t)' /\ DeviceOf(t)'
    BY <1>1, <2>4 DEF AwakeOf, DeviceOf
  <2> QED BY <2>5, <2>6, <2>7, <2>8
<1> QED BY <1>3, <1>4

LEMMA CreatedKeeps ==
    ASSUME Types, \A s \in Serials : SerialInv(s), Created, NEW t \in Serials
    PROVE  SerialInv(t)'
<1>1. PICK r \in Ran :
          /\ put[r]["create"] = "done"
          /\ put' = [put EXCEPT ![r]["create"] = "none"]
          /\ Start(r)
          /\ chosen' = [chosen EXCEPT ![SerialOf(r)] = r]
          /\ LET past == IF SerialOf(r) \in crossed THEN {} ELSE {SerialOf(r)}
             IN  failed' = failed \ past /\ replaced' = replaced \ past
          /\ UNCHANGED <<asked, device, age, crossed>>
  BY DEF Created
<1> DEFINE s == SerialOf(r)
<1>2. /\ r \in Requests /\ r # 0 /\ s \in Serials
      /\ put'[r]["create"] = "none" /\ put'[r]["keep"] = put[r]["keep"]
      /\ \A q \in Requests, j \in Kinds : q # r => put'[q][j] = put[q][j]
  BY <1>1, Asks, PutChanges
<1>3. /\ tasks'[s] = IF Lasting(r) THEN 0 ELSE r
      /\ \A u \in Serials : u # s => tasks'[u] = tasks[u] /\ chosen'[u] = chosen[u]
      /\ chosen'[s] = r
  BY <1>1, <1>2 DEF Start, Types
<1>4. SerialInv(s)
  BY <1>2
<1>5. tasks[s] # 0 => tasks[s] \in For(s)
  BY <1>4 DEF SerialInv, TaskOf
<1>6. \A q \in Ran : q # r => keeper'[q] = IF q = tasks[s] /\ Awake(q) THEN "ended" ELSE keeper[q]
  <2> SUFFICES ASSUME NEW q \in Ran, q # r
               PROVE  keeper'[q] = IF q = tasks[s] /\ Awake(q) THEN "ended" ELSE keeper[q]
    OBVIOUS
  <2>1. q \in Requests /\ q # 0
    BY Asks
  <2>2. CASE tasks[s] = 0
    BY <1>1, <1>2, <2>1, <2>2 DEF Start, Types
  <2>3. CASE tasks[s] # 0
    <3>1. Cancelled(tasks[s])[q] = IF q = tasks[s] /\ Awake(q) THEN "ended" ELSE keeper[q]
      BY <2>1 DEF Cancelled, Types
    <3>2. Cancelled(tasks[s]) \in [Requests -> {"none", "sleeping", "waiting", "ended"}]
      BY DEF Cancelled, Types
    <3>3. keeper' \in {Cancelled(tasks[s]), [Cancelled(tasks[s]) EXCEPT ![r] = "sleeping"]}
      BY <1>1, <2>3 DEF Start
    <3>4. keeper'[q] = Cancelled(tasks[s])[q]
      BY <2>1, <3>2, <3>3
    <3> QED BY <3>1, <3>4
  <2> QED BY <2>2, <2>3
<1>7. ~Lasting(r) => keeper'[r] = "sleeping"
  <2>1. \A q : Cancelled(q) \in [Requests -> {"none", "sleeping", "waiting", "ended"}]
    BY DEF Cancelled, Types
  <2> QED BY <1>1, <1>2, <2>1 DEF Start, Types
<1>8. Lasting(r) => ~Awake(r)'
  <2> SUFFICES ASSUME Lasting(r) PROVE keeper'[r] \notin {"sleeping", "waiting"}
    BY DEF Awake
  <2>1. r \in For(s)
    BY DEF For
  <2>2. Awake(r) => tasks[s] = r
    BY <1>4, <2>1 DEF SerialInv, TaskOf
  <2>3. CASE tasks[s] = 0
    BY <1>1, <1>2, <2>2, <2>3 DEF Start, Awake
  <2>4. CASE tasks[s] # 0
    BY <1>1, <1>2, <2>2, <2>4 DEF Start, Cancelled, Awake, Types
  <2> QED BY <2>3, <2>4
<1> HIDE DEF s
<1>9. CASE t # s
  <2>1. \A q \in For(t) : keeper'[q] = keeper[q]
    <3>1. \A q \in For(t) : q \in Ran /\ q # r /\ q \notin For(s)
      BY <1>9 DEF For, s
    <3>2. 0 \notin Ran
      BY Asks
    <3> QED BY <1>5, <1>6, <3>1, <3>2
  <2>2. Untouched(t)
    BY <1>1, <1>2, <1>3, <1>9, <2>1, OtherSerials DEF s
  <2> QED BY <2>2, Stays
<1>10. CASE t = s
  <2>1. /\ For(t)' = For(t) /\ r \in For(t) /\ For(t) \subseteq Ran /\ For(t) \subseteq Requests
        /\ \A q : Lasting(q)' <=> Lasting(q)
    BY <1>1, <1>10 DEF For, Ran, SerialOf, Lasting, s
  <2>2. \A q \in For(t) : /\ put'[q]["keep"] = put[q]["keep"]
                          /\ put'[q]["create"] = IF q = r THEN "none" ELSE put[q]["create"]
                          /\ UnderWay(q)' <=> UnderWay(q) /\ q # r
    BY <1>2, <2>1 DEF UnderWay
  <2>3. \A o : KeepSent(t, o)' <=> KeepSent(t, o)
    BY <2>1, <2>2 DEF KeepSent
  <2>4. SerialInv(t) /\ UnderWay(r)
    BY <1>1 DEF UnderWay
  <2>5. \A q \in For(t) : Awake(q)' => q = r /\ ~Lasting(r) /\ keeper'[q] = "sleeping"
    <3> SUFFICES ASSUME NEW q \in For(t), Awake(q)' PROVE q = r /\ ~Lasting(r) /\ keeper'[q] = "sleeping"
      OBVIOUS
    <3>1. CASE q # r
      <4>1. Awake(q) /\ q # tasks[t]
        BY <1>6, <1>10, <2>1, <3>1 DEF Awake
      <4> QED BY <2>4, <4>1 DEF SerialInv, TaskOf
    <3>2. CASE q = r
      BY <1>7, <1>8, <3>2
    <3> QED BY <3>1, <3>2
  <2>6. /\ chosen'[t] = r /\ tasks'[t] = IF Lasting(r) THEN 0 ELSE r
        /\ t \in crossed => (t \in replaced' <=> t \in replaced) /\ (t \in failed' <=> t \in failed)
    BY <1>1, <1>3, <1>10 DEF s
  <2>7. /\ device[t] # Gone /\ age[t] = 0
        /\ t \in crossed => ~Lasting(r) \/ t \in replaced'
        /\ t \notin crossed => ~KeepSent(t, 0) /\ device[t] = asked[r].param /\ \A q \in For(t) : ~UnderWay(q)'
    <3>1. device[t] # Gone /\ age[t] = 0
      BY <1>1, <2>1, <2>4 DEF SerialInv, CreateOf
    <3>2. t \in crossed => ~Lasting(r) \/ t \in replaced'
      BY <2>1, <2>4, <2>6 DEF SerialInv, CreateOf
    <3>3. t \notin crossed => ~KeepSent(t, 0) /\ device[t] = asked[r].param /\ \A q \in For(t) : UnderWay(q) => q = r
      BY <1>1, <2>1, <2>4 DEF SerialInv, CreateOf
    <3> QED BY <2>2, <3>1, <3>2, <3>3
  <2> USE DEF SerialInv
  <2>8. TaskOf(t)'
    BY <1>2, <2>1, <2>5, <2>6 DEF TaskOf
  <2>9. CreateOf(t)'
    <3> SUFFICES ASSUME NEW q \in For(t)
                 PROVE  /\ put'[q]["create"] = "done" => device'[t] # Gone /\ age'[t] = 0
                        /\ UnderWay(q)' /\ t \in crossed' => ~Lasting(q)' \/ t \in replaced'
                        /\ UnderWay(q)' /\ t \notin crossed' =>
                              /\ \A u \in For(t)' : UnderWay(u)' => u = q
                              /\ ~KeepSent(t, 0)'
                              /\ put'[q]["create"] = "done" => device'[t] = asked'[q].param
      BY <2>1 DEF CreateOf
    <3>1. UnderWay(q)' /\ t \in crossed => ~Lasting(q) \/ t \in replaced
      BY <2>2, <2>4 DEF CreateOf
    <3> QED BY <1>1, <2>1, <2>6, <2>7, <3>1
  <2>10. KeepOf(t)'
    <3>1. \A q \in For(t) : keeper'[q] # "waiting"
      BY <2>5 DEF Awake
    <3>2. \A o : KeepSent(t, o) => KeepSent(t, 0)
      BY <2>1, Asks DEF KeepSent
    <3> QED BY <1>1, <2>1, <2>3, <2>6, <2>7, <3>1, <3>2 DEF KeepOf
  <2>11. AwakeOf(t)'
    BY <1>1, <1>7, <2>1, <2>6, <2>7 DEF AwakeOf
  <2>12. DeviceOf(t)'
    <3>1. keeper'[r] # "waiting"
      BY <2>1, <2>5 DEF Awake
    <3> QED BY <1>1, <2>1, <2>6, <2>7, <3>1 DEF DeviceOf
  <2> QED BY <2>8, <2>9, <2>10, <2>11, <2>12
<1> QED BY <1>9, <1>10

LEMMA HalfTtlKeeps ==
    ASSUME Types, \A s \in Serials : SerialInv(s), Running, HalfTtl, NEW t \in Serials
    PROVE  SerialInv(t)'
<1>1. /\ \A r \in Ran : put[r]["keep"] # "sent" /\ put[r]["create"] = "none" /\ keeper[r] # "waiting"
      /\ UNCHANGED <<asked, tasks, chosen, failed, crossed, replaced>>
  BY DEF HalfTtl, InFlight
<1>2. /\ For(t)' = For(t) /\ For(t) \subseteq Ran /\ For(t) \subseteq Requests
      /\ \A q : Lasting(q)' <=> Lasting(q)
  BY <1>1 DEF For, Ran, SerialOf, Lasting
<1>3. /\ device'[t] = IF Expires(t) THEN Gone ELSE device[t]
      /\ \A q \in Requests : keeper'[q] = IF q \in Due THEN "waiting" ELSE keeper[q]
  BY DEF HalfTtl
<1>4. ASSUME NEW q \in For(t)
      PROVE  /\ put'[q]["create"] = "none"
             /\ q \in Due => put'[q]["keep"] = "sent"
             /\ q \notin Due => put'[q]["keep"] = put[q]["keep"]
  <2>1. q \in Requests /\ q \in Ran
    BY <1>2
  <2>2. put'[q] = IF q \in Due THEN [put[q] EXCEPT !["keep"] = "sent"] ELSE put[q]
    BY <2>1 DEF HalfTtl, Running
  <2> QED BY <1>1, <2>1, <2>2 DEF Types
<1>5. SerialInv(t)
  OBVIOUS
<1> USE DEF SerialInv
<1>6. \A q \in For(t) : q \in Due <=> Awake(q)
  BY <1>1, <1>2 DEF Due, Awake
<1>7. \A q \in For(t) : (Awake(q)' <=> Awake(q)) /\ (keeper'[q] = "waiting" <=> Awake(q))
  BY <1>1, <1>2, <1>3, <1>6 DEF Awake
<1>8. TaskOf(t)'
  BY <1>1, <1>2, <1>5, <1>7 DEF TaskOf
<1>9. /\ \A q \in For(t) : ~UnderWay(q)' /\ ~UnderWay(q)
      /\ ~Creating(t)
  BY <1>1, <1>2, <1>4 DEF UnderWay, Creating
<1>10. CreateOf(t)'
  BY <1>2, <1>4, <1>9 DEF CreateOf
<1>11. \A q \in For(t) : put'[q]["keep"] = "sent" => Awake(q) /\ q = tasks[t] /\ q # 0
  BY <1>1, <1>2, <1>4, <1>5, <1>6, Asks DEF TaskOf
<1>12. KeepOf(t)'
  <2>1. \A q \in For(t) : keeper'[q] = "waiting" => q = tasks[t]
    BY <1>5, <1>7 DEF TaskOf
  <2>2. ~KeepSent(t, tasks[t])'
    BY <1>1, <1>2, <1>11 DEF KeepSent
  <2>3. chosen[t] # 0 /\ Lasting(chosen[t]) => ~KeepSent(t, 0)'
    BY <1>2, <1>5, <1>11 DEF KeepSent, TaskOf
  <2> QED BY <1>1, <1>2, <2>1, <2>2, <2>3 DEF KeepOf
<1>13. AwakeOf(t)'
  <2>1. ASSUME chosen[t] # 0, ~Lasting(chosen[t]), t \notin failed
        PROVE  keeper'[chosen[t]] = "waiting" /\ put'[chosen[t]]["keep"] = "sent"
    <3>1. chosen[t] \in For(t)
      BY <1>5, <2>1 DEF TaskOf
    <3>2. Awake(chosen[t])
      BY <1>5, <2>1 DEF AwakeOf, Awake
    <3> QED BY <1>4, <1>6, <1>7, <3>1, <3>2
  <2> QED BY <1>1, <1>2, <2>1 DEF AwakeOf
<1>14. DeviceOf(t)'
  <2> SUFFICES ASSUME chosen[t] # 0, t \notin failed
               PROVE  /\ t \notin replaced => device'[t] # Gone
                      /\ t \notin replaced /\ (t \notin crossed \/ Lasting(chosen[t]))
                            => device'[t] = asked[chosen[t]].param
                      /\ ~(keeper'[chosen[t]] = "waiting" /\ put'[chosen[t]]["keep"] = "done")
    BY <1>1, <1>2 DEF DeviceOf
  <2>1. chosen[t] \in For(t)
    BY <1>5 DEF TaskOf
  <2>2. t \notin replaced => ~Expires(t)
    <3>1. CASE Lasting(chosen[t])
      BY <1>5, <1>9, <3>1 DEF DeviceOf, Lasting, Expires
    <3>2. CASE ~Lasting(chosen[t])
      <4>1. age[t] = 0
        BY <1>1, <1>2, <1>5, <2>1, <3>2 DEF AwakeOf
      <4> QED BY <4>1 DEF Expires
    <3> QED BY <3>1, <3>2
  <2>3. keeper'[chosen[t]] = "waiting" => put'[chosen[t]]["keep"] = "sent"
    BY <1>4, <1>6, <1>7, <2>1
  <2> QED BY <1>3, <1>5, <1>9, <2>2, <2>3 DEF DeviceOf
<1> QED BY <1>8, <1>10, <1>12, <1>13, <1>14

----------------------------------------------------------------------------
(* The theorem.                                                            *)

LEMMA SerialInit == ASSUME Init, NEW s \in Serials PROVE SerialInv(s)
<1>1. For(s) = {} /\ chosen[s] = 0 /\ tasks[s] = 0
  BY DEF Init, For, Ran
<1> QED BY <1>1 DEF SerialInv, TaskOf, CreateOf, KeepOf, AwakeOf, DeviceOf, KeepSent

LEMMA Invariant == Spec => []IInv
<1>1. Init => IInv
  BY InitTypes, SerialInit DEF IInv
<1>2. IInv /\ [Next]_vars => IInv'
  <2> SUFFICES ASSUME IInv, [Next]_vars PROVE IInv'
    OBVIOUS
  <2>1. Types'
    BY TypeStep DEF IInv
  <2>2. ASSUME Running' PROVE Unasked' /\ \A t \in Serials : SerialInv(t)'
    <3>1. Types /\ Running /\ Unasked /\ (\A s \in Serials : SerialInv(s)) /\ ~StopKeepalives /\ ~Close
      <4>1. Running /\ ~StopKeepalives /\ ~Close
        BY <2>2, AskedStays DEF Next, vars, Running, Create, StopKeepalives, Close
      <4> QED BY <4>1 DEF IInv
    <3>2. Unasked'
      BY <2>2, <3>1, UnaskedStep
    <3>3. ASSUME UNCHANGED vars, NEW t \in Serials PROVE SerialInv(t)'
      <4>1. Untouched(t)
        BY <3>3 DEF vars, Untouched, For, Ran, SerialOf
      <4> QED BY <3>1, <4>1, Stays
    <3>4. ASSUME NEW t \in Serials PROVE SerialInv(t)'
      BY <3>1, <3>3, CreateKeeps, ExecuteKeeps, FaultKeeps, CreateFailsKeeps, KeptKeeps,
         KeeperDiesKeeps, CreatedKeeps, HalfTtlKeeps
      DEF Next
    <3> QED BY <3>2, <3>4
  <2> QED BY <2>1, <2>2 DEF IInv
<1> QED BY <1>1, <1>2, PTL DEF Spec

\* AsAcknowledged, for every set of serials and parameters and any number of
\* requests and faults: while the bridge runs a virtual device does not expire
\* and is as acknowledged last, with the exceptions the property names.
THEOREM DevicesAreAsAcknowledged == Spec => []AsAcknowledged
<1>1. IInv => AsAcknowledged
  <2> SUFFICES ASSUME IInv, phase = "running", NEW s \in Serials \ (failed \cup replaced), chosen[s] # 0
               PROVE  /\ device[s] # Gone
                      /\ \/ device[s] = asked[chosen[s]].param
                         \/ s \in crossed
                         \/ \E r \in Ran : SerialOf(r) = s /\ put[r]["create"] # "none"
    BY DEF AsAcknowledged
  <2>1. DeviceOf(s)
    BY DEF IInv, Running, SerialInv
  <2>2. Creating(s) => \E r \in Ran : SerialOf(r) = s /\ put[r]["create"] # "none"
    BY DEF Creating, UnderWay, For
  <2> QED BY <2>1, <2>2 DEF DeviceOf
<1> QED BY <1>1, Invariant, PTL
====
