---- MODULE VirtualDevices ----
(***************************************************************************)
(* Virtual devices at the SysAP, which the bridge creates on request and   *)
(* keeps from expiring (supervisor.py, rest.py create_virtual_device).     *)
(* Each request is handled in a task of its own, and a device with a ttl   *)
(* gets a keepalive task that repeats the PUT every half ttl.  A PUT that  *)
(* was sent may still be executed after the task that waits for it was     *)
(* cancelled.  Time is counted in half ttls; every PUT is executed and     *)
(* answered, or fails, within one.                                         *)
(***************************************************************************)
EXTENDS Naturals

CONSTANTS
    Serials,      \* serial numbers of virtual devices
    Params,       \* what a request may ask for: type, properties, ttl
    Forever,      \* those with a ttl of _VIRTUAL_DEVICE_NO_EXPIRY
    MaxRequests,  \* bound on requests
    MaxFaults,    \* bound on failed PUTs
    Gone, None

ASSUME ParamsAssumption ==
    /\ Forever \subseteq Params
    /\ Gone \notin Params
    /\ None \notin [serial : Serials, param : Params]
ASSUME BoundsAssumption == MaxRequests \in Nat /\ MaxFaults \in Nat

Requests == 1..MaxRequests
Kinds == {"create", "keep"}

VARIABLES
    phase,    \* "running", "closing" (keepalives stopped), "closed" (session closed)
    asked,    \* what each request asks for
    put,      \* per request: its create PUT and the last PUT of its keepalive
    keeper,   \* per request: its keepalive task
    tasks,    \* _virtual_device_tasks: per serial the request whose keepalive it is, or 0
    device,   \* the devices at the SysAP
    age,      \* half ttls since the last PUT of each
    faults,
    chosen,   \* history: per serial the request acknowledged last, or 0
    failed,   \* history: serials of failed PUTs,
    replaced, \*   of crossing PUTs one of which asked for no expiry, both until an
              \*   undisturbed creation,
    crossed   \*   of crossing PUTs, until a keepalive has repeated

bridge  == <<asked, keeper, tasks>>
atSysap == <<device, age>>
history == <<chosen, failed, crossed, replaced>>
vars == <<phase, bridge, put, atSysap, faults, history>>

Ran == {r \in Requests : asked[r] # None}
SerialOf(r) == asked[r].serial
Lasting(r) == asked[r].param \in Forever
InFlight == {r \in Ran : \E k \in Kinds : put[r][k] = "sent"}
Awake(r) == keeper[r] \in {"sleeping", "waiting"}

Init ==
    /\ phase = "running"
    /\ asked = [r \in Requests |-> None]
    /\ put = [r \in Requests |-> [k \in Kinds |-> "none"]]
    /\ keeper = [r \in Requests |-> "none"]
    /\ tasks = [s \in Serials |-> 0]
    /\ device = [s \in Serials |-> Gone] /\ age = [s \in Serials |-> 0]
    /\ faults = 0
    /\ chosen = [s \in Serials |-> 0]
    /\ failed = {} /\ crossed = {} /\ replaced = {}

\* Bookkeeping of a PUT for serial s that is sent while others are under way.
Crossing(s, rs) ==
    LET others == {r \in Ran : SerialOf(r) = s /\
                        (put[r]["create"] \in {"sent", "done"} \/ put[r]["keep"] = "sent")}
    IN  /\ crossed' = IF others = {} THEN crossed \ {s} ELSE crossed \cup {s}
        /\ replaced' = IF others # {} /\ \E r \in others : Lasting(r) \/ rs
                       THEN replaced \cup {s} ELSE replaced

----------------------------------------------------------------------------
\* _handle_virtualdevice_create with valid arguments, up to its await.
Create ==
    /\ phase # "closed"
    /\ \E r \in Requests, s \in Serials, p \in Params :
          /\ asked[r] = None /\ \A q \in 1..(r - 1) : asked[q] # None
          /\ asked' = [asked EXCEPT ![r] = [serial |-> s, param |-> p]]
          /\ put' = [put EXCEPT ![r]["create"] = "sent"]
          /\ Crossing(s, p \in Forever)
    /\ UNCHANGED <<phase, keeper, tasks, atSysap, faults, chosen, failed>>

\* The SysAP executes a PUT.
Execute ==
    /\ \E r \in InFlight, k \in Kinds :
          /\ put[r][k] = "sent"
          /\ put' = [put EXCEPT ![r][k] = "done"]
          /\ device' = [device EXCEPT ![SerialOf(r)] = asked[r].param]
          /\ age' = [age EXCEPT ![SerialOf(r)] = 0]
    /\ UNCHANGED <<phase, bridge, faults, history>>

\* A PUT fails, or its answer is lost.
Fault ==
    /\ faults < MaxFaults
    /\ \E r \in Ran, k \in Kinds :
          /\ put[r][k] \in {"sent", "done"}
          /\ put' = [put EXCEPT ![r][k] = "failed"]
          /\ failed' = failed \cup {SerialOf(r)}
    /\ faults' = faults + 1
    /\ UNCHANGED <<phase, bridge, atSysap, chosen, crossed, replaced>>

Cancelled(r) == [keeper EXCEPT ![r] = IF Awake(r) THEN "ended" ELSE @]

\* Slip: a second keepalive beside the first.
StartBeside(r) ==
    LET s == SerialOf(r) IN
    /\ tasks' = [tasks EXCEPT ![s] = r]
    /\ keeper' = [keeper EXCEPT ![r] = IF Lasting(r) THEN "none" ELSE "sleeping"]

\* _start_virtual_device_keepalive: what was there is cancelled first.
Start(r) ==
    LET s == SerialOf(r)
        rest == IF tasks[s] = 0 THEN keeper ELSE Cancelled(tasks[s])
    IN  IF Lasting(r)
        THEN tasks' = [tasks EXCEPT ![s] = 0] /\ keeper' = rest
        ELSE tasks' = [tasks EXCEPT ![s] = r] /\ keeper' = [rest EXCEPT ![r] = "sleeping"]

Created ==
    /\ phase # "closed"
    /\ \E r \in Ran :
          /\ put[r]["create"] = "done"
          /\ put' = [put EXCEPT ![r]["create"] = "none"]
          /\ Start(r)
          /\ chosen' = [chosen EXCEPT ![SerialOf(r)] = r]
          /\ LET past == IF SerialOf(r) \in crossed THEN {} ELSE {SerialOf(r)}
             IN  failed' = failed \ past /\ replaced' = replaced \ past
    /\ UNCHANGED <<phase, asked, atSysap, faults, crossed>>

CreateFails ==
    /\ \E r \in Ran :
          /\ put[r]["create"] = "failed"
          /\ put' = [put EXCEPT ![r]["create"] = "none"]
    /\ UNCHANGED <<phase, bridge, atSysap, faults, history>>

\* The keepalive's PUT was answered: it sleeps again.
Kept ==
    /\ \E r \in Ran :
          /\ keeper[r] = "waiting" /\ put[r]["keep"] = "done"
          /\ keeper' = [keeper EXCEPT ![r] = "sleeping"]
          /\ put' = [put EXCEPT ![r]["keep"] = "none"]
          /\ crossed' = IF \E q \in Ran : SerialOf(q) = SerialOf(r) /\ put[q]["create"] # "none"
                        THEN crossed ELSE crossed \ {SerialOf(r)}
    /\ UNCHANGED <<phase, asked, tasks, atSysap, faults, chosen, failed, replaced>>

\* An exception other than the cancellation ends the loop, and the entry of
\* _virtual_device_tasks stays.
KeeperDies ==
    /\ \E r \in Ran :
          /\ keeper[r] = "waiting" /\ put[r]["keep"] = "failed"
          /\ keeper' = [keeper EXCEPT ![r] = "ended"]
    /\ UNCHANGED <<phase, asked, tasks, put, atSysap, faults, history>>

----------------------------------------------------------------------------
\* Half a ttl passes: keepalives that sleep send their PUT, and what was not
\* refreshed twice in a row expires.
Expires(s) == device[s] # Gone /\ device[s] \notin Forever /\ age[s] = 1
Due == {r \in Ran : keeper[r] = "sleeping"}

HalfTtl ==
    /\ InFlight = {}
    /\ \A r \in Ran : put[r]["create"] = "none" /\ keeper[r] # "waiting"
    /\ \E s \in Serials : device[s] \in Params \ Forever
    /\ device' = [s \in Serials |-> IF Expires(s) THEN Gone ELSE device[s]]
    /\ age' = [s \in Serials |->
                  IF device[s] \in Params \ Forever /\ ~Expires(s) THEN 1 ELSE 0]
    /\ keeper' = [r \in Requests |-> IF r \in Due THEN "waiting" ELSE keeper[r]]
    /\ put' = [r \in Requests |->
                  IF r \in Due /\ phase # "closed" THEN [put[r] EXCEPT !["keep"] = "sent"]
                  ELSE IF r \in Due THEN [put[r] EXCEPT !["keep"] = "failed"]
                  ELSE put[r]]
    /\ UNCHANGED <<phase, asked, tasks, faults, history>>

\* _stop_virtual_device_keepalives.
StopKeepalives ==
    /\ phase = "running"
    /\ phase' = "closing"
    /\ tasks' = [s \in Serials |-> 0]
    /\ keeper' = [r \in Requests |->
                    IF Awake(r) /\ r \in {tasks[s] : s \in Serials} THEN "ended" ELSE keeper[r]]
    /\ UNCHANGED <<asked, put, atSysap, faults, history>>

\* The HTTP session is closed: what waits for an answer fails.
Close ==
    /\ phase = "closing"
    /\ phase' = "closed"
    /\ put' = [r \in Requests |-> [k \in Kinds |->
                  IF put[r][k] \in {"sent", "done"} THEN "failed" ELSE put[r][k]]]
    /\ UNCHANGED <<bridge, atSysap, faults, history>>

Next ==
    \/ Create \/ Execute \/ Fault \/ Created \/ CreateFails \/ Kept \/ KeeperDies
    \/ HalfTtl \/ StopKeepalives \/ Close

Spec == Init /\ [][Next]_vars

----------------------------------------------------------------------------
\* A virtual device is at the SysAP as the request acknowledged last asked for
\* it, for as long as the bridge runs (docs/01 section 4.5: "it owns the
\* keepalive").  The exceptions of the code: a PUT of it has failed (the loop
\* ends at its first exception); two of its PUTs were under way at once and
\* one of them wants no expiry (the other may be executed last, and nothing
\* repeats the first); two were under way and no keepalive has repeated since.
\* A creation that nothing disturbs ends the first two.
AsAcknowledged ==
    \A s \in Serials \ (failed \cup replaced) :
        phase = "running" /\ chosen[s] # 0 =>
            /\ device[s] # Gone
            /\ \/ device[s] = asked[chosen[s]].param
               \/ s \in crossed
               \/ \E r \in Ran : SerialOf(r) = s /\ put[r]["create"] # "none"
====
