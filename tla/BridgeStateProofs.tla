---- MODULE BridgeStateProofs ----
(***************************************************************************)
(* Proofs about BridgeState, for any number of lost connections, resyncs   *)
(* and changes of the device.                                              *)
(***************************************************************************)
EXTENDS BridgeState, SequenceTheorems, TLAPS

----------------------------------------------------------------------------
(* The invariants, strengthened.                                           *)

\* What a publish of a task sends.
TaskMessage == [topic : Topics, state : States, by : Tasks]

Types ==
    /\ link \in {"down", "subscribing", "flushing", "publishing", "serving"}
    /\ stage \in {"mqtt", "sysap", "loading", "seeded", "starting", "running", "stopping",
                  "closing", "stopped"}
    /\ resyncing \in {"no", "fetched", "bridge", "device"}
    /\ claimed \in [Topics -> States \cup {Unset}]
    /\ last \in [Topics -> States \cup {Unset}]
    /\ broker \in [Topics -> States \cup {Unset}]
    /\ device \in States /\ fetched \in States
    /\ wire \in Seq(Message) /\ acks \in Seq(TaskMessage)
    /\ awaiting \subseteq TaskMessage
    /\ lost \subseteq Topics /\ republish \subseteq Topics

FlagTypes ==
    /\ mqttUp \in BOOLEAN /\ sysapUp \in BOOLEAN /\ loaded \in BOOLEAN
    /\ grace \in BOOLEAN /\ will \in BOOLEAN

\* The i-th message of a queue is the last one that is in M.
LastIn(q, M, i) ==
    /\ i \in DOMAIN q
    /\ q[i] \in M
    /\ \A j \in DOMAIN q : q[j] \in M => j <= i

NoneIn(q, M) == \A i \in DOMAIN q : q[i] \notin M

\* The messages of topic t, and those of them a task awaits.
Of(t)   == {m \in Message : m.topic = t}
Mine(t) == {m \in TaskMessage : m.topic = t}

\* The shutdown has not begun.
Alive == stage \notin {"stopping", "closing", "stopped"}

\* What is awaited is on its way, once.
FlowInv ==
    /\ link = "down" => wire = <<>> /\ acks = <<>> /\ awaiting = {}
    /\ \A i \in DOMAIN acks : acks[i] \in awaiting
    /\ \A i \in DOMAIN wire : wire[i].by \in Tasks => wire[i] \in awaiting
    /\ \A m \in awaiting : \/ \E i \in DOMAIN acks : acks[i] = m
                           \/ \E i \in DOMAIN wire : wire[i] = m
    /\ \A i, j \in DOMAIN acks : acks[i] = acks[j] => i = j
    /\ \A i, j \in DOMAIN wire : wire[i].by \in Tasks /\ wire[i] = wire[j] => i = j
    /\ \A i \in DOMAIN acks, j \in DOMAIN wire : acks[i] # wire[j]

\* A task awaits one publish at a time.
IdleInv ==
    /\ link # "publishing" => Idle("connect")
    /\ stage \notin {"seeded", "starting"} => Idle("start")
    /\ resyncing \in {"no", "fetched"} => Idle("resync")
    /\ Idle("stop")

\* What was said last is what is claimed; with nothing on its way and nothing
\* lost it is what the client remembers.
SaidInv ==
    \A t \in Topics :
        /\ \A i \in DOMAIN wire : LastIn(wire, Mine(t), i) => wire[i].state = claimed[t]
        /\ \A i \in DOMAIN acks :
              LastIn(acks, Mine(t), i) /\ NoneIn(wire, Mine(t)) => acks[i].state = claimed[t]
        /\ t \notin lost /\ NoneIn(wire, Mine(t)) /\ NoneIn(acks, Mine(t))
              => last[t] = claimed[t]

\* Once a topic is republished, the broker has what is claimed as soon as it has
\* what is on its way.
ToldInv ==
    \A t \in Topics :
        /\ link = "serving" /\ t \notin republish \cup raced /\ claimed[t] # Unset
        /\ t \notin lost \/ ~NoneIn(wire, Mine(t)) \/ ~NoneIn(acks, Mine(t))
        => /\ \A i \in DOMAIN wire : LastIn(wire, Of(t), i) => wire[i].state = claimed[t]
           /\ NoneIn(wire, Of(t)) => broker[t] = claimed[t]

\* The grace timer runs only while the bridge is not online, and a bridge that
\* has flushed claims what it is.
ClaimInv ==
    /\ Up => ~will
    /\ link \in {"flushing", "publishing", "serving"} => mqttUp
    /\ stage \in {"loading", "seeded", "starting", "running"} => sysapUp
    /\ stage \in {"starting", "running"} => loaded
    /\ grace => ~Online(mqttUp, sysapUp, loaded)
    /\ link \in {"publishing", "serving"} /\ stage \in {"starting", "running"}
          => claimed["bridge"] = "online"

\* The device is claimed as it was fetched, unless that failed.
DeviceInv ==
    /\ stage \in {"mqtt", "sysap", "loading", "seeded", "starting"} => resyncing = "no"
    /\ /\ stage \in {"seeded", "starting", "running"}
       /\ resyncing \in {"no", "device"}
       /\ \/ "device" \notin lost
          \/ ~NoneIn(wire, Mine("device")) \/ ~NoneIn(acks, Mine("device"))
       => claimed["device"] = fetched

----------------------------------------------------------------------------
(* The last message of a kind, as queues grow and shrink.                  *)

LEMMA Appended ==
    ASSUME NEW S, NEW q \in Seq(S), NEW e \in S
    PROVE  /\ Append(q, e) \in Seq(S)
           /\ Len(q) \in Nat /\ DOMAIN q = 1..Len(q)
           /\ DOMAIN Append(q, e) = 1..(Len(q) + 1)
           /\ \A j \in 1..Len(q) : Append(q, e)[j] = q[j]
           /\ Append(q, e)[Len(q) + 1] = e
<1>1. /\ Append(q, e) \in Seq(S) /\ Len(Append(q, e)) = Len(q) + 1
      /\ \A j \in 1..Len(q) : Append(q, e)[j] = q[j]
      /\ Append(q, e)[Len(q) + 1] = e
  BY AppendProperties
<1>2. Len(q) \in Nat /\ DOMAIN q = 1..Len(q) /\ DOMAIN Append(q, e) = 1..(Len(q) + 1)
  BY <1>1, LenProperties
<1> QED BY <1>1, <1>2

LEMMA Shortened ==
    ASSUME NEW S, NEW q \in Seq(S), q # <<>>
    PROVE  /\ Tail(q) \in Seq(S) /\ Head(q) \in S
           /\ Len(q) \in Nat /\ DOMAIN q = 1..Len(q) /\ 1 \in DOMAIN q /\ Head(q) = q[1]
           /\ DOMAIN Tail(q) = 1..(Len(q) - 1)
           /\ \A j \in DOMAIN Tail(q) : j + 1 \in DOMAIN q /\ Tail(q)[j] = q[j + 1]
           /\ \A j \in DOMAIN q : j # 1 => j - 1 \in DOMAIN Tail(q) /\ Tail(q)[j - 1] = q[j]
<1>1. /\ Tail(q) \in Seq(S) /\ Head(q) \in S /\ Len(Tail(q)) = Len(q) - 1
      /\ \A j \in 1..Len(Tail(q)) : Tail(q)[j] = q[j + 1]
  BY HeadTailProperties
<1>2. Len(q) \in Nat /\ DOMAIN q = 1..Len(q) /\ DOMAIN Tail(q) = 1..(Len(q) - 1) /\ Head(q) = q[1]
  BY <1>1, LenProperties
<1>3. 1 \in DOMAIN q
  BY <1>2, EmptySeq
<1>4. \A j \in DOMAIN Tail(q) : j + 1 \in DOMAIN q /\ Tail(q)[j] = q[j + 1]
  BY <1>1, <1>2
<1>5. ASSUME NEW j \in DOMAIN q, j # 1 PROVE j - 1 \in DOMAIN Tail(q) /\ Tail(q)[j - 1] = q[j]
  <2>1. j - 1 \in 1..(Len(q) - 1) /\ (j - 1) + 1 = j
    BY <1>2, <1>5
  <2> QED BY <1>2, <1>4, <2>1
<1> QED BY <1>1, <1>2, <1>3, <1>4, <1>5

LEMMA LastAppended ==
    ASSUME NEW S, NEW q \in Seq(S), NEW e \in S, NEW M, NEW k, LastIn(Append(q, e), M, k)
    PROVE  \/ e \in M /\ Append(q, e)[k] = e
           \/ e \notin M /\ LastIn(q, M, k) /\ Append(q, e)[k] = q[k]
<1>1. CASE e \in M
  <2>1. k = Len(q) + 1
    BY <1>1, Appended DEF LastIn
  <2> QED BY <1>1, <2>1, Appended
<1>2. CASE e \notin M
  <2>1. k \in 1..Len(q)
    BY <1>2, Appended DEF LastIn
  <2> QED BY <1>2, <2>1, Appended DEF LastIn
<1> QED BY <1>1, <1>2

LEMMA NoneAppended ==
    ASSUME NEW S, NEW q \in Seq(S), NEW e \in S, NEW M
    PROVE  NoneIn(Append(q, e), M) <=> NoneIn(q, M) /\ e \notin M
<1>1. ASSUME NoneIn(Append(q, e), M) PROVE NoneIn(q, M) /\ e \notin M
  BY <1>1, Appended DEF NoneIn
<1>2. ASSUME NoneIn(q, M), e \notin M, NEW j \in DOMAIN Append(q, e) PROVE Append(q, e)[j] \notin M
  <2>1. j \in 1..Len(q) \/ j = Len(q) + 1
    BY <1>2, Appended
  <2> QED BY <1>2, <2>1, Appended DEF NoneIn
<1> QED BY <1>1, <1>2 DEF NoneIn

LEMMA LastOfTail ==
    ASSUME NEW S, NEW q \in Seq(S), q # <<>>, NEW M, NEW k, LastIn(Tail(q), M, k)
    PROVE  LastIn(q, M, k + 1) /\ Tail(q)[k] = q[k + 1]
<1>1. k \in DOMAIN Tail(q) /\ k + 1 \in DOMAIN q /\ q[k + 1] \in M /\ Tail(q)[k] = q[k + 1]
  BY Shortened DEF LastIn
<1>2. ASSUME NEW j \in DOMAIN q, q[j] \in M PROVE j <= k + 1
  <2>1. Len(q) \in Nat /\ j \in 1..Len(q) /\ k \in 1..(Len(q) - 1)
    BY <1>1, Shortened
  <2>2. CASE j # 1
    <3>1. j - 1 \in DOMAIN Tail(q) /\ Tail(q)[j - 1] \in M
      BY <1>2, <2>2, Shortened
    <3>2. j - 1 <= k
      BY <3>1 DEF LastIn
    <3> QED BY <2>1, <3>2
  <2> QED BY <2>1, <2>2
<1> QED BY <1>1, <1>2 DEF LastIn

LEMMA NoneOfTail ==
    ASSUME NEW S, NEW q \in Seq(S), q # <<>>, NEW M
    PROVE  /\ NoneIn(q, M) <=> NoneIn(Tail(q), M) /\ Head(q) \notin M
           /\ NoneIn(Tail(q), M) /\ Head(q) \in M => LastIn(q, M, 1)
<1>1. ASSUME NoneIn(q, M) PROVE NoneIn(Tail(q), M) /\ Head(q) \notin M
  BY <1>1, Shortened DEF NoneIn
<1>2. ASSUME NoneIn(Tail(q), M), NEW j \in DOMAIN q, j # 1 PROVE q[j] \notin M
  BY <1>2, Shortened DEF NoneIn
<1>3. ASSUME NoneIn(Tail(q), M), Head(q) \notin M PROVE NoneIn(q, M)
  BY <1>2, <1>3, Shortened DEF NoneIn
<1>4. ASSUME NoneIn(Tail(q), M), Head(q) \in M PROVE LastIn(q, M, 1)
  <2>1. 1 \in DOMAIN q /\ q[1] \in M
    BY <1>4, Shortened
  <2>2. ASSUME NEW j \in DOMAIN q, q[j] \in M PROVE j <= 1
    BY <1>2, <1>4, <2>2
  <2> QED BY <2>1, <2>2 DEF LastIn
<1> QED BY <1>1, <1>3, <1>4

----------------------------------------------------------------------------
(* Types.                                                                  *)

USE DEF flags, mqtt, net, calls, world, bounds, history

LEMMA Messages ==
    /\ \A t \in Topics, s \in States, c \in Tasks :
          [topic |-> t, state |-> s, by |-> c] \in TaskMessage
    /\ \A t \in Topics, s \in States : [topic |-> t, state |-> s, by |-> "republish"] \in Message
    /\ TaskMessage \subseteq Message
    /\ \A m \in Message : m.topic \in Topics /\ m.state \in States
    /\ \A m \in Message : m \in TaskMessage <=> m.by \in Tasks
<1>1. \A m \in Message : m \in TaskMessage <=> m.by \in Tasks
  BY DEF Message, TaskMessage
<1> QED BY <1>1 DEF Message, TaskMessage, Tasks

LEMMA NowIsState == \A m, s, l : StateOf(Online(m, s, l)) \in States
  BY DEF StateOf, States

LEMMA PublishTypes ==
    ASSUME Types, NEW c \in Tasks, NEW t \in Topics, NEW s \in States, Publish(c, t, s)
    PROVE  /\ claimed' \in [Topics -> States \cup {Unset}]
           /\ wire' \in Seq(Message) /\ acks' = acks
           /\ awaiting' \subseteq TaskMessage
           /\ lost' \subseteq Topics
<1> DEFINE m == [topic |-> t, state |-> s, by |-> c]
<1>1. m \in TaskMessage /\ m \in Message
  BY Messages
<1>2. claimed' \in [Topics -> States \cup {Unset}] /\ lost' \subseteq Topics /\ acks' = acks
  BY DEF Types, Publish, Send
<1>3. wire \in Seq(Message) /\ Append(wire, m) \in Seq(Message)
  BY <1>1, AppendProperties DEF Types
<1>4. (wire' = wire /\ awaiting' = awaiting) \/ (wire' = Append(wire, m) /\ awaiting' = awaiting \cup {m})
  BY DEF Publish, Send
<1> QED BY <1>1, <1>2, <1>3, <1>4 DEF Types

LEMMA InitTypes == Init => Types /\ FlagTypes
<1> SUFFICES ASSUME Init PROVE Types /\ FlagTypes
  OBVIOUS
<1>1. wire \in Seq(Message) /\ acks \in Seq(TaskMessage)
  BY EmptySeq DEF Init
<1>2. FlagTypes
  BY DEF Init, FlagTypes
<1> QED BY <1>1, <1>2 DEF Init, Types

LEMMA FlagStep == FlagTypes /\ [Next]_vars => FlagTypes'
<1> SUFFICES ASSUME FlagTypes, [Next]_vars PROVE FlagTypes'
  OBVIOUS
<1> USE DEF FlagTypes
<1>1. CASE Connect
  BY <1>1 DEF Connect
<1>2. CASE Subscribed
  BY <1>2 DEF Subscribed, OnChange
<1>3. CASE Flushed \/ GraceEnds \/ ResyncBridge \/ Stop
  BY <1>3 DEF Flushed, GraceEnds, ResyncBridge, Stop
<1>4. CASE Lose
  BY <1>4 DEF Lose, OnChange, BreakOff
<1>5. CASE PublishWill
  BY <1>5 DEF PublishWill
<1>6. CASE FinishLoad
  BY <1>6 DEF FinishLoad
<1>7. CASE WsConnected
  BY <1>7 DEF WsConnected, OnChange
<1>8. CASE Serve \/ Republish \/ Return \/ Receive \/ StartReader \/ Load \/ Started \/ ResyncDevice
  BY <1>8 DEF Serve, Republish, RepublishTopic, Return, Receive, StartReader, Load, Started, ResyncDevice
<1>9. CASE ResyncEnds \/ Stopping \/ Close \/ DeviceChanges \/ WsLost \/ Reload
  BY <1>9 DEF ResyncEnds, Stopping, Close, DeviceChanges, WsLost, Reload
<1>10. CASE UNCHANGED vars
  BY <1>10 DEF vars
<1> QED
  BY <1>1, <1>2, <1>3, <1>4, <1>5, <1>6, <1>7, <1>8, <1>9, <1>10 DEF Next, Run

LEMMA TypeStep == Types /\ [Next]_vars => Types'
<1> SUFFICES ASSUME Types, [Next]_vars PROVE Types'
  OBVIOUS
<1>1. ASSUME UNCHANGED <<claimed, wire, calls, lost>>,
             UNCHANGED <<last, broker>>,
             link' \in {"down", "subscribing", "flushing", "publishing", "serving"},
             stage' \in {"mqtt", "sysap", "loading", "seeded", "starting", "running", "stopping",
                         "closing", "stopped"},
             resyncing' \in {"no", "fetched", "bridge", "device"},
             device' \in States, fetched' \in States, republish' \subseteq Topics
      PROVE  Types'
  BY <1>1 DEF Types
<1>2. ASSUME NEW c \in Tasks, NEW t \in Topics, NEW s \in States, Publish(c, t, s),
             UNCHANGED <<last, broker>>,
             link' \in {"down", "subscribing", "flushing", "publishing", "serving"},
             stage' \in {"mqtt", "sysap", "loading", "seeded", "starting", "running", "stopping",
                         "closing", "stopped"},
             resyncing' \in {"no", "fetched", "bridge", "device"},
             device' \in States, fetched' \in States, republish' \subseteq Topics
      PROVE  Types'
  <2>1. /\ claimed' \in [Topics -> States \cup {Unset}]
        /\ wire' \in Seq(Message) /\ acks' = acks
        /\ awaiting' \subseteq TaskMessage
        /\ lost' \subseteq Topics
    BY <1>2, PublishTypes
  <2> QED BY <1>2, <2>1 DEF Types
<1>3. Now \in States /\ "offline" \in States /\ "bridge" \in Topics /\ "device" \in Topics
  BY NowIsState DEF Now, States, Topics
<1>4. \A c \in {"connect", "start", "resync", "grace", "stop"} : c \in Tasks
  BY DEF Tasks
<1>5. CASE GraceEnds
  BY <1>2, <1>3, <1>4, <1>5 DEF GraceEnds, Types
<1>6. CASE Connect
  BY <1>6 DEF Connect, Types, States
<1>7. CASE Subscribed \/ Serve \/ StartReader \/ Started \/ ResyncEnds \/ Stopping \/ Close
  BY <1>1, <1>7 DEF Subscribed, Serve, StartReader, Started, ResyncEnds, Stopping, Close, Types
<1>8. CASE Flushed
  BY <1>2, <1>3, <1>4, <1>8 DEF Flushed, Types
<1>9. CASE Republish
  <2>1. PICK t \in republish : RepublishTopic(t)
    BY <1>9 DEF Republish
  <2>2. t \in Topics /\ republish' \subseteq Topics
    BY <2>1 DEF RepublishTopic, Types
  <2>3. CASE last[t] = Unset
    BY <1>9, <2>1, <2>2, <2>3 DEF Republish, RepublishTopic, Types
  <2>4. CASE last[t] # Unset
    <3>1. [topic |-> t, state |-> last[t], by |-> "republish"] \in Message
      BY <2>2, <2>4, Messages DEF Types
    <3>2. wire' = Append(wire, [topic |-> t, state |-> last[t], by |-> "republish"])
      BY <2>1, <2>4 DEF RepublishTopic
    <3>3. wire' \in Seq(Message)
      BY <3>1, <3>2, AppendProperties DEF Types
    <3> QED BY <1>9, <2>2, <3>3 DEF Republish, Types
  <2> QED BY <2>3, <2>4
<1>10. CASE Lose
  <2>1. wire' \in Seq(Message) /\ acks' \in Seq(TaskMessage)
    BY <1>10, EmptySeq DEF Lose, BreakOff
  <2>2. lost' \subseteq Topics
    BY <1>10, Messages DEF Lose, Types
  <2>3. /\ link' = "down" /\ awaiting' = {} /\ UNCHANGED <<last, claimed, broker, device, fetched>>
        /\ republish' \subseteq republish
        /\ stage' \in {stage, "stopped"} /\ resyncing' \in {resyncing, "no"}
    BY <1>10 DEF Lose, BreakOff
  <2> QED BY <2>1, <2>2, <2>3 DEF Types
<1>11. CASE Return
  <2>1. acks' \in Seq(TaskMessage) /\ Head(acks) \in TaskMessage
    BY <1>11, HeadTailProperties DEF Return, Types
  <2>2. Head(acks).state \in States /\ Head(acks).topic \in Topics
    BY <2>1, Messages
  <2> QED BY <1>11, <2>1, <2>2 DEF Return, Types
<1>12. CASE Receive
  <2>1. wire' \in Seq(Message) /\ Head(wire) \in Message
    BY <1>12, HeadTailProperties DEF Receive, Types
  <2>2. acks' \in Seq(TaskMessage)
    BY <1>12, AppendProperties DEF Receive, Types
  <2>3. Head(wire).state \in States
    BY <2>1, Messages
  <2> QED BY <1>12, <2>1, <2>2, <2>3 DEF Receive, Types
<1>13. CASE PublishWill
  BY <1>13 DEF PublishWill, Types, States
<1>14. CASE Load
  <2>1. CASE Up
    BY <1>2, <1>3, <1>4, <1>14, <2>1 DEF Load, Types
  <2>2. CASE ~Up
    BY <1>1, <1>14, <2>2 DEF Load, Types
  <2> QED BY <2>1, <2>2
<1>15. CASE FinishLoad
  <2>1. StateOf(Online(mqttUp, sysapUp, TRUE)) \in States
    BY NowIsState
  <2> QED BY <1>2, <1>3, <1>4, <1>15, <2>1 DEF FinishLoad, Types
<1>16. CASE DeviceChanges \/ WsLost \/ Reload
  BY <1>1, <1>16 DEF DeviceChanges, WsLost, Reload, BeginResync, Types
<1>17. CASE WsConnected
  BY <1>1, <1>17 DEF WsConnected, BeginResync, Types
<1>18. CASE ResyncBridge
  <2>1. CASE Raises("bridge", Now)
    BY <1>3, <1>18, <2>1 DEF ResyncBridge, Types
  <2>2. CASE ~Raises("bridge", Now)
    BY <1>2, <1>3, <1>4, <1>18, <2>2 DEF ResyncBridge, Types
  <2> QED BY <2>1, <2>2
<1>19. CASE ResyncDevice
  BY <1>2, <1>3, <1>4, <1>19 DEF ResyncDevice, Types
<1>20. CASE Stop
  <2>1. [topic |-> "bridge", state |-> "offline", by |-> "stop"] \in TaskMessage
    BY <1>3, <1>4, Messages
  <2>2. /\ wire' = wire \/ wire' = Append(wire, [topic |-> "bridge", state |-> "offline", by |-> "stop"])
        /\ awaiting' = awaiting
           \/ awaiting' = awaiting \cup {[topic |-> "bridge", state |-> "offline", by |-> "stop"]}
        /\ UNCHANGED acks
        /\ stage' \in {"stopping", "stopped", "closing"}
    BY <1>20 DEF Stop, ForceOffline, Send
  <2>3. wire' \in Seq(Message)
    <3>1. Append(wire, [topic |-> "bridge", state |-> "offline", by |-> "stop"]) \in Seq(Message)
      BY <2>1, Messages, AppendProperties DEF Types
    <3> QED BY <2>2, <3>1 DEF Types
  <2> QED BY <1>3, <1>20, <2>1, <2>2, <2>3 DEF Stop, Types
<1>21. CASE UNCHANGED vars
  BY <1>1, <1>21 DEF vars, Types
<1> QED
  BY <1>5, <1>6, <1>7, <1>8, <1>9, <1>10, <1>11, <1>12, <1>13, <1>14, <1>15, <1>16, <1>17, <1>18,
     <1>19, <1>20, <1>21
  DEF Next, Run

LEMMA Typed == Spec => [](Types /\ FlagTypes)
<1> QED BY InitTypes, TypeStep, FlagStep, PTL DEF Spec

----------------------------------------------------------------------------
(* The flags.                                                              *)

\* A shutdown that has begun is not taken back.
LEMMA StaysAlive ==
    ASSUME [Next]_vars, Alive'
    PROVE  Alive /\ ~Stop /\ ~Stopping /\ ~Close
<1> USE DEF Alive
<1>1. ASSUME Stop \/ Stopping \/ Close PROVE FALSE
  BY <1>1 DEF Stop, ForceOffline, Stopping, Close
<1>2. CASE UNCHANGED stage
  BY <1>1, <1>2
<1>3. CASE Lose \/ WsConnected
  BY <1>1, <1>3 DEF Lose, WsConnected
<1>4. CASE StartReader \/ Load \/ FinishLoad \/ Started
  BY <1>1, <1>4 DEF StartReader, Load, FinishLoad, Started
<1>5. CASE GraceEnds \/ Subscribed \/ Flushed \/ Serve \/ Republish \/ Return \/ Receive \/ PublishWill
  BY <1>2, <1>5 DEF GraceEnds, Subscribed, Flushed, Serve, Republish, Return, Receive, PublishWill
<1>6. CASE ResyncBridge \/ ResyncDevice \/ ResyncEnds \/ Connect \/ DeviceChanges \/ WsLost \/ Reload
  BY <1>2, <1>6 DEF ResyncBridge, ResyncDevice, ResyncEnds, Connect, DeviceChanges, WsLost, Reload
<1>7. CASE UNCHANGED vars
  BY <1>2, <1>7 DEF vars
<1> QED
  BY <1>1, <1>3, <1>4, <1>5, <1>6, <1>7 DEF Next, Run

LEMMA PublishClaims ==
    ASSUME Types, NEW c, NEW t \in Topics, NEW s, Publish(c, t, s)
    PROVE  claimed' = [claimed EXCEPT ![t] = s]
  BY DEF Publish, Types

LEMMA ClaimInit == Init => ClaimInv
  BY DEF Init, ClaimInv, Up

LEMMA ClaimStep == Types /\ FlagTypes /\ ClaimInv /\ [Next]_vars /\ Alive' => ClaimInv'
<1> SUFFICES ASSUME Types, FlagTypes, ClaimInv, [Next]_vars, Alive' PROVE ClaimInv'
  OBVIOUS
<1> USE DEF Up
<1>1. Alive /\ ~Stop /\ ~Stopping /\ ~Close
  BY StaysAlive
<1>2. "bridge" \in Topics /\ "device" \in Topics
  BY DEF Topics
<1>3. CASE UNCHANGED <<link, stage, flags, grace, will>> /\ claimed'["bridge"] = claimed["bridge"]
  BY <1>3 DEF ClaimInv, Online
<1>4. CASE GraceEnds
  <2>1. ~(link \in {"publishing", "serving"} /\ stage \in {"starting", "running"})
    BY <1>4 DEF GraceEnds, ClaimInv, Online
  <2> QED BY <1>4, <2>1 DEF GraceEnds, ClaimInv
<1>5. CASE Connect
  BY <1>5 DEF Connect, ClaimInv, Online
<1>6. CASE Subscribed
  BY <1>6 DEF Subscribed, OnChange, ClaimInv, Online
<1>7. CASE Flushed
  <2>1. claimed'["bridge"] = Now
    BY <1>2, <1>7, PublishClaims DEF Flushed, Types
  <2> QED BY <1>7, <2>1 DEF Flushed, ClaimInv, Now, StateOf, Online
<1>8. CASE Serve
  BY <1>8 DEF Serve, ClaimInv, Online
<1>9. CASE Lose
  BY <1>9 DEF Lose, BreakOff, OnChange, ClaimInv, Online
<1>10. CASE PublishWill
  BY <1>10 DEF PublishWill, ClaimInv, Online
<1>11. CASE StartReader \/ Started
  BY <1>11 DEF StartReader, Started, ClaimInv, Online
<1>12. CASE Load
  BY <1>12 DEF Load, ClaimInv, Online
<1>13. CASE FinishLoad
  <2>1. Publish("start", "bridge", StateOf(Online(mqttUp, sysapUp, TRUE)))
    BY <1>13 DEF FinishLoad
  <2>2. claimed' = [claimed EXCEPT !["bridge"] = StateOf(Online(mqttUp, sysapUp, TRUE))]
    BY <1>2, <2>1, PublishClaims
  <2>3. claimed'["bridge"] = StateOf(Online(mqttUp, sysapUp, TRUE))
    BY <1>2, <2>2 DEF Types
  <2> QED BY <1>13, <2>3 DEF FinishLoad, ClaimInv, StateOf, Online
<1>14. CASE WsConnected
  BY <1>14 DEF WsConnected, OnChange, ClaimInv, Online
<1>15. CASE ResyncBridge
  <2>1. claimed'["bridge"] = Now
    <3>1. CASE Raises("bridge", Now)
      BY <1>2, <1>15, <3>1 DEF ResyncBridge, Types
    <3>2. CASE ~Raises("bridge", Now)
      BY <1>2, <1>15, <3>2, PublishClaims DEF ResyncBridge, Types
    <3> QED BY <3>1, <3>2
  <2> QED BY <1>15, <2>1 DEF ResyncBridge, ClaimInv, Now, StateOf, Online
<1>16. CASE ResyncDevice
  <2>1. claimed'["bridge"] = claimed["bridge"]
    BY <1>2, <1>16, PublishClaims DEF ResyncDevice, Types
  <2> QED BY <1>3, <1>16, <2>1 DEF ResyncDevice
<1>17. CASE Republish \/ Return \/ Receive \/ ResyncEnds
  BY <1>3, <1>17 DEF Republish, Return, Receive, ResyncEnds
<1>18. CASE DeviceChanges \/ WsLost \/ Reload
  BY <1>3, <1>18 DEF DeviceChanges, WsLost, Reload
<1>19. CASE UNCHANGED vars
  BY <1>3, <1>19 DEF vars
<1> QED
  BY <1>1, <1>4, <1>5, <1>6, <1>7, <1>8, <1>9, <1>10, <1>11, <1>12, <1>13, <1>14, <1>15, <1>16,
     <1>17, <1>18, <1>19
  DEF Next, Run

----------------------------------------------------------------------------
(* A task awaits one publish at a time.                                    *)

LEMMA PublishAwaits ==
    ASSUME NEW c, NEW t, NEW s, Publish(c, t, s), NEW d, d # c, Idle(d)
    PROVE  Idle(d)'
<1>1. awaiting' \subseteq awaiting \cup {[topic |-> t, state |-> s, by |-> c]}
  BY DEF Publish, Send
<1> QED BY <1>1 DEF Idle

LEMMA FewerAwaited ==
    ASSUME awaiting' \subseteq awaiting, NEW d, Idle(d)
    PROVE  Idle(d)'
  BY DEF Idle

LEMMA IdleInit == Init => IdleInv
  BY DEF Init, IdleInv, Idle

LEMMA IdleStep == IdleInv /\ [Next]_vars /\ Alive' => IdleInv'
<1> SUFFICES ASSUME IdleInv, [Next]_vars, Alive' PROVE IdleInv'
  OBVIOUS
<1>1. Alive /\ ~Stop /\ ~Stopping /\ ~Close
  BY StaysAlive
<1>2. CASE awaiting' \subseteq awaiting /\ UNCHANGED <<link, stage, resyncing>>
  BY <1>2, FewerAwaited DEF IdleInv
<1>3. CASE GraceEnds
  BY <1>3, PublishAwaits DEF GraceEnds, IdleInv
<1>4. CASE Flushed
  BY <1>4, PublishAwaits DEF Flushed, IdleInv
<1>5. CASE Connect \/ Subscribed \/ Serve
  BY <1>5, FewerAwaited DEF Connect, Subscribed, Serve, IdleInv
<1>6. CASE Lose
  <2>1. \A c : Idle(c)'
    BY <1>6 DEF Lose, Idle
  <2> QED BY <2>1 DEF IdleInv
<1>7. CASE Load
  <2>1. CASE Up
    BY <1>7, <2>1, PublishAwaits DEF Load, IdleInv
  <2>2. CASE ~Up
    BY <1>7, <2>2 DEF Load, Alive
  <2> QED BY <2>1, <2>2
<1>8. CASE FinishLoad
  <2>1. PICK s : Publish("start", "bridge", s)
    BY <1>8 DEF FinishLoad
  <2>2. stage' = "starting" /\ UNCHANGED <<link, resyncing>>
    BY <1>8 DEF FinishLoad, Alive
  <2>3. \A c : c # "start" /\ Idle(c) => Idle(c)'
    BY <2>1, PublishAwaits
  <2> QED BY <2>2, <2>3 DEF IdleInv
<1>9. CASE Started \/ StartReader
  BY <1>9, FewerAwaited DEF Started, StartReader, IdleInv
<1>10. CASE WsConnected \/ Reload
  BY <1>10, FewerAwaited DEF WsConnected, Reload, BeginResync, IdleInv
<1>11. CASE ResyncBridge
  <2>1. CASE Raises("bridge", Now)
    BY <1>11, <2>1, FewerAwaited DEF ResyncBridge, IdleInv
  <2>2. CASE ~Raises("bridge", Now)
    BY <1>11, <2>2, PublishAwaits DEF ResyncBridge, IdleInv
  <2> QED BY <2>1, <2>2
<1>12. CASE ResyncDevice
  <2>1. CASE ~Raises("device", fetched)
    BY <1>12, <2>1, PublishAwaits DEF ResyncDevice, IdleInv
  <2>2. CASE Raises("device", fetched)
    <3>1. awaiting' = awaiting
      BY <1>12, <2>2 DEF ResyncDevice, Publish, Raises
    <3> QED BY <1>12, <3>1, FewerAwaited DEF ResyncDevice, IdleInv
  <2> QED BY <2>1, <2>2
<1>13. CASE ResyncEnds
  BY <1>13, FewerAwaited DEF ResyncEnds, IdleInv
<1>14. CASE Return
  BY <1>2, <1>14 DEF Return
<1>15. CASE Republish \/ Receive \/ PublishWill
  BY <1>2, <1>15 DEF Republish, Receive, PublishWill
<1>16. CASE DeviceChanges \/ WsLost
  BY <1>2, <1>16 DEF DeviceChanges, WsLost
<1>17. CASE UNCHANGED vars
  BY <1>2, <1>17 DEF vars
<1> QED
  BY <1>1, <1>3, <1>4, <1>5, <1>6, <1>7, <1>8, <1>9, <1>10, <1>11, <1>12, <1>13, <1>14, <1>15, <1>16,
     <1>17
  DEF Next, Run

----------------------------------------------------------------------------
(* What a step does to the queues.                                         *)

\* It leaves them alone, and the broker too while the connection serves.
Quiet ==
    /\ UNCHANGED <<claimed, wire, calls, lost, last, raced>>
    /\ link' = "down" => link = "down"
    /\ link' = "serving" => \/ republish' = Topics
                            \/ link = "serving" /\ UNCHANGED <<republish, broker>>

\* A task publishes.
Publishing(c, t, s) ==
    /\ Idle(c)
    /\ Publish(c, t, s)
    /\ UNCHANGED <<last, republish, broker, raced>>
    /\ \/ link' = link
       \/ link = "flushing" /\ link' = "publishing"

\* A resync that cannot publish.
Skipping ==
    /\ ~Up
    /\ lost' = Topics
    /\ UNCHANGED <<link, wire, calls, last>>

LEMMA Moves ==
    ASSUME Types, IdleInv, ClaimInv, [Next]_vars, Alive'
    PROVE  \/ Quiet \/ Skipping \/ Republish \/ Lose \/ Return \/ Receive
           \/ \E c \in Tasks, t \in Topics, s \in States : Publishing(c, t, s)
<1>1. Alive /\ ~Stop /\ ~Stopping /\ ~Close
  BY StaysAlive
<1>2. Now \in States /\ "offline" \in States /\ "bridge" \in Topics /\ "device" \in Topics
  BY NowIsState DEF Now, States, Topics
<1>3. \A c \in {"connect", "start", "resync", "grace", "stop"} : c \in Tasks
  BY DEF Tasks
<1>4. CASE GraceEnds
  <2>1. Publishing("grace", "bridge", "offline")
    BY <1>4 DEF GraceEnds, Publishing
  <2> QED BY <1>2, <1>3, <2>1
<1>5. CASE Flushed
  <2>1. Publishing("connect", "bridge", Now)
    BY <1>5 DEF Flushed, Publishing, IdleInv
  <2> QED BY <1>2, <1>3, <2>1
<1>6. CASE Load
  <2>1. Publishing("start", "device", device)
    BY <1>6 DEF Load, Publishing, IdleInv, Alive
  <2> QED BY <1>2, <1>3, <2>1 DEF Types
<1>7. CASE FinishLoad
  <2>1. StateOf(Online(mqttUp, sysapUp, TRUE)) \in States
    BY NowIsState
  <2>2. Publishing("start", "bridge", StateOf(Online(mqttUp, sysapUp, TRUE)))
    BY <1>7 DEF FinishLoad, Publishing
  <2> QED BY <1>2, <1>3, <2>1, <2>2
<1>8. CASE ResyncBridge
  <2>1. CASE Raises("bridge", Now)
    BY <1>8, <2>1 DEF ResyncBridge, Raises, Skipping
  <2>2. CASE ~Raises("bridge", Now)
    <3>1. Publishing("resync", "bridge", Now)
      BY <1>8, <2>2 DEF ResyncBridge, Publishing, IdleInv
    <3> QED BY <1>2, <1>3, <3>1
  <2> QED BY <2>1, <2>2
<1>9. CASE ResyncDevice
  <2>1. Publishing("resync", "device", fetched)
    BY <1>9 DEF ResyncDevice, Publishing
  <2> QED BY <1>2, <1>3, <2>1 DEF Types
<1>10. CASE Connect \/ Subscribed \/ Serve
  BY <1>10 DEF Connect, Subscribed, Serve, Quiet
<1>11. CASE PublishWill
  <2>1. link = "down"
    BY <1>11 DEF PublishWill, ClaimInv, Up
  <2> QED BY <1>11, <2>1 DEF PublishWill, Quiet
<1>12. CASE StartReader \/ Started \/ ResyncEnds
  BY <1>12 DEF StartReader, Started, ResyncEnds, Quiet
<1>13. CASE DeviceChanges \/ WsLost \/ WsConnected \/ Reload
  BY <1>13 DEF DeviceChanges, WsLost, WsConnected, Reload, Quiet
<1>14. CASE UNCHANGED vars
  BY <1>14 DEF vars, Quiet
<1> QED
  BY <1>1, <1>4, <1>5, <1>6, <1>7, <1>8, <1>9, <1>10, <1>11, <1>12, <1>13, <1>14 DEF Next, Run

----------------------------------------------------------------------------
(* What is awaited is on its way.                                          *)

\* The publish of an idle task is none of those awaited.
LEMMA SendFlows ==
    ASSUME Types, FlowInv, NEW c \in Tasks, NEW t \in Topics, NEW s \in States,
           Idle(c), Send(c, t, s), link' # "down"
    PROVE  FlowInv'
<1> DEFINE m == [topic |-> t, state |-> s, by |-> c]
<1>1. m \in TaskMessage /\ m \in Message /\ m \notin awaiting
  BY Messages DEF Idle
<1>2. wire' = Append(wire, m) /\ awaiting' = awaiting \cup {m} /\ acks' = acks
  BY DEF Send
<1> HIDE DEF m
<1>3. wire \in Seq(Message)
  BY DEF Types
<1>4. /\ Len(wire) \in Nat /\ DOMAIN wire = 1..Len(wire)
      /\ DOMAIN wire' = 1..(Len(wire) + 1)
      /\ \A j \in 1..Len(wire) : wire'[j] = wire[j]
      /\ wire'[Len(wire) + 1] = m
  BY <1>1, <1>2, <1>3, Appended
<1>5. \A j \in DOMAIN wire' : (j \in DOMAIN wire /\ wire'[j] = wire[j]) \/ (j = Len(wire) + 1 /\ wire'[j] = m)
  BY <1>4
<1>6. \A i \in DOMAIN acks' : acks'[i] \in awaiting'
  BY <1>2 DEF FlowInv
<1>7. \A i \in DOMAIN wire' : wire'[i].by \in Tasks => wire'[i] \in awaiting'
  BY <1>2, <1>5 DEF FlowInv
<1>8. ASSUME NEW n \in awaiting'
      PROVE  \/ \E i \in DOMAIN acks' : acks'[i] = n
             \/ \E i \in DOMAIN wire' : wire'[i] = n
  <2>1. CASE n = m
    BY <1>4, <2>1
  <2>2. CASE n # m
    <3>1. \/ \E i \in DOMAIN acks : acks[i] = n
          \/ \E i \in DOMAIN wire : wire[i] = n
      BY <1>2, <1>8, <2>2 DEF FlowInv
    <3>2. \A i \in DOMAIN wire : i \in DOMAIN wire' /\ wire'[i] = wire[i]
      BY <1>4
    <3> QED BY <1>2, <3>1, <3>2
  <2> QED BY <2>1, <2>2
<1>9. \A i, j \in DOMAIN acks' : acks'[i] = acks'[j] => i = j
  BY <1>2 DEF FlowInv
<1>10. \A i \in DOMAIN wire : wire[i] # m
  <2>1. m.by \in Tasks
    BY <1>1, Messages
  <2> QED BY <1>1, <2>1 DEF FlowInv
<1>11. ASSUME NEW i \in DOMAIN wire', NEW j \in DOMAIN wire', wire'[i].by \in Tasks, wire'[i] = wire'[j]
       PROVE  i = j
  BY <1>5, <1>10, <1>11 DEF FlowInv
<1>12. \A i \in DOMAIN acks', j \in DOMAIN wire' : acks'[i] # wire'[j]
  BY <1>1, <1>2, <1>5 DEF FlowInv
<1> QED BY <1>6, <1>7, <1>8, <1>9, <1>11, <1>12 DEF FlowInv

\* What the delayed republish adds to the queue, if anything.
LEMMA Republished ==
    ASSUME Types, Republish
    PROVE  \E t \in republish :
              /\ t \in Topics /\ republish' = republish \ {t}
              /\ raced' = IF \E m \in awaiting : m.topic = t THEN raced \cup {t} ELSE raced
              /\ UNCHANGED <<link, last, claimed, broker, calls, lost>>
              /\ \/ last[t] = Unset /\ wire' = wire
                 \/ \E m \in Message : /\ m.topic = t /\ m.state = last[t] /\ m.by \notin Tasks
                                       /\ wire' = Append(wire, m)
<1>1. PICK t \in republish : RepublishTopic(t)
  BY DEF Republish
<1>2. t \in Topics
  BY DEF Types
<1> DEFINE m == [topic |-> t, state |-> last[t], by |-> "republish"]
<1>3. last[t] = Unset \/ m \in Message
  BY <1>2, Messages DEF Types
<1>4. m.topic = t /\ m.state = last[t] /\ m.by \notin Tasks
  BY DEF Tasks
<1>5. \/ last[t] = Unset /\ wire' = wire
      \/ last[t] # Unset /\ wire' = Append(wire, m)
  BY <1>1 DEF RepublishTopic
<1> HIDE DEF m
<1>6. \/ last[t] = Unset /\ wire' = wire
      \/ \E n \in Message : /\ n.topic = t /\ n.state = last[t] /\ n.by \notin Tasks
                            /\ wire' = Append(wire, n)
  BY <1>3, <1>4, <1>5
<1>7. /\ republish' = republish \ {t}
      /\ raced' = IF \E n \in awaiting : n.topic = t THEN raced \cup {t} ELSE raced
      /\ UNCHANGED <<link, last, claimed, broker, calls, lost>>
  BY <1>1 DEF Republish, RepublishTopic
<1> QED BY <1>1, <1>2, <1>6, <1>7

LEMMA RepublishFlows ==
    ASSUME Types, FlowInv, Republish
    PROVE  FlowInv'
<1>1. link = "serving" /\ UNCHANGED <<link, calls>>
  BY DEF Republish
<1>2. CASE wire' = wire
  BY <1>1, <1>2 DEF FlowInv
<1>3. ASSUME NEW m \in Message, m.by \notin Tasks, wire' = Append(wire, m) PROVE FlowInv'
  <2>1. wire \in Seq(Message)
    BY DEF Types
  <2>2. /\ Len(wire) \in Nat /\ DOMAIN wire = 1..Len(wire)
        /\ DOMAIN wire' = 1..(Len(wire) + 1)
        /\ \A j \in 1..Len(wire) : wire'[j] = wire[j]
        /\ wire'[Len(wire) + 1] = m
    BY <1>3, <2>1, Appended
  <2>3. \A j \in DOMAIN wire' : wire'[j].by \in Tasks => j \in DOMAIN wire /\ wire'[j] = wire[j]
    BY <1>3, <2>2
  <2>4. \A j \in DOMAIN wire : j \in DOMAIN wire' /\ wire'[j] = wire[j]
    BY <2>2
  <2>5. \A j \in DOMAIN acks : acks[j].by \in Tasks
    <3>1. \A n \in TaskMessage : n.by \in Tasks
      BY DEF TaskMessage
    <3>2. \A j \in DOMAIN acks : acks[j] \in awaiting
      BY DEF FlowInv
    <3> QED BY <3>1, <3>2 DEF Types
  <2>6. \A i \in DOMAIN acks', j \in DOMAIN wire' : acks'[i] # wire'[j]
    BY <1>1, <2>3, <2>5 DEF FlowInv
  <2>7. \A i, j \in DOMAIN wire' : wire'[i].by \in Tasks /\ wire'[i] = wire'[j] => i = j
    BY <2>3 DEF FlowInv
  <2>8. \A n \in awaiting' : \/ \E i \in DOMAIN acks' : acks'[i] = n
                             \/ \E i \in DOMAIN wire' : wire'[i] = n
    BY <1>1, <2>4 DEF FlowInv
  <2>9. \A i \in DOMAIN wire' : wire'[i].by \in Tasks => wire'[i] \in awaiting'
    BY <1>1, <2>3 DEF FlowInv
  <2> QED BY <1>1, <2>6, <2>7, <2>8, <2>9 DEF FlowInv
<1> QED BY <1>2, <1>3, Republished

LEMMA ReturnFlows ==
    ASSUME Types, FlowInv, Return
    PROVE  FlowInv'
<1> DEFINE m == Head(acks)
<1>1. acks # <<>> /\ acks' = Tail(acks) /\ awaiting' = awaiting \ {m} /\ UNCHANGED <<link, wire>>
  BY DEF Return
<1>2. acks \in Seq(TaskMessage)
  BY DEF Types
<1>3. /\ 1 \in DOMAIN acks /\ acks[1] = m
      /\ \A j \in DOMAIN acks' : j + 1 \in DOMAIN acks /\ acks'[j] = acks[j + 1] /\ j + 1 # 1
      /\ \A j \in DOMAIN acks : j # 1 => j - 1 \in DOMAIN acks' /\ acks'[j - 1] = acks[j]
      /\ DOMAIN acks' \subseteq Nat
      /\ \A j \in DOMAIN acks' : j # 0
  BY <1>1, <1>2, Shortened
<1> HIDE DEF m
<1>4. \A j \in DOMAIN acks' : acks'[j] \in awaiting /\ acks'[j] # m
  BY <1>3 DEF FlowInv
<1>5. \A j \in DOMAIN wire : wire[j] # m
  BY <1>3 DEF FlowInv
<1>6. ASSUME NEW n \in awaiting'
      PROVE  \/ \E i \in DOMAIN acks' : acks'[i] = n
             \/ \E i \in DOMAIN wire' : wire'[i] = n
  <2>1. n \in awaiting /\ n # m
    BY <1>1, <1>6
  <2>2. CASE \E i \in DOMAIN acks : acks[i] = n
    <3>1. PICK i \in DOMAIN acks : acks[i] = n
      BY <2>2
    <3>2. i # 1
      BY <1>3, <2>1, <3>1
    <3> QED BY <1>3, <3>1, <3>2
  <2>3. CASE \E i \in DOMAIN wire : wire[i] = n
    BY <1>1, <2>3
  <2> QED BY <2>1, <2>2, <2>3 DEF FlowInv
<1>7. \A i, j \in DOMAIN acks' : acks'[i] = acks'[j] => i = j
  <2> SUFFICES ASSUME NEW i \in DOMAIN acks', NEW j \in DOMAIN acks', acks'[i] = acks'[j] PROVE i = j
    OBVIOUS
  <2>1. i + 1 = j + 1
    BY <1>3 DEF FlowInv
  <2> QED BY <1>3, <2>1
<1>8. \A i \in DOMAIN acks', j \in DOMAIN wire' : acks'[i] # wire'[j]
  BY <1>1, <1>3 DEF FlowInv
<1>9. link # "down"
  BY <1>1 DEF FlowInv
<1> QED BY <1>1, <1>4, <1>5, <1>6, <1>7, <1>8, <1>9 DEF FlowInv

LEMMA ReceiveFlows ==
    ASSUME Types, FlowInv, Receive
    PROVE  FlowInv'
<1> DEFINE m == Head(wire)
<1>1. /\ wire # <<>> /\ wire' = Tail(wire) /\ UNCHANGED <<link, awaiting>>
      /\ acks' = IF m \in awaiting THEN Append(acks, m) ELSE acks
  BY DEF Receive
<1>2. wire \in Seq(Message) /\ acks \in Seq(TaskMessage)
  BY DEF Types
<1>3. /\ 1 \in DOMAIN wire /\ wire[1] = m
      /\ \A j \in DOMAIN wire' : j + 1 \in DOMAIN wire /\ wire'[j] = wire[j + 1] /\ j + 1 # 1
      /\ \A j \in DOMAIN wire : j # 1 => j - 1 \in DOMAIN wire' /\ wire'[j - 1] = wire[j]
      /\ \A i, j \in DOMAIN wire' : i + 1 = j + 1 => i = j
  BY <1>1, <1>2, Shortened
<1> HIDE DEF m
<1>4. link # "down"
  BY <1>1 DEF FlowInv
<1>5. \A i \in DOMAIN wire' : wire'[i].by \in Tasks => wire'[i] \in awaiting' /\ wire'[i] # m
  BY <1>1, <1>3 DEF FlowInv
<1>6. \A i, j \in DOMAIN wire' : wire'[i].by \in Tasks /\ wire'[i] = wire'[j] => i = j
  <2> SUFFICES ASSUME NEW i \in DOMAIN wire', NEW j \in DOMAIN wire',
                      wire'[i].by \in Tasks, wire'[i] = wire'[j]
               PROVE  i = j
    OBVIOUS
  <2>1. i + 1 = j + 1
    BY <1>3 DEF FlowInv
  <2> QED BY <1>3, <2>1
<1>7. CASE m \in awaiting
  <2>1. m \in TaskMessage /\ acks' = Append(acks, m) /\ m.by \in Tasks
    BY <1>1, <1>7 DEF Types, TaskMessage
  <2>2. /\ Len(acks) \in Nat /\ DOMAIN acks = 1..Len(acks)
        /\ DOMAIN acks' = 1..(Len(acks) + 1)
        /\ \A j \in 1..Len(acks) : acks'[j] = acks[j]
        /\ acks'[Len(acks) + 1] = m
    BY <1>2, <2>1, Appended
  <2>3. \A j \in DOMAIN acks' :
           (j \in DOMAIN acks /\ acks'[j] = acks[j]) \/ (j = Len(acks) + 1 /\ acks'[j] = m)
    BY <2>2
  <2>4. \A j \in DOMAIN acks : acks[j] # m
    BY <1>3 DEF FlowInv
  <2>5. \A i \in DOMAIN acks' : acks'[i] \in awaiting'
    BY <1>1, <1>7, <2>3 DEF FlowInv
  <2>6. \A i, j \in DOMAIN acks' : acks'[i] = acks'[j] => i = j
    BY <2>3, <2>4 DEF FlowInv
  <2>7. \A i \in DOMAIN acks', j \in DOMAIN wire' : acks'[i] # wire'[j]
    <3> SUFFICES ASSUME NEW i \in DOMAIN acks', NEW j \in DOMAIN wire', acks'[i] = wire'[j] PROVE FALSE
      OBVIOUS
    <3>1. CASE i \in DOMAIN acks /\ acks'[i] = acks[i]
      <4>1. j + 1 \in DOMAIN wire /\ wire'[j] = wire[j + 1]
        BY <1>3
      <4>2. acks[i] # wire[j + 1]
        BY <3>1, <4>1 DEF FlowInv
      <4> QED BY <3>1, <4>1, <4>2
    <3>2. CASE acks'[i] = m
      BY <1>5, <2>1, <3>2
    <3> QED BY <2>3, <3>1, <3>2
  <2>8. ASSUME NEW n \in awaiting'
        PROVE  \/ \E i \in DOMAIN acks' : acks'[i] = n
               \/ \E i \in DOMAIN wire' : wire'[i] = n
    <3>1. CASE n = m
      BY <2>2, <3>1
    <3>2. CASE n # m
      <4>1. \/ \E i \in DOMAIN acks : acks[i] = n
            \/ \E i \in DOMAIN wire : wire[i] = n /\ i # 1
        BY <1>1, <1>3, <2>8, <3>2 DEF FlowInv
      <4>2. \A i \in DOMAIN acks : i \in DOMAIN acks' /\ acks'[i] = acks[i]
        BY <2>2
      <4> QED BY <1>3, <4>1, <4>2
    <3> QED BY <3>1, <3>2
  <2> QED BY <1>4, <1>1, <1>5, <1>6, <2>5, <2>6, <2>7, <2>8 DEF FlowInv
<1>8. CASE m \notin awaiting
  <2>1. acks' = acks /\ awaiting' = awaiting
    BY <1>1, <1>8
  <2>2. \A n \in awaiting' : \/ \E i \in DOMAIN acks' : acks'[i] = n
                             \/ \E i \in DOMAIN wire' : wire'[i] = n
    <3> SUFFICES ASSUME NEW n \in awaiting, ~ \E i \in DOMAIN acks : acks[i] = n
                 PROVE  \E i \in DOMAIN wire' : wire'[i] = n
      BY <2>1
    <3>1. PICK i \in DOMAIN wire : wire[i] = n
      BY DEF FlowInv
    <3>2. i # 1
      BY <1>3, <1>8, <3>1
    <3> QED BY <1>3, <3>1, <3>2
  <2>3. \A i \in DOMAIN acks', j \in DOMAIN wire' : acks'[i] # wire'[j]
    BY <1>3, <2>1 DEF FlowInv
  <2>4. \A i \in DOMAIN acks' : acks'[i] \in awaiting'
    BY <2>1 DEF FlowInv
  <2>5. \A i, j \in DOMAIN acks' : acks'[i] = acks'[j] => i = j
    BY <2>1 DEF FlowInv
  <2> QED BY <1>1, <1>4, <1>5, <1>6, <2>2, <2>3, <2>4, <2>5 DEF FlowInv
<1> QED BY <1>7, <1>8

LEMMA FlowInit == Init => FlowInv
<1> SUFFICES ASSUME Init PROVE FlowInv
  OBVIOUS
<1>1. wire = <<>> /\ acks = <<>> /\ awaiting = {} /\ DOMAIN <<>> = {}
  BY DEF Init
<1> QED BY <1>1 DEF FlowInv

LEMMA FlowStep ==
    Types /\ IdleInv /\ ClaimInv /\ FlowInv /\ [Next]_vars /\ Alive' => FlowInv'
<1> SUFFICES ASSUME Types, IdleInv, ClaimInv, FlowInv, [Next]_vars, Alive' PROVE FlowInv'
  OBVIOUS
<1>1. CASE UNCHANGED <<wire, calls>> /\ (link' = "down" => link = "down")
  BY <1>1 DEF FlowInv
<1>2. CASE Quiet \/ Skipping
  BY <1>1, <1>2 DEF Quiet, Skipping
<1>3. CASE Lose
  <2>1. wire' = <<>> /\ acks' = <<>> /\ awaiting' = {} /\ DOMAIN <<>> = {}
    BY <1>3 DEF Lose, BreakOff
  <2> QED BY <2>1 DEF FlowInv
<1>4. ASSUME NEW c \in Tasks, NEW t \in Topics, NEW s \in States, Publishing(c, t, s) PROVE FlowInv'
  <2>1. CASE Send(c, t, s) /\ link' # "down"
    BY <1>4, <2>1, SendFlows DEF Publishing
  <2>2. CASE ~(Send(c, t, s) /\ link' # "down")
    BY <1>1, <1>4, <2>2 DEF Publishing, Publish, Up
  <2> QED BY <2>1, <2>2
<1> QED BY <1>2, <1>3, <1>4, Moves, RepublishFlows, ReturnFlows, ReceiveFlows

----------------------------------------------------------------------------
(* What was said last is what is claimed.                                  *)

LEMMA SaidInit == Init => SaidInv
<1> SUFFICES ASSUME Init PROVE SaidInv
  OBVIOUS
<1>1. wire = <<>> /\ acks = <<>> /\ DOMAIN <<>> = {} /\ \A t \in Topics : last[t] = claimed[t]
  BY DEF Init
<1> QED BY <1>1 DEF SaidInv, LastIn

\* With nothing awaited nothing of a task is on its way.
LEMMA NothingAwaited ==
    ASSUME Types, FlowInv, NEW t, \A m \in awaiting : m.topic # t
    PROVE  NoneIn(wire, Mine(t)) /\ NoneIn(acks, Mine(t))
<1>1. \A m \in TaskMessage : m.by \in Tasks
  BY DEF TaskMessage
<1> QED BY <1>1 DEF NoneIn, Mine, FlowInv

LEMMA SaidSend ==
    ASSUME Types, SaidInv, NEW c \in Tasks, NEW u \in Topics, NEW s \in States,
           Send(c, u, s), claimed' = [claimed EXCEPT ![u] = s], UNCHANGED <<last, lost>>
    PROVE  SaidInv'
<1> DEFINE m == [topic |-> u, state |-> s, by |-> c]
<1>1. m \in TaskMessage /\ m \in Message /\ m.topic = u /\ m.state = s
  BY Messages
<1>2. wire' = Append(wire, m) /\ acks' = acks
  BY DEF Send
<1> HIDE DEF m
<1>3. \A t : m \in Mine(t) <=> t = u
  BY <1>1 DEF Mine
<1>4. wire \in Seq(Message)
  BY DEF Types
<1>5. claimed'[u] = s /\ \A t \in Topics : t # u => claimed'[t] = claimed[t]
  BY DEF Types
<1> SUFFICES ASSUME NEW t \in Topics
             PROVE  /\ \A i \in DOMAIN wire' : LastIn(wire', Mine(t), i) => wire'[i].state = claimed'[t]
                    /\ \A i \in DOMAIN acks' :
                          LastIn(acks', Mine(t), i) /\ NoneIn(wire', Mine(t)) => acks'[i].state = claimed'[t]
                    /\ t \notin lost' /\ NoneIn(wire', Mine(t)) /\ NoneIn(acks', Mine(t))
                          => last'[t] = claimed'[t]
  BY DEF SaidInv
<1>6. NoneIn(wire', Mine(t)) <=> NoneIn(wire, Mine(t)) /\ t # u
  BY <1>1, <1>2, <1>3, <1>4, NoneAppended
<1>7. ASSUME NEW i \in DOMAIN wire', LastIn(wire', Mine(t), i) PROVE wire'[i].state = claimed'[t]
  <2>1. \/ m \in Mine(t) /\ wire'[i] = m
        \/ m \notin Mine(t) /\ LastIn(wire, Mine(t), i) /\ wire'[i] = wire[i]
    BY <1>1, <1>2, <1>4, <1>7, LastAppended
  <2>2. LastIn(wire, Mine(t), i) => wire[i].state = claimed[t]
    BY DEF SaidInv, LastIn
  <2> QED BY <1>1, <1>3, <1>5, <2>1, <2>2
<1>8. \A i \in DOMAIN acks : LastIn(acks, Mine(t), i) /\ NoneIn(wire, Mine(t)) => acks[i].state = claimed[t]
  BY DEF SaidInv
<1>9. t \notin lost /\ NoneIn(wire, Mine(t)) /\ NoneIn(acks, Mine(t)) => last[t] = claimed[t]
  BY DEF SaidInv
<1> QED BY <1>2, <1>5, <1>6, <1>7, <1>8, <1>9

\* The queues hold nothing, and the topics claimed anew count as lost.
LEMMA SaidNothing ==
    ASSUME wire' = <<>>, acks' = <<>>,
           \A t \in Topics : t \notin lost' => last'[t] = claimed'[t]
    PROVE  SaidInv'
<1>1. DOMAIN <<>> = {}
  OBVIOUS
<1> QED BY <1>1 DEF SaidInv, LastIn

LEMMA SaidRepublish ==
    ASSUME Types, SaidInv, Republish
    PROVE  SaidInv'
<1>1. CASE wire' = wire
  BY <1>1 DEF Republish, SaidInv, LastIn, NoneIn
<1>2. ASSUME NEW m \in Message, m.by \notin Tasks, wire' = Append(wire, m) PROVE SaidInv'
  <2>1. wire \in Seq(Message)
    BY DEF Types
  <2>2. \A t : m \notin Mine(t)
    BY <1>2 DEF Mine, TaskMessage
  <2>3. \A t : NoneIn(wire', Mine(t)) <=> NoneIn(wire, Mine(t))
    BY <1>2, <2>1, <2>2, NoneAppended
  <2>4. \A t, i : LastIn(wire', Mine(t), i) => LastIn(wire, Mine(t), i) /\ wire'[i] = wire[i]
    BY <1>2, <2>1, <2>2, LastAppended
  <2>5. \A t, i : LastIn(wire, Mine(t), i) => i \in DOMAIN wire
    BY DEF LastIn
  <2>6. UNCHANGED <<claimed, acks, last, lost>>
    BY DEF Republish
  <2>7. \A t, i : LastIn(acks', Mine(t), i) <=> LastIn(acks, Mine(t), i)
    BY <2>6
  <2>8. \A t : NoneIn(acks', Mine(t)) <=> NoneIn(acks, Mine(t))
    BY <2>6
  <2> QED BY <2>3, <2>4, <2>5, <2>6, <2>7, <2>8 DEF SaidInv
<1> QED BY <1>1, <1>2, Republished

LEMMA SaidReturn ==
    ASSUME Types, SaidInv, Return
    PROVE  SaidInv'
<1> DEFINE m == Head(acks)
<1>1. /\ acks # <<>> /\ acks' = Tail(acks) /\ UNCHANGED <<wire, claimed>>
      /\ last' = [last EXCEPT ![m.topic] = m.state]
      /\ lost' = IF m.state = claimed[m.topic] THEN lost \ {m.topic} ELSE lost
  BY DEF Return
<1>2. acks \in Seq(TaskMessage)
  BY DEF Types
<1>3. m \in TaskMessage /\ m = acks[1] /\ m.topic \in Topics
  BY <1>1, <1>2, Shortened, Messages
<1> HIDE DEF m
<1>4. \A t : m \in Mine(t) <=> t = m.topic
  BY <1>3 DEF Mine
<1> SUFFICES ASSUME NEW t \in Topics
             PROVE  /\ \A i \in DOMAIN wire' : LastIn(wire', Mine(t), i) => wire'[i].state = claimed'[t]
                    /\ \A i \in DOMAIN acks' :
                          LastIn(acks', Mine(t), i) /\ NoneIn(wire', Mine(t)) => acks'[i].state = claimed'[t]
                    /\ t \notin lost' /\ NoneIn(wire', Mine(t)) /\ NoneIn(acks', Mine(t))
                          => last'[t] = claimed'[t]
  BY DEF SaidInv
<1>5. \A i \in DOMAIN wire' : LastIn(wire', Mine(t), i) => wire'[i].state = claimed'[t]
  BY <1>1 DEF SaidInv
<1>6. ASSUME NEW i \in DOMAIN acks', LastIn(acks', Mine(t), i), NoneIn(wire', Mine(t))
      PROVE  acks'[i].state = claimed'[t]
  <2>1. LastIn(acks, Mine(t), i + 1) /\ acks'[i] = acks[i + 1]
    BY <1>1, <1>2, <1>6, LastOfTail
  <2>2. NoneIn(wire, Mine(t))
    BY <1>1, <1>6
  <2>3. i + 1 \in DOMAIN acks
    BY <2>1 DEF LastIn
  <2> QED BY <1>1, <2>1, <2>2, <2>3 DEF SaidInv
<1>7. ASSUME t \notin lost', NoneIn(wire', Mine(t)), NoneIn(acks', Mine(t))
      PROVE  last'[t] = claimed'[t]
  <2>1. NoneIn(wire, Mine(t))
    BY <1>1, <1>7
  <2>2. CASE t = m.topic
    <3>1. LastIn(acks, Mine(t), 1)
      <4>1. Head(acks) \in Mine(t)
        BY <1>4, <2>2 DEF m
      <4> QED BY <1>1, <1>2, <1>7, <4>1, NoneOfTail
    <3>2. acks[1].state = claimed[t]
      BY <2>1, <3>1 DEF SaidInv, LastIn
    <3> QED BY <1>1, <1>3, <2>2, <3>2 DEF Types
  <2>3. CASE t # m.topic
    <3>1. Head(acks) \notin Mine(t)
      BY <1>4, <2>3 DEF m
    <3>2. NoneIn(acks, Mine(t))
      BY <1>1, <1>2, <1>7, <3>1, NoneOfTail
    <3>3. last'[t] = last[t] /\ t \notin lost
      BY <1>1, <1>7, <2>3 DEF Types
    <3> QED BY <1>1, <2>1, <3>2, <3>3 DEF SaidInv
  <2> QED BY <2>2, <2>3
<1> QED BY <1>5, <1>6, <1>7

LEMMA SaidReceive ==
    ASSUME Types, FlowInv, SaidInv, Receive
    PROVE  SaidInv'
<1> DEFINE m == Head(wire)
<1>1. /\ wire # <<>> /\ wire' = Tail(wire) /\ UNCHANGED <<claimed, last, lost>>
      /\ acks' = IF m \in awaiting THEN Append(acks, m) ELSE acks
  BY DEF Receive
<1>2. wire \in Seq(Message) /\ acks \in Seq(TaskMessage)
  BY DEF Types
<1>3. m \in Message /\ m = wire[1] /\ 1 \in DOMAIN wire
  BY <1>1, <1>2, Shortened
<1>4. m \in awaiting <=> m \in TaskMessage
  BY <1>3, Messages DEF FlowInv, Types
<1> HIDE DEF m
<1> SUFFICES ASSUME NEW t \in Topics
             PROVE  /\ \A i \in DOMAIN wire' : LastIn(wire', Mine(t), i) => wire'[i].state = claimed'[t]
                    /\ \A i \in DOMAIN acks' :
                          LastIn(acks', Mine(t), i) /\ NoneIn(wire', Mine(t)) => acks'[i].state = claimed'[t]
                    /\ t \notin lost' /\ NoneIn(wire', Mine(t)) /\ NoneIn(acks', Mine(t))
                          => last'[t] = claimed'[t]
  BY DEF SaidInv
<1>5. ASSUME NEW i \in DOMAIN wire', LastIn(wire', Mine(t), i) PROVE wire'[i].state = claimed'[t]
  <2>1. LastIn(wire, Mine(t), i + 1) /\ wire'[i] = wire[i + 1]
    BY <1>1, <1>2, <1>5, LastOfTail
  <2>2. i + 1 \in DOMAIN wire
    BY <2>1 DEF LastIn
  <2> QED BY <1>1, <2>1, <2>2 DEF SaidInv
<1>6. CASE m \in Mine(t)
  <2>1. m \in TaskMessage /\ acks' = Append(acks, m)
    BY <1>1, <1>4, <1>6 DEF Mine
  <2>2. ~NoneIn(acks', Mine(t))
    BY <1>2, <1>6, <2>1, NoneAppended
  <2>3. ASSUME NEW i \in DOMAIN acks', LastIn(acks', Mine(t), i), NoneIn(wire', Mine(t))
        PROVE  acks'[i].state = claimed'[t]
    <3>1. acks'[i] = m
      BY <1>2, <1>6, <2>1, <2>3, LastAppended
    <3>2. LastIn(wire, Mine(t), 1)
      <4>1. Head(wire) \in Mine(t)
        BY <1>6 DEF m
      <4> QED BY <1>1, <1>2, <2>3, <4>1, NoneOfTail
    <3>3. wire[1].state = claimed[t]
      BY <1>3, <3>2 DEF SaidInv
    <3> QED BY <1>1, <1>3, <3>1, <3>3
  <2> QED BY <1>5, <2>2, <2>3
<1>7. CASE m \notin Mine(t)
  <2>1. NoneIn(wire', Mine(t)) <=> NoneIn(wire, Mine(t))
    <3>1. Head(wire) \notin Mine(t)
      BY <1>7 DEF m
    <3> QED BY <1>1, <1>2, <3>1, NoneOfTail
  <2>2. /\ NoneIn(acks', Mine(t)) <=> NoneIn(acks, Mine(t))
        /\ \A i : LastIn(acks', Mine(t), i) => LastIn(acks, Mine(t), i) /\ acks'[i] = acks[i]
    <3>1. CASE m \in awaiting
      <4>1. m \in TaskMessage /\ acks' = Append(acks, m)
        BY <1>1, <1>4, <3>1
      <4> QED BY <1>2, <1>7, <4>1, NoneAppended, LastAppended
    <3>2. CASE m \notin awaiting
      BY <1>1, <3>2
    <3> QED BY <3>1, <3>2
  <2>3. \A i : LastIn(acks, Mine(t), i) => i \in DOMAIN acks
    BY DEF LastIn
  <2> QED BY <1>1, <1>5, <2>1, <2>2, <2>3 DEF SaidInv
<1> QED BY <1>6, <1>7

LEMMA SaidLose ==
    ASSUME Types, FlowInv, SaidInv, Lose
    PROVE  SaidInv'
<1>1. /\ wire' = <<>> /\ acks' = <<>> /\ UNCHANGED <<last, claimed>>
      /\ lost \subseteq lost' /\ \A m \in awaiting : m.topic \in lost'
  BY DEF Lose, BreakOff
<1>2. ASSUME NEW t \in Topics, t \notin lost' PROVE last'[t] = claimed'[t]
  <2>1. t \notin lost /\ \A m \in awaiting : m.topic # t
    BY <1>1, <1>2
  <2>2. NoneIn(wire, Mine(t)) /\ NoneIn(acks, Mine(t))
    BY <2>1, NothingAwaited
  <2> QED BY <1>1, <2>1, <2>2 DEF SaidInv
<1> QED BY <1>1, <1>2, SaidNothing

LEMMA SaidStep ==
    Types /\ IdleInv /\ ClaimInv /\ FlowInv /\ SaidInv /\ [Next]_vars /\ Alive' => SaidInv'
<1> SUFFICES ASSUME Types, IdleInv, ClaimInv, FlowInv, SaidInv, [Next]_vars, Alive' PROVE SaidInv'
  OBVIOUS
<1>1. CASE UNCHANGED <<claimed, wire, acks, last, lost>>
  BY <1>1 DEF SaidInv, LastIn, NoneIn
<1>2. CASE Quiet
  BY <1>1, <1>2 DEF Quiet
<1>3. CASE Skipping
  <2>1. wire' = <<>> /\ acks' = <<>> /\ lost' = Topics
    BY <1>3 DEF Skipping, FlowInv, Up
  <2> QED BY <2>1, SaidNothing
<1>4. ASSUME NEW c \in Tasks, NEW t \in Topics, NEW s \in States, Publishing(c, t, s) PROVE SaidInv'
  <2>1. Publish(c, t, s) /\ UNCHANGED last
    BY <1>4 DEF Publishing
  <2>2. CASE claimed[t] = s
    BY <1>1, <2>1, <2>2 DEF Publish
  <2>3. CASE claimed[t] # s /\ Up
    BY <2>1, <2>3, SaidSend DEF Publish
  <2>4. CASE claimed[t] # s /\ ~Up
    <3>1. /\ wire' = <<>> /\ acks' = <<>> /\ wire = <<>> /\ acks = <<>>
          /\ lost' = lost \cup {t} /\ claimed' = [claimed EXCEPT ![t] = s]
      BY <2>1, <2>4 DEF Publish, FlowInv, Up
    <3>2. \A u : NoneIn(wire, Mine(u)) /\ NoneIn(acks, Mine(u))
      BY <3>1 DEF NoneIn
    <3>3. \A u \in Topics : u \notin lost' => last'[u] = claimed'[u]
      BY <2>1, <3>1, <3>2 DEF SaidInv, Types
    <3> QED BY <3>1, <3>3, SaidNothing
  <2> QED BY <2>2, <2>3, <2>4
<1> QED BY <1>2, <1>3, <1>4, Moves, SaidRepublish, SaidReturn, SaidReceive, SaidLose

----------------------------------------------------------------------------
(* What the broker has, or is about to have.                               *)

\* The topics ToldInv speaks of, and what it says.
Due(t) ==
    /\ link = "serving" /\ t \notin republish \cup raced /\ claimed[t] # Unset
    /\ t \notin lost \/ ~NoneIn(wire, Mine(t)) \/ ~NoneIn(acks, Mine(t))

Told(t) ==
    /\ \A i \in DOMAIN wire : LastIn(wire, Of(t), i) => wire[i].state = claimed[t]
    /\ NoneIn(wire, Of(t)) => broker[t] = claimed[t]

LEMMA ToldInit == Init => ToldInv
  BY DEF Init, ToldInv

LEMMA ToldSend ==
    ASSUME Types, ToldInv, NEW c \in Tasks, NEW u \in Topics, NEW s \in States,
           Send(c, u, s), claimed' = [claimed EXCEPT ![u] = s],
           UNCHANGED <<last, lost, republish, raced, broker>>, link' = "serving" => link = "serving",
           NEW t \in Topics, Due(t)'
    PROVE  Told(t)'
<1> DEFINE m == [topic |-> u, state |-> s, by |-> c]
<1>1. m \in TaskMessage /\ m \in Message /\ m.topic = u /\ m.state = s
  BY Messages
<1>2. wire' = Append(wire, m) /\ acks' = acks
  BY DEF Send
<1> HIDE DEF m
<1>3. (m \in Mine(t) <=> t = u) /\ (m \in Of(t) <=> t = u)
  BY <1>1 DEF Mine, Of
<1>4. wire \in Seq(Message)
  BY DEF Types
<1>5. claimed'[u] = s /\ (t # u => claimed'[t] = claimed[t])
  BY DEF Types
<1>6. /\ NoneIn(wire', Mine(t)) <=> NoneIn(wire, Mine(t)) /\ t # u
      /\ NoneIn(wire', Of(t)) <=> NoneIn(wire, Of(t)) /\ t # u
  BY <1>1, <1>2, <1>3, <1>4, NoneAppended
<1>7. t # u => Due(t)
  BY <1>2, <1>5, <1>6 DEF Due
<1>8. ASSUME NEW i \in DOMAIN wire', LastIn(wire', Of(t), i) PROVE wire'[i].state = claimed'[t]
  <2>1. \/ m \in Of(t) /\ wire'[i] = m
        \/ m \notin Of(t) /\ LastIn(wire, Of(t), i) /\ wire'[i] = wire[i]
    BY <1>1, <1>2, <1>4, <1>8, LastAppended
  <2>2. t # u /\ LastIn(wire, Of(t), i) => wire[i].state = claimed[t]
    BY <1>7 DEF ToldInv, Due, LastIn
  <2> QED BY <1>1, <1>3, <1>5, <2>1, <2>2
<1>9. NoneIn(wire', Of(t)) => broker'[t] = claimed'[t]
  BY <1>5, <1>6, <1>7 DEF ToldInv, Due
<1> QED BY <1>8, <1>9 DEF Told

LEMMA ToldRepublish ==
    ASSUME Types, FlowInv, SaidInv, ToldInv, Republish, NEW t \in Topics, Due(t)'
    PROVE  Told(t)'
<1>1. PICK u \in republish :
          /\ u \in Topics /\ republish' = republish \ {u}
          /\ raced' = IF \E m \in awaiting : m.topic = u THEN raced \cup {u} ELSE raced
          /\ UNCHANGED <<link, last, claimed, broker, calls, lost>>
          /\ \/ last[u] = Unset /\ wire' = wire
             \/ \E m \in Message : /\ m.topic = u /\ m.state = last[u] /\ m.by \notin Tasks
                                   /\ wire' = Append(wire, m)
  BY Republished
<1>2. wire \in Seq(Message)
  BY DEF Types
<1>3. t = u => last[t] = claimed[t] /\ last[t] # Unset
  <2> SUFFICES ASSUME t = u PROVE last[t] = claimed[t] /\ last[t] # Unset
    OBVIOUS
  <2>1. \A m \in awaiting : m.topic # t
    BY <1>1 DEF Due
  <2>2. NoneIn(wire, Mine(t)) /\ NoneIn(acks, Mine(t))
    BY <2>1, NothingAwaited
  <2>3. NoneIn(wire', Mine(t)) /\ NoneIn(acks', Mine(t))
    <3>1. \A m : m.by \notin Tasks => m \notin Mine(t)
      BY DEF Mine, TaskMessage
    <3>2. NoneIn(wire', Mine(t))
      <4>1. ASSUME NEW m \in Message, m.by \notin Tasks, wire' = Append(wire, m)
            PROVE  NoneIn(wire', Mine(t))
        BY <1>2, <2>2, <3>1, <4>1, NoneAppended
      <4>2. CASE wire' = wire
        BY <2>2, <4>2
      <4> QED BY <1>1, <4>1, <4>2
    <3> QED BY <1>1, <2>2, <3>2
  <2>4. t \notin lost /\ claimed[t] # Unset
    BY <1>1, <2>3 DEF Due
  <2> QED BY <2>2, <2>4 DEF SaidInv
<1>4. CASE wire' = wire
  <2>1. t # u
    <3>1. t = u => \E m \in Message : wire' = Append(wire, m)
      BY <1>1, <1>3
    <3>2. \A m \in Message : wire # Append(wire, m)
      <4> SUFFICES ASSUME NEW m \in Message, wire = Append(wire, m) PROVE FALSE
        OBVIOUS
      <4>1. Len(wire) \in Nat /\ DOMAIN wire = 1..Len(wire) /\ DOMAIN wire = 1..(Len(wire) + 1)
        BY <1>2, Appended
      <4> QED BY <4>1
    <3> QED BY <1>4, <3>1, <3>2
  <2>2. Due(t)
    BY <1>1, <1>4, <2>1 DEF Due, NoneIn
  <2> QED BY <1>1, <1>4, <2>2 DEF Due, Told, ToldInv, LastIn, NoneIn
<1>5. ASSUME NEW m \in Message, m.topic = u, m.state = last[u], m.by \notin Tasks, wire' = Append(wire, m)
      PROVE  Told(t)'
  <2>1. m \notin Mine(t) /\ (m \in Of(t) <=> t = u)
    BY <1>5 DEF Mine, Of, TaskMessage
  <2>2. /\ NoneIn(wire', Mine(t)) <=> NoneIn(wire, Mine(t))
        /\ NoneIn(wire', Of(t)) <=> NoneIn(wire, Of(t)) /\ t # u
    BY <1>2, <1>5, <2>1, NoneAppended
  <2>3. t # u => Due(t)
    BY <1>1, <2>2 DEF Due
  <2>4. ASSUME NEW i \in DOMAIN wire', LastIn(wire', Of(t), i) PROVE wire'[i].state = claimed'[t]
    <3>1. \/ m \in Of(t) /\ wire'[i] = m
          \/ m \notin Of(t) /\ LastIn(wire, Of(t), i) /\ wire'[i] = wire[i]
      BY <1>2, <1>5, <2>4, LastAppended
    <3>2. t # u /\ LastIn(wire, Of(t), i) => wire[i].state = claimed[t]
      BY <2>3 DEF ToldInv, Due, LastIn
    <3> QED BY <1>1, <1>3, <1>5, <2>1, <3>1, <3>2
  <2>5. NoneIn(wire', Of(t)) => broker'[t] = claimed'[t]
    BY <1>1, <2>2, <2>3 DEF ToldInv, Due
  <2> QED BY <2>4, <2>5 DEF Told
<1> QED BY <1>1, <1>4, <1>5

\* What a publish that came back no longer makes up for was not lost.
LEMMA ToldReturn ==
    ASSUME Types, ToldInv, Return, NEW t \in Topics, Due(t)'
    PROVE  Told(t)'
<1>1. /\ acks # <<>> /\ acks' = Tail(acks) /\ UNCHANGED <<link, republish, wire, claimed, broker, raced>>
      /\ lost' = IF Head(acks).state = claimed[Head(acks).topic] THEN lost \ {Head(acks).topic} ELSE lost
  BY DEF Return
<1>2. acks \in Seq(TaskMessage)
  BY DEF Types
<1>3. Head(acks) \in TaskMessage
  BY <1>1, <1>2, Shortened
<1>4. NoneIn(acks, Mine(t)) => NoneIn(acks', Mine(t)) /\ Head(acks) \notin Mine(t)
  BY <1>1, <1>2, NoneOfTail
<1>5. Head(acks) \notin Mine(t) => Head(acks).topic # t
  BY <1>3 DEF Mine
<1>6. Due(t)
  BY <1>1, <1>4, <1>5 DEF Due, NoneIn
<1> QED BY <1>1, <1>6 DEF Due, Told, ToldInv, LastIn, NoneIn

LEMMA ToldReceive ==
    ASSUME Types, FlowInv, ToldInv, Receive, NEW t \in Topics, Due(t)'
    PROVE  Told(t)'
<1> DEFINE m == Head(wire)
<1>1. /\ wire # <<>> /\ wire' = Tail(wire) /\ UNCHANGED <<link, republish, claimed, raced, lost>>
      /\ broker' = [broker EXCEPT ![m.topic] = m.state]
      /\ acks' = IF m \in awaiting THEN Append(acks, m) ELSE acks
  BY DEF Receive
<1>2. wire \in Seq(Message) /\ acks \in Seq(TaskMessage)
  BY DEF Types
<1>3. m \in Message /\ m = wire[1] /\ 1 \in DOMAIN wire /\ m.topic \in Topics
  BY <1>1, <1>2, Shortened, Messages
<1>4. m \in awaiting => m \in TaskMessage
  BY DEF Types
<1>5. /\ NoneIn(wire, Mine(t)) <=> NoneIn(wire', Mine(t)) /\ m \notin Mine(t)
      /\ NoneIn(wire, Of(t)) <=> NoneIn(wire', Of(t)) /\ m \notin Of(t)
      /\ NoneIn(wire', Of(t)) /\ m \in Of(t) => LastIn(wire, Of(t), 1)
  BY <1>1, <1>2, NoneOfTail
<1> HIDE DEF m
<1>6. m \in Of(t) <=> t = m.topic
  BY <1>3 DEF Of
<1>7. NoneIn(wire, Mine(t)) /\ NoneIn(acks, Mine(t)) => NoneIn(acks', Mine(t))
  <2> SUFFICES ASSUME m \notin Mine(t), NoneIn(acks, Mine(t)) PROVE NoneIn(acks', Mine(t))
    BY <1>5
  <2>1. CASE m \in awaiting
    BY <1>1, <1>2, <1>4, <2>1, NoneAppended
  <2>2. CASE m \notin awaiting
    BY <1>1, <2>2
  <2> QED BY <2>1, <2>2
<1>8. Due(t)
  BY <1>1, <1>5, <1>7 DEF Due
<1>9. ASSUME NEW i \in DOMAIN wire', LastIn(wire', Of(t), i) PROVE wire'[i].state = claimed'[t]
  <2>1. LastIn(wire, Of(t), i + 1) /\ wire'[i] = wire[i + 1]
    BY <1>1, <1>2, <1>9, LastOfTail
  <2>2. i + 1 \in DOMAIN wire
    BY <2>1 DEF LastIn
  <2> QED BY <1>1, <1>8, <2>1, <2>2 DEF ToldInv, Due
<1>10. ASSUME NoneIn(wire', Of(t)) PROVE broker'[t] = claimed'[t]
  <2>1. CASE m \in Of(t)
    <3>1. wire[1].state = claimed[t]
      BY <1>3, <1>5, <1>8, <1>10, <2>1 DEF ToldInv, Due
    <3>2. broker'[t] = m.state
      BY <1>1, <1>6, <2>1 DEF Types
    <3> QED BY <1>1, <1>3, <3>1, <3>2
  <2>2. CASE m \notin Of(t)
    <3>1. broker[t] = claimed[t]
      BY <1>5, <1>8, <1>10, <2>2 DEF ToldInv, Due
    <3>2. broker'[t] = broker[t]
      BY <1>1, <1>6, <2>2 DEF Types
    <3> QED BY <1>1, <3>1, <3>2
  <2> QED BY <2>1, <2>2
<1> QED BY <1>9, <1>10 DEF Told

LEMMA ToldStep ==
    Types /\ IdleInv /\ ClaimInv /\ FlowInv /\ SaidInv /\ ToldInv /\ [Next]_vars /\ Alive' => ToldInv'
<1> SUFFICES ASSUME Types, IdleInv, ClaimInv, FlowInv, SaidInv, ToldInv, [Next]_vars, Alive',
                    NEW t \in Topics, Due(t)'
             PROVE  Told(t)'
  BY DEF ToldInv, Due, Told
<1>1. CASE UNCHANGED <<claimed, wire, acks, lost, raced, republish, broker>>
           /\ (link' = "serving" => link = "serving")
  <2>1. Due(t)
    BY <1>1 DEF Due, NoneIn
  <2> QED BY <1>1, <2>1 DEF Due, Told, ToldInv, LastIn, NoneIn
<1>2. link' = "serving" /\ t \notin republish'
  BY DEF Due
<1>3. CASE Quiet
  BY <1>1, <1>2, <1>3 DEF Quiet
<1>4. CASE Skipping \/ Lose
  BY <1>2, <1>4 DEF Skipping, Lose, BreakOff, Up
<1>5. ASSUME NEW c \in Tasks, NEW u \in Topics, NEW s \in States, Publishing(c, u, s) PROVE Told(t)'
  <2>1. Publish(c, u, s) /\ UNCHANGED <<link, last, republish, broker, raced>>
    BY <1>2, <1>5 DEF Publishing
  <2>2. CASE claimed[u] = s
    BY <1>1, <2>1, <2>2 DEF Publish
  <2>3. CASE claimed[u] # s
    BY <1>2, <2>1, <2>3, ToldSend DEF Publish, Up
  <2> QED BY <2>2, <2>3
<1> QED BY <1>3, <1>4, <1>5, Moves, ToldRepublish, ToldReturn, ToldReceive

----------------------------------------------------------------------------
(* The claim of the device.                                                *)

\* The device is lost and no publish of it makes up for that.
Missed == "device" \in lost /\ NoneIn(wire, Mine("device")) /\ NoneIn(acks, Mine("device"))

LEMMA DeviceInit == Init => DeviceInv
  BY DEF Init, DeviceInv

\* A publish of the bridge says nothing of the device.
LEMMA MissedStays ==
    ASSUME Types, NEW c \in Tasks, NEW s \in States, Publish(c, "bridge", s), Missed
    PROVE  Missed'
<1> DEFINE m == [topic |-> "bridge", state |-> s, by |-> c]
<1>1. m \in Message /\ m \notin Mine("device")
  <2>1. m \in TaskMessage
    BY Messages DEF Topics
  <2> QED BY <2>1, Messages DEF Mine
<1>2. acks' = acks /\ lost \subseteq lost' /\ wire' \in {wire, Append(wire, m)}
  BY DEF Publish, Send
<1> HIDE DEF m
<1>3. wire \in Seq(Message)
  BY DEF Types
<1>4. NoneIn(Append(wire, m), Mine("device")) <=> NoneIn(wire, Mine("device"))
  BY <1>1, <1>3, NoneAppended
<1> QED BY <1>2, <1>4 DEF Missed

\* Neither does the broker, nor the answer to another publish.
LEMMA MissedQueues ==
    ASSUME Types, FlowInv, Missed, Return \/ Receive \/ Republish
    PROVE  Missed'
<1>1. wire \in Seq(Message) /\ acks \in Seq(TaskMessage)
  BY DEF Types
<1>2. CASE Return
  <2>1. acks # <<>> /\ acks' = Tail(acks) /\ wire' = wire
    BY <1>2 DEF Return
  <2>2. NoneIn(acks', Mine("device")) /\ Head(acks) \notin Mine("device")
    BY <1>1, <2>1, NoneOfTail DEF Missed
  <2>3. Head(acks).topic # "device"
    <3>1. Head(acks) \in TaskMessage
      BY <1>1, <2>1, Shortened
    <3> QED BY <2>2, <3>1 DEF Mine
  <2>4. "device" \in lost'
    BY <1>2, <2>3 DEF Return, Missed
  <2> QED BY <2>1, <2>2, <2>4 DEF Missed
<1>3. CASE Receive
  <2>1. /\ wire # <<>> /\ wire' = Tail(wire) /\ lost' = lost
        /\ acks' = IF Head(wire) \in awaiting THEN Append(acks, Head(wire)) ELSE acks
    BY <1>3 DEF Receive
  <2>2. NoneIn(wire', Mine("device")) /\ Head(wire) \notin Mine("device")
    BY <1>1, <2>1, NoneOfTail DEF Missed
  <2>3. Head(wire) \in awaiting => Head(wire) \in TaskMessage
    BY DEF Types
  <2>4. NoneIn(acks', Mine("device"))
    <3>1. CASE Head(wire) \in awaiting
      <4>1. NoneIn(Append(acks, Head(wire)), Mine("device"))
        BY <1>1, <2>2, <2>3, <3>1, NoneAppended DEF Missed
      <4> QED BY <2>1, <3>1, <4>1
    <3>2. CASE Head(wire) \notin awaiting
      BY <2>1, <3>2 DEF Missed
    <3> QED BY <3>1, <3>2
  <2> QED BY <2>1, <2>2, <2>4 DEF Missed
<1>4. CASE Republish
  <2>1. UNCHANGED <<acks, lost>>
    BY <1>4 DEF Republish
  <2>2. ASSUME NEW m \in Message, m.by \notin Tasks, wire' = Append(wire, m)
        PROVE  NoneIn(wire', Mine("device"))
    <3>1. m \notin Mine("device")
      BY <2>2 DEF Mine, TaskMessage
    <3> QED BY <1>1, <2>2, <3>1, NoneAppended DEF Missed
  <2>3. NoneIn(wire', Mine("device"))
    BY <1>4, <2>2, Republished DEF Missed
  <2> QED BY <2>1, <2>3 DEF Missed
<1> QED BY <1>2, <1>3, <1>4

LEMMA DeviceStep ==
    Types /\ FlowInv /\ DeviceInv /\ [Next]_vars /\ Alive' => DeviceInv'
<1> SUFFICES ASSUME Types, FlowInv, DeviceInv, [Next]_vars, Alive' PROVE DeviceInv'
  OBVIOUS
<1>1. Alive /\ ~Stop /\ ~Stopping /\ ~Close
  BY StaysAlive
<1>2. /\ stage \in {"mqtt", "sysap", "loading", "seeded", "starting"} => resyncing = "no"
      /\ stage \in {"seeded", "starting", "running"} /\ resyncing \in {"no", "device"} /\ ~Missed
            => claimed["device"] = fetched
  BY DEF DeviceInv, Missed
<1> SUFFICES /\ stage' \in {"mqtt", "sysap", "loading", "seeded", "starting"} => resyncing' = "no"
             /\ stage' \in {"seeded", "starting", "running"} /\ resyncing' \in {"no", "device"} /\ ~Missed'
                   => claimed'["device"] = fetched'
  BY DEF DeviceInv, Missed
<1>3. "bridge" \in Topics /\ "device" \in Topics /\ "offline" \in States /\ Now \in States
  BY NowIsState DEF Topics, States, Now
<1>4. \A c \in {"connect", "start", "resync", "grace"} : c \in Tasks
  BY DEF Tasks
<1>5. ASSUME NEW c \in Tasks, NEW s \in States, Publish(c, "bridge", s)
      PROVE  claimed'["device"] = claimed["device"] /\ (Missed => Missed')
  BY <1>3, <1>5, PublishClaims, MissedStays DEF Types
<1>6. UNCHANGED <<wire, acks, lost>> => (Missed' <=> Missed)
  BY DEF Missed
<1>7. CASE UNCHANGED <<claimed, fetched, stage, resyncing>> /\ (Missed => Missed')
  BY <1>2, <1>7
<1>8. CASE GraceEnds \/ Flushed
  <2>1. claimed'["device"] = claimed["device"] /\ (Missed => Missed')
    BY <1>3, <1>4, <1>5, <1>8 DEF GraceEnds, Flushed
  <2>2. UNCHANGED <<stage, resyncing, fetched>>
    BY <1>8 DEF GraceEnds, Flushed
  <2> QED BY <1>2, <2>1, <2>2
<1>9. CASE Lose
  <2>1. /\ wire' = <<>> /\ acks' = <<>> /\ lost \subseteq lost' /\ stage' = stage
        /\ resyncing' = resyncing \/ (resyncing' = "no" /\ Topics \subseteq lost')
        /\ UNCHANGED <<claimed, fetched>>
    BY <1>9 DEF Lose, BreakOff, Alive
  <2>2. NoneIn(wire', Mine("device")) /\ NoneIn(acks', Mine("device"))
    BY <2>1 DEF NoneIn
  <2>3. (Missed => Missed') /\ (resyncing' # resyncing => Missed')
    BY <1>3, <2>1, <2>2 DEF Missed
  <2> QED BY <1>2, <2>1, <2>3
<1>10. CASE Load
  <2>1. Publish("start", "device", device) /\ stage' = "seeded" /\ fetched' = device
        /\ stage = "loading" /\ resyncing' = resyncing
    BY <1>10 DEF Load, Alive
  <2>2. claimed'["device"] = device
    BY <1>3, <2>1, PublishClaims DEF Types
  <2> QED BY <1>2, <2>1, <2>2
<1>11. CASE FinishLoad
  <2>1. stage = "seeded" /\ stage' = "starting" /\ UNCHANGED <<resyncing, fetched>>
    BY <1>11 DEF FinishLoad, Alive
  <2>2. Publish("start", "bridge", StateOf(Online(mqttUp, sysapUp, TRUE)))
    BY <1>11 DEF FinishLoad
  <2>3. claimed'["device"] = claimed["device"] /\ (Missed => Missed')
    BY <1>4, <1>5, <2>2, NowIsState
  <2> QED BY <1>2, <2>1, <2>3
<1>12. CASE Started \/ StartReader
  <2>1. Missed' <=> Missed
    BY <1>6, <1>12 DEF Started, StartReader
  <2> QED BY <1>2, <1>12, <2>1 DEF Started, StartReader
<1>13. CASE WsConnected \/ Reload
  <2>1. Missed' <=> Missed
    BY <1>6, <1>13 DEF WsConnected, Reload
  <2> QED BY <1>1, <1>2, <1>13, <2>1 DEF WsConnected, Reload, BeginResync, Alive
<1>14. CASE ResyncBridge
  <2>1. resyncing = "fetched" /\ stage' = stage
    BY <1>14 DEF ResyncBridge
  <2>2. stage' \notin {"mqtt", "sysap", "loading", "seeded", "starting"}
    BY <1>2, <2>1
  <2>3. CASE Raises("bridge", Now)
    <3>1. wire' = <<>> /\ acks' = <<>> /\ lost' = Topics
      BY <1>14, <2>3 DEF ResyncBridge, Raises, FlowInv, Up
    <3>2. Missed'
      BY <1>3, <3>1 DEF Missed, NoneIn
    <3> QED BY <2>2, <3>2
  <2>4. CASE ~Raises("bridge", Now)
    BY <1>14, <2>2, <2>4 DEF ResyncBridge
  <2> QED BY <2>3, <2>4
<1>15. CASE ResyncDevice
  <2>1. /\ resyncing = "bridge" /\ UNCHANGED <<stage, fetched>>
        /\ Publish("resync", "device", fetched)
    BY <1>15 DEF ResyncDevice
  <2>2. claimed'["device"] = fetched
    BY <1>3, <2>1, PublishClaims DEF Types
  <2> QED BY <1>2, <2>1, <2>2
<1>16. CASE ResyncEnds
  <2>1. Missed' <=> Missed
    BY <1>6, <1>16 DEF ResyncEnds
  <2> QED BY <1>2, <1>16, <2>1 DEF ResyncEnds
<1>17. CASE Return \/ Receive \/ Republish
  <2>1. Missed => Missed'
    BY <1>17, MissedQueues
  <2> QED BY <1>7, <1>17, <2>1 DEF Return, Receive, Republish
<1>18. CASE Connect \/ Subscribed \/ Serve \/ PublishWill
  <2>1. Missed' <=> Missed
    BY <1>6, <1>18 DEF Connect, Subscribed, Serve, PublishWill
  <2> QED BY <1>7, <1>18, <2>1 DEF Connect, Subscribed, Serve, PublishWill
<1>19. CASE DeviceChanges \/ WsLost
  <2>1. Missed' <=> Missed
    BY <1>6, <1>19 DEF DeviceChanges, WsLost
  <2> QED BY <1>7, <1>19, <2>1 DEF DeviceChanges, WsLost
<1>20. CASE UNCHANGED vars
  <2>1. Missed' <=> Missed
    BY <1>6, <1>20 DEF vars
  <2> QED BY <1>7, <1>20, <2>1 DEF vars
<1> QED
  BY <1>1, <1>8, <1>9, <1>10, <1>11, <1>12, <1>13, <1>14, <1>15, <1>16, <1>17, <1>18, <1>19, <1>20
  DEF Next, Run

----------------------------------------------------------------------------
(* The theorems.                                                           *)

\* The inductive invariant: types always, the rest until the shutdown begins.
IInv ==
    /\ Types /\ FlagTypes
    /\ Alive => IdleInv /\ ClaimInv /\ FlowInv /\ SaidInv /\ ToldInv /\ DeviceInv

LEMMA Invariant == Spec => []IInv
<1>1. Init => IInv
  BY InitTypes, IdleInit, ClaimInit, FlowInit, SaidInit, ToldInit, DeviceInit DEF IInv
<1>2. IInv /\ [Next]_vars => IInv'
  <2> SUFFICES ASSUME IInv, [Next]_vars PROVE IInv'
    OBVIOUS
  <2>1. Types' /\ FlagTypes'
    BY TypeStep, FlagStep DEF IInv
  <2>2. ASSUME Alive'
        PROVE  IdleInv' /\ ClaimInv' /\ FlowInv' /\ SaidInv' /\ ToldInv' /\ DeviceInv'
    <3>1. /\ Types /\ FlagTypes
          /\ IdleInv /\ ClaimInv /\ FlowInv /\ SaidInv /\ ToldInv /\ DeviceInv
      BY <2>2, StaysAlive DEF IInv
    <3> QED BY <2>2, <3>1, IdleStep, ClaimStep, FlowStep, SaidStep, ToldStep, DeviceStep
  <2> QED BY <2>1, <2>2 DEF IInv
<1> QED BY <1>1, <1>2, PTL DEF Spec

\* A topic whose messages have all arrived is at the broker as it was claimed.
LEMMA SettledIsTold ==
    ASSUME ToldInv, Settled, NEW t \in Topics, t \notin lost \cup raced, claimed[t] # Unset
    PROVE  broker[t] = claimed[t]
<1>1. NoneIn(wire, Of(t))
  BY DEF Settled, NoneIn
<1> QED BY <1>1 DEF ToldInv, Settled

\* RunningIsOnline, for every number of lost connections and resyncs: neither a
\* late will, nor the grace timer, nor the order in which reconnect, cold start
\* and resync publish leaves a running bridge offline at the broker.
THEOREM RunningBridgeIsOnline == Spec => []RunningIsOnline
<1>1. IInv => RunningIsOnline
  <2> SUFFICES ASSUME IInv, Settled, stage = "running", "bridge" \notin lost \cup raced
               PROVE  broker["bridge"] = "online"
    BY DEF RunningIsOnline
  <2>1. claimed["bridge"] = "online" /\ ToldInv
    BY DEF IInv, Alive, ClaimInv, Settled
  <2> QED BY <2>1, SettledIsTold DEF Topics, Unset
<1> QED BY <1>1, Invariant, PTL

\* DeviceIsCurrent, for every number of lost connections, resyncs and changes:
\* the broker has what the last fetch saw of the device, unless a publish failed
\* or the delayed republish met one.
THEOREM DeviceTopicIsCurrent == Spec => []DeviceIsCurrent
<1>1. IInv => DeviceIsCurrent
  <2> SUFFICES ASSUME IInv, Settled, stage = "running", resyncing = "no",
                      "device" \notin lost \cup raced
               PROVE  broker["device"] = fetched
    BY DEF DeviceIsCurrent
  <2>1. claimed["device"] = fetched /\ ToldInv
    BY DEF IInv, Alive, DeviceInv
  <2>2. fetched # Unset
    BY DEF IInv, Types, States, Unset
  <2> QED BY <2>1, <2>2, SettledIsTold DEF Topics
<1> QED BY <1>1, Invariant, PTL
====
