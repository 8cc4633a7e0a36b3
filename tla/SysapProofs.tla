---- MODULE SysapProofs ----
(***************************************************************************)
(* Proofs about the two clients of the SysAP: RestClient, for every set of *)
(* requests, every ceiling and every number of attempts, and SysapLink,    *)
(* for every buffer limit, escalation threshold, backoff cap and number of *)
(* outages.  They share no state, and neither proof uses the other.        *)
(***************************************************************************)
EXTENDS RestClient, SysapLink, FiniteSetTheorems, TLAPS

----------------------------------------------------------------------------
(* The REST client.                                                        *)

Holders == {r \in Requests : HasSlot(r)}

\* How often a request went out follows from its attempt and where it is.
SentPerAttempt ==
    \A r \in Requests :
        /\ place[r] = "idle" => sent[r] = 0 /\ attempts[r] = 1 /\ outcome[r] = "none"
        /\ place[r] \in {"ready", "waiting"} => sent[r] = attempts[r] - 1
        /\ place[r] \in {"wire", "leaving", "backoff"} => sent[r] = attempts[r]
        /\ place[r] = "backoff" => attempts[r] < MaxAttempts
        /\ place[r] # "done" => outcome[r] = "none"

RestIInv == TypeOK /\ SlotsAccounted /\ NoLostWakeup /\ SentPerAttempt /\ AttemptsBounded

USE RequestsAssumption, InflightAssumption, AttemptsAssumption, UuidAssumption

\* The set that SlotsAccounted counts is finite.
LEMMA HoldersFinite == IsFiniteSet(Holders)
  BY FS_Subset DEF Holders

\* A request that takes a slot makes one holder more.
LEMMA OneMoreHolder ==
    ASSUME SlotsAccounted, NEW r \in Requests, r \notin Holders, Holders' = Holders \cup {r},
           inFlight' = inFlight + 1
    PROVE  SlotsAccounted'
  BY HoldersFinite, FS_AddElement DEF SlotsAccounted, Holders

\* A request that gives its slot back makes one holder fewer, and the counter
\* cannot run below zero.
LEMMA OneHolderFewer ==
    ASSUME TypeOK, SlotsAccounted, NEW r \in Holders, Holders' = Holders \ {r},
           inFlight' = inFlight - 1
    PROVE  SlotsAccounted' /\ inFlight' \in 0..MaxInflight
<1>1. Cardinality(Holders \ {r}) = Cardinality(Holders) - 1
  BY HoldersFinite, FS_RemoveElement
<1>2. Cardinality(Holders) \in Nat /\ Cardinality(Holders) # 0
  BY HoldersFinite, FS_CardinalityType, FS_EmptySet
<1>3. inFlight = Cardinality(Holders)
  BY DEF SlotsAccounted, Holders
<1>4. Cardinality(Holders') = inFlight'
  BY <1>1, <1>3
<1>5. inFlight' \in 0..MaxInflight
  BY <1>2, <1>3 DEF TypeOK
<1> QED BY <1>4, <1>5 DEF SlotsAccounted, Holders

\* The halved ceiling and the recovered one stay between 1 and the maximum.
LEMMA CeilingInRange ==
    ASSUME NEW n \in 1..MaxInflight
    PROVE  Halved(n) \in 1..MaxInflight /\ Raised(n) \in 1..MaxInflight
  BY DEF Halved, Raised

\* Leaving a slot: the counter is right and nobody still waits.
LEMMA LeaveInv ==
    ASSUME TypeOK, SlotsAccounted, NEW r \in Requests, HasSlot(r),
           NEW next \in {"backoff", "done"}, Leave(r, next)
    PROVE  /\ SlotsAccounted' /\ inFlight' \in 0..MaxInflight
           /\ place' \in [Requests -> Places]
           /\ \A q \in Requests : place'[q] # "waiting"
<1>1. place' \in [Requests -> Places] /\ \A q \in Requests : place'[q] # "waiting"
  BY DEF Leave, TypeOK, Places
<1>2. Holders' = Holders \ {r}
  BY <1>1 DEF Leave, Holders, HasSlot, TypeOK
<1>3. r \in Holders /\ inFlight' = inFlight - 1
  BY DEF Holders, Leave
<1> QED BY <1>1, <1>2, <1>3, OneHolderFewer

LEMMA RestInitInv == RestInit => RestIInv
<1> SUFFICES ASSUME RestInit PROVE RestIInv
  OBVIOUS
<1>1. TypeOK
  BY DEF RestInit, TypeOK, Places, Replies
<1>2. Holders = {}
  BY DEF RestInit, Holders, HasSlot
<1>3. SlotsAccounted
  BY <1>2, FS_EmptySet DEF RestInit, SlotsAccounted, Holders
<1>4. NoLostWakeup /\ SentPerAttempt /\ AttemptsBounded
  BY DEF RestInit, NoLostWakeup, SentPerAttempt, AttemptsBounded, Transient
<1> QED BY <1>1, <1>3, <1>4 DEF RestIInv

\* A request moves without taking or leaving a slot.
LEMMA SlotsUntouched ==
    ASSUME SlotsAccounted, Holders' = Holders, inFlight' = inFlight
    PROVE  SlotsAccounted'
  BY DEF SlotsAccounted, Holders

LEMMA RestStepInv == RestIInv /\ [RestNext]_restVars => RestIInv'
<1> SUFFICES ASSUME RestIInv, [RestNext]_restVars PROVE RestIInv'
  OBVIOUS
<1> USE DEF RestIInv
<1>1. CASE UNCHANGED restVars
  BY <1>1 DEF restVars, TypeOK, SlotsAccounted, NoLostWakeup, SentPerAttempt, AttemptsBounded, HasSlot
<1>2. ASSUME NEW r \in Requests, Call(r) PROVE RestIInv'
  <2>1. TypeOK'
    BY <1>2 DEF Call, TypeOK, Places
  <2>2. Holders' = Holders
    BY <1>2 DEF Call, Holders, HasSlot, TypeOK
  <2>3. NoLostWakeup' /\ SentPerAttempt' /\ AttemptsBounded'
    BY <1>2 DEF Call, TypeOK, NoLostWakeup, SentPerAttempt, AttemptsBounded, Transient
  <2> QED BY <1>2, <2>1, <2>2, <2>3, SlotsUntouched DEF Call
<1>3. ASSUME NEW r \in Requests, Enter(r) PROVE RestIInv'
  <2>1. TypeOK'
    BY <1>3 DEF Enter, TypeOK, Places
  <2>2. Holders' = Holders \cup {r} /\ r \notin Holders
    BY <1>3 DEF Enter, Holders, HasSlot, TypeOK
  <2>3. SlotsAccounted'
    BY <1>3, <2>2, OneMoreHolder DEF Enter
  <2>4. NoLostWakeup'
    BY <1>3 DEF Enter, TypeOK, NoLostWakeup
  <2>5. SentPerAttempt' /\ AttemptsBounded'
    BY <1>3 DEF Enter, TypeOK, SentPerAttempt, AttemptsBounded, Transient
  <2> QED BY <2>1, <2>3, <2>4, <2>5
<1>4. ASSUME NEW r \in Requests, Wait(r) PROVE RestIInv'
  <2>1. TypeOK'
    BY <1>4 DEF Wait, TypeOK, Places
  <2>2. Holders' = Holders
    BY <1>4 DEF Wait, Holders, HasSlot, TypeOK
  <2>3. NoLostWakeup' /\ SentPerAttempt' /\ AttemptsBounded'
    BY <1>4 DEF Wait, TypeOK, NoLostWakeup, SentPerAttempt, AttemptsBounded
  <2> QED BY <1>4, <2>1, <2>2, <2>3, SlotsUntouched DEF Wait
<1>5. ASSUME NEW r \in Requests, NEW how \in Replies, Answer(r, how) PROVE RestIInv'
  <2>1. TypeOK'
    BY <1>5, CeilingInRange DEF Answer, TypeOK, Places
  <2>2. Holders' = Holders
    BY <1>5 DEF Answer, Holders, HasSlot, TypeOK
  <2>3. limit' <= limit
    BY <1>5 DEF Answer, Halved, TypeOK
  <2>4. NoLostWakeup'
    BY <1>5, <2>1, <2>3 DEF Answer, TypeOK, NoLostWakeup
  <2>5. SentPerAttempt' /\ AttemptsBounded'
    BY <1>5 DEF Answer, TypeOK, SentPerAttempt, AttemptsBounded
  <2> QED BY <1>5, <2>1, <2>2, <2>4, <2>5, SlotsUntouched DEF Answer
<1>6. ASSUME NEW r \in Requests, Succeed(r) PROVE RestIInv'
  <2>1. HasSlot(r) /\ Leave(r, "done")
    BY <1>6 DEF Succeed, HasSlot
  <2>2. /\ SlotsAccounted' /\ inFlight' \in 0..MaxInflight
        /\ place' \in [Requests -> Places] /\ \A q \in Requests : place'[q] # "waiting"
    BY <2>1, LeaveInv
  <2>3. limit' \in 1..MaxInflight /\ uuid' \in Uuids \cup {NoUuid}
    BY <1>6, CeilingInRange DEF Succeed, TypeOK
  <2>4. PICK o \in {"malformed", "ok", "failed"} : outcome' = [outcome EXCEPT ![r] = o]
    BY <1>6 DEF Succeed
  <2>5. TypeOK'
    BY <1>6, <2>2, <2>3, <2>4 DEF Succeed, TypeOK
  <2>6. NoLostWakeup'
    BY <2>2 DEF NoLostWakeup
  <2>7. SentPerAttempt' /\ AttemptsBounded'
    BY <1>6, <2>4 DEF Succeed, Leave, TypeOK, SentPerAttempt, AttemptsBounded, Transient
  <2> QED BY <2>2, <2>5, <2>6, <2>7
<1>7. ASSUME NEW r \in Requests, Retry(r) PROVE RestIInv'
  <2>1. HasSlot(r) /\ Leave(r, "backoff")
    BY <1>7 DEF Retry, HasSlot
  <2>2. /\ SlotsAccounted' /\ inFlight' \in 0..MaxInflight
        /\ place' \in [Requests -> Places] /\ \A q \in Requests : place'[q] # "waiting"
    BY <2>1, LeaveInv
  <2>3. TypeOK'
    BY <1>7, <2>2 DEF Retry, TypeOK
  <2>4. NoLostWakeup'
    BY <2>2 DEF NoLostWakeup
  <2>5. SentPerAttempt' /\ AttemptsBounded'
    BY <1>7 DEF Retry, Retries, Leave, TypeOK, SentPerAttempt, AttemptsBounded
  <2> QED BY <2>2, <2>3, <2>4, <2>5
<1>8. ASSUME NEW r \in Requests, Fail(r) PROVE RestIInv'
  <2>1. HasSlot(r) /\ Leave(r, "done")
    BY <1>8 DEF Fail, HasSlot
  <2>2. /\ SlotsAccounted' /\ inFlight' \in 0..MaxInflight
        /\ place' \in [Requests -> Places] /\ \A q \in Requests : place'[q] # "waiting"
    BY <2>1, LeaveInv
  <2>3. TypeOK'
    BY <1>8, <2>2 DEF Fail, TypeOK
  <2>4. NoLostWakeup'
    BY <2>2 DEF NoLostWakeup
  <2>5. SentPerAttempt' /\ AttemptsBounded'
    BY <1>8 DEF Fail, Retries, Leave, TypeOK, SentPerAttempt, AttemptsBounded
  <2> QED BY <2>2, <2>3, <2>4, <2>5
<1>9. ASSUME NEW r \in Requests, Resume(r) PROVE RestIInv'
  <2>1. TypeOK'
    BY <1>9 DEF Resume, TypeOK, Places, SentPerAttempt
  <2>2. Holders' = Holders
    BY <1>9 DEF Resume, Holders, HasSlot, TypeOK
  <2>3. NoLostWakeup' /\ SentPerAttempt' /\ AttemptsBounded'
    BY <1>9 DEF Resume, TypeOK, NoLostWakeup, SentPerAttempt, AttemptsBounded
  <2> QED BY <1>9, <2>1, <2>2, <2>3, SlotsUntouched DEF Resume
<1>10. ASSUME NEW r \in Requests, Cancel(r) PROVE RestIInv'
  <2>1. CASE HasSlot(r)
    <3>1. /\ SlotsAccounted' /\ inFlight' \in 0..MaxInflight
          /\ place' \in [Requests -> Places] /\ \A q \in Requests : place'[q] # "waiting"
      BY <1>10, <2>1, LeaveInv DEF Cancel
    <3>2. TypeOK'
      BY <1>10, <3>1 DEF Cancel, TypeOK
    <3>3. NoLostWakeup'
      BY <3>1 DEF NoLostWakeup
    <3>4. SentPerAttempt' /\ AttemptsBounded'
      BY <1>10, <2>1 DEF Cancel, Leave, TypeOK, SentPerAttempt, AttemptsBounded, Transient
    <3> QED BY <3>1, <3>2, <3>3, <3>4
  <2>2. CASE ~HasSlot(r)
    <3>1. TypeOK'
      BY <1>10, <2>2 DEF Cancel, TypeOK, Places
    <3>2. Holders' = Holders
      BY <1>10, <2>2 DEF Cancel, Holders, HasSlot, TypeOK
    <3>3. NoLostWakeup' /\ SentPerAttempt' /\ AttemptsBounded'
      BY <1>10, <2>2 DEF Cancel, TypeOK, NoLostWakeup, SentPerAttempt, AttemptsBounded, Transient
    <3> QED BY <1>10, <2>2, <3>1, <3>2, <3>3, SlotsUntouched DEF Cancel
  <2> QED BY <2>1, <2>2
<1> QED BY <1>1, <1>2, <1>3, <1>4, <1>5, <1>6, <1>7, <1>8, <1>9, <1>10 DEF RestNext, Run

LEMMA RestInductive == RestSpec => []RestIInv
<1> QED BY RestInitInv, RestStepInv, PTL DEF RestSpec

\* TypeOK, for every instance: in particular the ceiling of the limiter stays
\* between 1 and max_inflight and the counter of slots within it.
THEOREM RestTypeCorrect == RestSpec => []TypeOK
<1>1. RestIInv => TypeOK
  BY DEF RestIInv
<1> QED BY <1>1, RestInductive, PTL

\* SlotsAccounted, for every instance: AdaptiveLimiter never leaks a slot.
THEOREM SlotsNeverLeak == RestSpec => []SlotsAccounted
<1>1. RestIInv => SlotsAccounted
  BY DEF RestIInv
<1> QED BY <1>1, RestInductive, PTL

\* NoLostWakeup, for every instance: no request waits for a slot that is free.
THEOREM WaitersAreHeldBack == RestSpec => []NoLostWakeup
<1>1. RestIInv => NoLostWakeup
  BY DEF RestIInv
<1> QED BY <1>1, RestInductive, PTL

\* AttemptsBounded, for every instance of _request.
THEOREM RetriesAreBounded == RestSpec => []AttemptsBounded
<1>1. RestIInv => AttemptsBounded
  BY DEF RestIInv
<1> QED BY <1>1, RestInductive, PTL

----------------------------------------------------------------------------
(* The link to the SysAP.                                                  *)

LinkPhases  == {"settings", "probe", "probe jid", "wait", "fetch", "running", "closing", "ended", "dead"}
Probing == {"settings", "probe", "probe jid"}

Flags ==
    /\ dry \in BOOLEAN /\ supported \in BOOLEAN /\ hasJid \in BOOLEAN
    /\ up \in BOOLEAN /\ connected \in BOOLEAN /\ buffering \in BOOLEAN
    /\ asked \in BOOLEAN /\ stopping \in BOOLEAN /\ session \in BOOLEAN /\ blind \in BOOLEAN

Ranges ==
    /\ verdict \in [Users -> Verdicts]
    /\ phase \in LinkPhases
    /\ cause \in {"none", "firmware", "unreachable", "refused", "restarts"}
    /\ user \in Users
    /\ reader \in {"none", "connecting", "receiving", "backoff", "crashed", "ended"}
    /\ conn \in {"none", "live", "silent", "closed"}
    /\ attempt \in 0..MaxDelay
    /\ buffered \in 0..BufferLimit
    /\ streak \in 0..Threshold /\ rapid \in 0..Threshold
    /\ outages \in 0..MaxOutages /\ changes \in 0..MaxVerdicts
    /\ refused \in [Tasks -> [Users -> 0..2]]

LinkTypeOK == Flags /\ Ranges

\* A bridge that lives has offered the reader nothing in vain, the jid not at
\* all, and its name only if it now goes by the jid.
RefusalsSoFar ==
    /\ refused["reader"] = [u \in Users |-> 0]
    /\ refused["main"] = [u \in Users |-> IF u = "name" /\ user = "jid" THEN 1 ELSE 0]
    /\ user = "jid" => hasJid /\ phase \notin {"settings", "probe"}
    /\ phase = "probe jid" => user = "jid"

\* The reader runs only behind a probe: in a bridge that is not dry, with a
\* user name that the SysAP took, unless it was down or changed its mind.
ReaderIsVouchedFor ==
    /\ dry => phase \notin {"probe", "probe jid"}
    /\ phase \in Probing \/ dry <=> reader = "none"
    /\ reader # "none" => verdict[user] = "ok" \/ blind \/ changes > 0

\* The streak that restart_on_failure counts is at most one ahead of the quick
\* failures in a row, and has not reached the threshold.
StreakIsRapid == streak < Threshold /\ streak <= rapid + 1

LiveInv == Alive => cause = "none" /\ RefusalsSoFar /\ ReaderIsVouchedFor /\ StreakIsRapid

LinkIInv == LinkTypeOK /\ AskedOnce /\ FatalIsDeserved /\ LiveInv

\* The bounds, one by one.
LEMMA Bounds ==
    /\ BufferLimit \in Nat /\ BufferLimit > 0
    /\ Threshold \in Nat /\ Threshold > 0
    /\ MaxDelay \in Nat /\ MaxDelay > 0
    /\ MaxOutages \in Nat /\ MaxVerdicts \in Nat
  BY BoundsAssumption

USE Bounds

\* What the invariant says, beyond typing, of a step that only moves the link.
Settled ==
    /\ UNCHANGED <<dry, hasJid, verdict, phase, cause, user, streak, refused, blind, rapid, changes>>
    /\ reader' = "none" <=> reader = "none"

LEMMA SettledKeeps ==
    ASSUME LinkIInv, LinkTypeOK', Settled
    PROVE  LinkIInv'
<1>1. AskedOnce' /\ FatalIsDeserved'
  BY DEF LinkIInv, Settled, AskedOnce, FatalIsDeserved
<1>2. LiveInv'
  BY DEF LinkIInv, Settled, LiveInv, Alive, RefusalsSoFar, ReaderIsVouchedFor, StreakIsRapid
<1> QED BY <1>1, <1>2 DEF LinkIInv

\* In a bridge that lives every count of refusals is at most one, and those of
\* the user name in use are none.
LEMMA NotRefusedYet ==
    ASSUME LinkTypeOK, RefusalsSoFar
    PROVE  \A t \in Tasks : refused[t][user] = 0
  BY DEF LinkTypeOK, Ranges, RefusalsSoFar, Tasks, Users

\* A refusal counts one more, of the user name in use.
LEMMA RefuseCounts ==
    ASSUME LinkTypeOK, RefusalsSoFar, NEW t \in Tasks, Refuse(t)
    PROVE  /\ refused' = [refused EXCEPT ![t] = [@ EXCEPT ![user] = 1]]
           /\ refused' \in [Tasks -> [Users -> 0..2]]
           /\ AskedOnce'
<1>1. refused[t][user] = 0
  BY NotRefusedYet
<1>2. refused' = [refused EXCEPT ![t] = [@ EXCEPT ![user] = 1]]
  BY <1>1 DEF Refuse, Capped
<1>3. refused' \in [Tasks -> [Users -> 0..2]]
  BY <1>2 DEF LinkTypeOK, Ranges
<1>4. ASSUME NEW s \in Tasks, NEW u \in Users PROVE refused'[s][u] <= 1
  <2>1. refused["reader"][u] = 0 /\ (refused["main"][u] = 0 \/ refused["main"][u] = 1)
    BY DEF RefusalsSoFar
  <2>2. refused[s][u] <= 1
    BY <2>1 DEF Tasks
  <2> QED BY <1>2, <2>2 DEF LinkTypeOK, Ranges
<1>5. AskedOnce'
  BY <1>4 DEF AskedOnce
<1> QED BY <1>2, <1>3, <1>5

LEMMA LinkInitInv == Init => LinkIInv
<1> SUFFICES ASSUME Init PROVE LinkIInv
  OBVIOUS
<1>1. LinkTypeOK
  <2>1. Flags
    BY DEF Init, Flags
  <2>2. Ranges
    BY DEF Init, Ranges, LinkPhases, Users, Verdicts, Tasks
  <2> QED BY <2>1, <2>2 DEF LinkTypeOK
<1>2. AskedOnce /\ FatalIsDeserved
  BY DEF Init, AskedOnce, FatalIsDeserved
<1>3. RefusalsSoFar
  BY DEF Init, RefusalsSoFar, Tasks, Users
<1>4. ReaderIsVouchedFor /\ StreakIsRapid
  BY DEF Init, ReaderIsVouchedFor, StreakIsRapid, Probing
<1> QED BY <1>1, <1>2, <1>3, <1>4 DEF LinkIInv, LiveInv, Init

LEMMA LinkStepInv == LinkIInv /\ [Next]_vars => LinkIInv'
<1> SUFFICES ASSUME LinkIInv, [Next]_vars PROVE LinkIInv'
  OBVIOUS
<1>1. CASE UNCHANGED vars
  <2>1. LinkTypeOK'
    <3>1. Flags'
      BY <1>1 DEF LinkIInv, vars, given, sysap, ws, bounds, history, LinkTypeOK, Flags
    <3>2. Ranges'
      BY <1>1 DEF LinkIInv, vars, given, sysap, ws, bounds, history, LinkTypeOK, Ranges
    <3> QED BY <3>1, <3>2 DEF LinkTypeOK
  <2> QED BY <1>1, <2>1, SettledKeeps DEF vars, given, sysap, ws, bounds, history, Settled
<1>2. CASE Alive /\ Next
  <2>0. LinkTypeOK /\ AskedOnce /\ cause = "none" /\ RefusalsSoFar /\ ReaderIsVouchedFor /\ StreakIsRapid
    BY <1>2 DEF LinkIInv, LiveInv
  <2> USE DEF given, sysap, ws, bounds, history
  <2>1. CASE Settings
    <3>1. LinkTypeOK'
      <4>1. Flags'
        BY <2>0, <2>1 DEF Settings, Continue, Die, LinkTypeOK, Flags
      <4>2. Ranges'
        BY <2>0, <2>1 DEF Settings, Continue, Die, LinkPhases, LinkTypeOK, Ranges
      <4> QED BY <4>1, <4>2 DEF LinkTypeOK
    <3>2. AskedOnce' /\ FatalIsDeserved'
      BY <1>2, <2>0, <2>1 DEF Settings, Continue, Die, AskedOnce, FatalIsDeserved, ReaderIsVouchedFor, Probing, Alive, LinkTypeOK, Ranges
    <3>3. LiveInv'
      BY <2>0, <2>1 DEF Settings, Continue, Die, LiveInv, Alive, RefusalsSoFar, ReaderIsVouchedFor, Probing, StreakIsRapid, LinkTypeOK, Ranges
    <3> QED BY <3>1, <3>2, <3>3 DEF LinkIInv
  <2>2. CASE Accepted
    <3>1. LinkTypeOK'
      <4>1. Flags'
        BY <2>0, <2>2 DEF Accepted, Spawn, Untouched, Continue, LinkTypeOK, Flags
      <4>2. Ranges'
        <5>1. /\ phase' = "wait" /\ reader' = "connecting" /\ buffered' = 0
              /\ UNCHANGED <<verdict, cause, user, conn, attempt, streak, rapid, outages, changes, refused>>
          BY <2>2 DEF Accepted, Spawn, Untouched, Continue
        <5>2. buffered' \in 0..BufferLimit
          BY <5>1
        <5>3. phase' \in LinkPhases
          BY <5>1 DEF LinkPhases
        <5> QED BY <2>0, <5>1, <5>2, <5>3 DEF LinkTypeOK, Ranges
      <4> QED BY <4>1, <4>2 DEF LinkTypeOK
    <3>2. AskedOnce' /\ FatalIsDeserved'
      BY <2>0, <2>2 DEF Accepted, Spawn, Continue, AskedOnce, FatalIsDeserved
    <3>3. LiveInv'
      BY <2>0, <2>2 DEF Accepted, Spawn, Continue, LiveInv, Alive, RefusalsSoFar, ReaderIsVouchedFor, Probing, StreakIsRapid, LinkTypeOK, Ranges
    <3> QED BY <3>1, <3>2, <3>3 DEF LinkIInv
  <2>3. CASE Unanswered
    <3>1. LinkTypeOK'
      <4>1. Flags'
        BY <2>0, <2>3 DEF Unanswered, Spawn, Untouched, Continue, LinkTypeOK, Flags
      <4>2. Ranges'
        <5>1. /\ phase' = "wait" /\ reader' = "connecting" /\ buffered' = 0
              /\ UNCHANGED <<verdict, cause, user, conn, attempt, streak, rapid, outages, changes, refused>>
          BY <2>3 DEF Unanswered, Spawn, Untouched, Continue
        <5>2. buffered' \in 0..BufferLimit
          BY <5>1
        <5>3. phase' \in LinkPhases
          BY <5>1 DEF LinkPhases
        <5> QED BY <2>0, <5>1, <5>2, <5>3 DEF LinkTypeOK, Ranges
      <4> QED BY <4>1, <4>2 DEF LinkTypeOK
    <3>2. AskedOnce' /\ FatalIsDeserved'
      BY <2>0, <2>3 DEF Unanswered, Spawn, Continue, AskedOnce, FatalIsDeserved
    <3>3. LiveInv'
      BY <2>0, <2>3 DEF Unanswered, Spawn, Continue, LiveInv, Alive, RefusalsSoFar, ReaderIsVouchedFor, Probing, StreakIsRapid, LinkTypeOK, Ranges
    <3> QED BY <3>1, <3>2, <3>3 DEF LinkIInv
  <2>4. CASE Refused
    <3>1. /\ refused' = [refused EXCEPT !["main"] = [@ EXCEPT ![user] = 1]]
          /\ refused' \in [Tasks -> [Users -> 0..2]] /\ AskedOnce'
      BY <2>0, <2>4, RefuseCounts DEF Refused, Tasks
    <3>2. LinkTypeOK'
      <4>1. Flags'
        BY <2>0, <2>4, <3>1 DEF Refused, Continue, Die, LinkTypeOK, Flags
      <4>2. Ranges'
        BY <2>0, <2>4, <3>1 DEF Refused, Continue, Die, LinkPhases, Users, LinkTypeOK, Ranges
      <4> QED BY <4>1, <4>2 DEF LinkTypeOK
    <3>3. CASE phase = "probe" /\ hasJid
      <4>1. user = "name"
        BY <2>0, <3>3 DEF RefusalsSoFar, LinkTypeOK, Ranges, Users
      <4>2. phase' = "probe jid" /\ user' = "jid" /\ cause' = "none"
        BY <2>0, <2>4, <3>3 DEF Refused, Continue
      <4>3. RefusalsSoFar'
        BY <2>0, <2>4, <3>1, <3>3, <4>1, <4>2 DEF Refused, RefusalsSoFar, LinkTypeOK, Ranges, Tasks, Users
      <4>4. ReaderIsVouchedFor' /\ StreakIsRapid'
        BY <2>0, <2>4, <3>3, <4>2 DEF Refused, ReaderIsVouchedFor, StreakIsRapid, Probing
      <4> QED BY <3>1, <3>2, <4>2, <4>3, <4>4 DEF LinkIInv, LiveInv, FatalIsDeserved
    <3>4. CASE ~(phase = "probe" /\ hasJid)
      <4>1. phase' = "dead" /\ cause' = "refused" /\ UNCHANGED <<user, hasJid>>
        BY <2>4, <3>4 DEF Refused, Die
      <4>2. refused'["main"][user] > 0
        BY <2>0, <3>1 DEF LinkTypeOK, Ranges, Tasks
      <4>3. user = "jid" => refused'["main"]["name"] > 0
        BY <2>0, <3>1 DEF LinkTypeOK, Ranges, RefusalsSoFar, Tasks, Users
      <4>4. user = "name" => ~hasJid
        BY <2>0, <2>4, <3>4 DEF Refused, RefusalsSoFar
      <4>5. FatalIsDeserved'
        BY <2>0, <4>1, <4>2, <4>3, <4>4 DEF FatalIsDeserved, LinkTypeOK, Ranges, Tasks, Users
      <4> QED BY <3>1, <3>2, <4>1, <4>5 DEF LinkIInv, LiveInv, Alive
    <3> QED BY <3>3, <3>4
  <2>5. CASE WaitedForReader
    <3>1. LinkTypeOK'
      <4>1. Flags'
        BY <2>0, <2>5 DEF WaitedForReader, Continue, LinkTypeOK, Flags
      <4>2. Ranges'
        BY <2>0, <2>5 DEF WaitedForReader, Continue, LinkPhases, LinkTypeOK, Ranges
      <4> QED BY <4>1, <4>2 DEF LinkTypeOK
    <3>2. AskedOnce' /\ FatalIsDeserved'
      BY <2>0, <2>5 DEF WaitedForReader, Continue, AskedOnce, FatalIsDeserved
    <3>3. LiveInv'
      BY <2>0, <2>5 DEF WaitedForReader, Continue, LiveInv, Alive, RefusalsSoFar, ReaderIsVouchedFor, Probing, StreakIsRapid
    <3> QED BY <3>1, <3>2, <3>3 DEF LinkIInv
  <2>6. CASE Fetched
    <3>1. LinkTypeOK'
      <4>1. Flags'
        BY <2>0, <2>6 DEF Fetched, Untouched, Continue, LinkTypeOK, Flags
      <4>2. Ranges'
        BY <2>0, <2>6 DEF Fetched, Untouched, Continue, LinkPhases, LinkTypeOK, Ranges
      <4> QED BY <4>1, <4>2 DEF LinkTypeOK
    <3>2. AskedOnce' /\ FatalIsDeserved'
      BY <2>0, <2>6 DEF Fetched, Continue, AskedOnce, FatalIsDeserved
    <3>3. LiveInv'
      BY <2>0, <2>6 DEF Fetched, Continue, LiveInv, Alive, RefusalsSoFar, ReaderIsVouchedFor, Probing, StreakIsRapid
    <3> QED BY <3>1, <3>2, <3>3 DEF LinkIInv
  <2>7. CASE FetchRefused
    <3>1. /\ refused' = [refused EXCEPT !["main"] = [@ EXCEPT ![user] = 1]]
          /\ refused' \in [Tasks -> [Users -> 0..2]] /\ AskedOnce'
      BY <2>0, <2>7, RefuseCounts DEF FetchRefused, Tasks
    <3>2. LinkTypeOK'
      <4>1. Flags'
        BY <2>0, <2>7, <3>1 DEF FetchRefused, Die, LinkTypeOK, Flags
      <4>2. Ranges'
        BY <2>0, <2>7, <3>1 DEF FetchRefused, Die, LinkPhases, Users, LinkTypeOK, Ranges
      <4> QED BY <4>1, <4>2 DEF LinkTypeOK
    <3> DEFINE Second == dry /\ user = "name" /\ hasJid /\ verdict[user] = "401"
    <3>3. CASE Second
      <4>1. user' = "jid" /\ UNCHANGED <<phase, cause>> /\ phase = "fetch"
        BY <2>7, <3>3 DEF FetchRefused
      <4>2. RefusalsSoFar'
        BY <2>0, <2>7, <3>1, <3>3, <4>1 DEF FetchRefused, RefusalsSoFar, LinkTypeOK, Ranges, Tasks, Users
      <4>3. ReaderIsVouchedFor' /\ StreakIsRapid'
        BY <2>0, <2>7, <3>3, <4>1 DEF FetchRefused, ReaderIsVouchedFor, StreakIsRapid, Probing
      <4> QED BY <2>0, <3>1, <3>2, <4>1, <4>2, <4>3 DEF LinkIInv, LiveInv, FatalIsDeserved
    <3>4. CASE ~Second
      <4>1. phase' = "dead" /\ cause' = "refused" /\ UNCHANGED <<user, hasJid, dry, verdict, blind, changes>>
        BY <2>7, <3>4 DEF FetchRefused, Die
      <4>2. refused'["main"][user] > 0
        BY <2>0, <3>1 DEF LinkTypeOK, Ranges, Tasks
      <4>3. ASSUME ~dry PROVE FatalIsDeserved'
        <5>1. verdict[user] # "ok" /\ reader # "none"
          BY <2>0, <2>7, <4>3 DEF FetchRefused, ReaderIsVouchedFor, Probing
        <5>2. blind \/ changes > 0
          BY <2>0, <5>1 DEF ReaderIsVouchedFor
        <5>3. blind' \/ changes' > 0
          BY <4>1, <5>2
        <5> QED BY <4>1, <5>3 DEF FatalIsDeserved
      <4>4. ASSUME dry, user = "jid" PROVE FatalIsDeserved'
        <5>1. refused'["main"]["name"] > 0
          BY <2>0, <3>1, <4>4 DEF LinkTypeOK, Ranges, RefusalsSoFar, Tasks, Users
        <5> QED BY <4>1, <4>2, <4>4, <5>1 DEF FatalIsDeserved, Tasks, Users
      <4>5. ASSUME dry, user = "name" PROVE FatalIsDeserved'
        <5>1. hasJid => verdict["name"] = "403"
          BY <2>0, <2>7, <3>4, <4>5 DEF FetchRefused, LinkTypeOK, Ranges, Users, Verdicts
        <5> QED BY <4>1, <4>2, <4>5, <5>1 DEF FatalIsDeserved, Tasks, Users
      <4>6. FatalIsDeserved'
        BY <2>0, <4>3, <4>4, <4>5 DEF LinkTypeOK, Ranges, Users
      <4> QED BY <3>1, <3>2, <4>1, <4>6 DEF LinkIInv, LiveInv, Alive
    <3> QED BY <3>3, <3>4
  <2>8. CASE StopReader
    <3>1. LinkTypeOK'
      <4>1. Flags'
        BY <2>0, <2>8 DEF StopReader, Continue, LinkTypeOK, Flags
      <4>2. Ranges'
        BY <2>0, <2>8 DEF StopReader, Continue, LinkPhases, LinkTypeOK, Ranges
      <4> QED BY <4>1, <4>2 DEF LinkTypeOK
    <3>2. AskedOnce' /\ FatalIsDeserved'
      BY <2>0, <2>8 DEF StopReader, Continue, AskedOnce, FatalIsDeserved
    <3>3. LiveInv'
      BY <2>0, <2>8 DEF StopReader, Continue, LiveInv, Alive, RefusalsSoFar, ReaderIsVouchedFor, Probing, StreakIsRapid
    <3> QED BY <3>1, <3>2, <3>3 DEF LinkIInv
  <2>9. CASE Finish
    <3>1. LinkTypeOK'
      <4>1. Flags'
        BY <2>0, <2>9 DEF Finish, Continue, LinkTypeOK, Flags
      <4>2. Ranges'
        BY <2>0, <2>9 DEF Finish, Continue, LinkPhases, LinkTypeOK, Ranges
      <4> QED BY <4>1, <4>2 DEF LinkTypeOK
    <3>2. AskedOnce' /\ FatalIsDeserved'
      BY <2>0, <2>9 DEF Finish, Continue, AskedOnce, FatalIsDeserved
    <3> QED BY <2>9, <3>1, <3>2 DEF Finish, Continue, LinkIInv, LiveInv, Alive
  <2>10. CASE ReaderRefused
    <3>1. /\ refused' \in [Tasks -> [Users -> 0..2]] /\ AskedOnce'
      BY <2>0, <2>10, RefuseCounts DEF ReaderRefused, Tasks
    <3>2. LinkTypeOK'
      <4>1. Flags'
        BY <2>0, <2>10, <3>1 DEF ReaderRefused, Die, LinkTypeOK, Flags
      <4>2. Ranges'
        BY <2>0, <2>10, <3>1 DEF ReaderRefused, Die, LinkPhases, LinkTypeOK, Ranges
      <4> QED BY <4>1, <4>2 DEF LinkTypeOK
    <3>3. blind \/ changes > 0
      BY <2>0, <2>10 DEF ReaderRefused, ReaderIsVouchedFor
    <3>4. FatalIsDeserved'
      BY <2>10, <3>3 DEF ReaderRefused, Die, FatalIsDeserved
    <3> QED BY <2>10, <3>1, <3>2, <3>4 DEF ReaderRefused, Die, LinkIInv, LiveInv, Alive
  <2>11. ASSUME NEW quick \in BOOLEAN, Overflow(quick) PROVE LinkIInv'
    <3>1. /\ streak' = (IF quick THEN streak + 1 ELSE 1)
          /\ rapid' = (IF quick THEN Capped(rapid + 1, Threshold) ELSE 0)
      BY <2>11 DEF Overflow, Count
    <3>2. /\ streak' \in 0..Threshold /\ rapid' \in 0..Threshold
          /\ streak' <= rapid' + 1
          /\ streak' >= Threshold => rapid' >= Threshold - 1
      BY <2>0, <3>1 DEF LinkTypeOK, Ranges, StreakIsRapid, Capped
    <3>3. LinkTypeOK'
      <4>1. Flags'
        BY <2>0, <2>11, <3>2 DEF Overflow, Die, LinkTypeOK, Flags
      <4>2. Ranges'
        BY <2>0, <2>11, <3>2 DEF Overflow, Die, LinkPhases, LinkTypeOK, Ranges
      <4> QED BY <4>1, <4>2 DEF LinkTypeOK
    <3>4. AskedOnce' /\ FatalIsDeserved'
      BY <2>0, <2>11, <3>2 DEF Overflow, Die, AskedOnce, FatalIsDeserved
    <3>5. LiveInv'
      <4>1. CASE streak' >= Threshold
        BY <2>11, <4>1 DEF Overflow, Die, LiveInv, Alive
      <4>2. CASE ~(streak' >= Threshold)
        <5>1. UNCHANGED <<phase, cause>> /\ StreakIsRapid'
          BY <2>11, <3>2, <4>2 DEF Overflow, StreakIsRapid
        <5> QED BY <2>0, <2>11, <5>1 DEF Overflow, LiveInv, RefusalsSoFar, ReaderIsVouchedFor, Probing
      <4> QED BY <4>1, <4>2
    <3> QED BY <3>3, <3>4, <3>5 DEF LinkIInv
  <2>12. CASE ChangesVerdict
    <3>1. PICK u \in Users, v \in Verdicts : verdict' = [verdict EXCEPT ![u] = v]
      BY <2>12 DEF ChangesVerdict
    <3>2. changes' \in 0..MaxVerdicts /\ changes' > 0
      BY <2>0, <2>12 DEF ChangesVerdict, LinkTypeOK, Ranges
    <3>3. LinkTypeOK'
      <4>1. Flags'
        BY <2>0, <2>12, <3>1, <3>2 DEF ChangesVerdict, LinkTypeOK, Flags
      <4>2. Ranges'
        BY <2>0, <2>12, <3>1, <3>2 DEF ChangesVerdict, LinkTypeOK, Ranges
      <4> QED BY <4>1, <4>2 DEF LinkTypeOK
    <3>4. AskedOnce' /\ FatalIsDeserved'
      BY <2>0, <2>12, <3>2 DEF ChangesVerdict, AskedOnce, FatalIsDeserved
    <3>5. LiveInv'
      BY <2>0, <2>12, <3>2 DEF ChangesVerdict, LiveInv, RefusalsSoFar, ReaderIsVouchedFor, Probing, StreakIsRapid
    <3> QED BY <3>3, <3>4, <3>5 DEF LinkIInv
  <2> USE DEF Settled
  <2>13. CASE CloseSession
    <3>1. LinkTypeOK'
      <4>1. Flags'
        BY <2>0, <2>13 DEF CloseSession, LinkTypeOK, Flags
      <4>2. Ranges'
        BY <2>0, <2>13 DEF CloseSession, LinkTypeOK, Ranges
      <4> QED BY <4>1, <4>2 DEF LinkTypeOK
    <3> QED BY <2>13, <3>1, SettledKeeps DEF CloseSession
  <2>14. CASE Connect
    <3>1. LinkTypeOK'
      <4>1. Flags'
        BY <2>0, <2>14 DEF Connect, LinkTypeOK, Flags
      <4>2. Ranges'
        BY <2>0, <2>14 DEF Connect, LinkTypeOK, Ranges
      <4> QED BY <4>1, <4>2 DEF LinkTypeOK
    <3> QED BY <2>14, <3>1, SettledKeeps DEF Connect
  <2>15. CASE ConnectFails \/ Closed \/ Idle
    <3>1. Disconnected /\ OnlyLink /\ reader # "none"
      BY <2>15 DEF ConnectFails, Closed, Idle
    <3>2. LinkTypeOK'
      <4>1. Flags'
        BY <2>0, <3>1 DEF Disconnected, OnlyLink, LinkTypeOK, Flags
      <4>2. Ranges'
        BY <2>0, <3>1 DEF Disconnected, OnlyLink, Capped, LinkTypeOK, Ranges
      <4> QED BY <4>1, <4>2 DEF LinkTypeOK
    <3> QED BY <3>1, <3>2, SettledKeeps DEF Disconnected, OnlyLink
  <2>16. CASE BackoffOver
    <3>1. LinkTypeOK'
      <4>1. Flags'
        BY <2>0, <2>16 DEF BackoffOver, OnlyLink, LinkTypeOK, Flags
      <4>2. Ranges'
        BY <2>0, <2>16 DEF BackoffOver, OnlyLink, LinkTypeOK, Ranges
      <4> QED BY <4>1, <4>2 DEF LinkTypeOK
    <3> QED BY <2>16, <3>1, SettledKeeps DEF BackoffOver, OnlyLink
  <2>17. CASE Restart
    <3>1. LinkTypeOK'
      <4>1. Flags'
        BY <2>0, <2>17 DEF Restart, OnlyLink, LinkTypeOK, Flags
      <4>2. Ranges'
        BY <2>0, <2>17 DEF Restart, OnlyLink, LinkTypeOK, Ranges
      <4> QED BY <4>1, <4>2 DEF LinkTypeOK
    <3> QED BY <2>17, <3>1, SettledKeeps DEF Restart, OnlyLink
  <2>18. CASE Buffer
    <3>1. LinkTypeOK'
      <4>1. Flags'
        BY <2>0, <2>18 DEF Buffer, LinkTypeOK, Flags
      <4>2. Ranges'
        BY <2>0, <2>18 DEF Buffer, LinkTypeOK, Ranges
      <4> QED BY <4>1, <4>2 DEF LinkTypeOK
    <3> QED BY <2>18, <3>1, SettledKeeps DEF Buffer
  <2>19. CASE Drain
    <3>1. LinkTypeOK'
      <4>1. Flags'
        BY <2>0, <2>19 DEF Drain, LinkTypeOK, Flags
      <4>2. Ranges'
        BY <2>0, <2>19 DEF Drain, LinkTypeOK, Ranges
      <4> QED BY <4>1, <4>2 DEF LinkTypeOK
    <3> QED BY <2>19, <3>1, SettledKeeps DEF Drain
  <2>20. CASE GoesDown \/ LosesConnection
    <3>1. LinkTypeOK'
      <4>1. Flags'
        BY <2>0, <2>20 DEF GoesDown, LosesConnection, Cut, LinkTypeOK, Flags
      <4>2. Ranges'
        BY <2>0, <2>20 DEF GoesDown, LosesConnection, Cut, LinkTypeOK, Ranges
      <4> QED BY <4>1, <4>2 DEF LinkTypeOK
    <3> QED BY <2>20, <3>1, SettledKeeps DEF GoesDown, LosesConnection
  <2>21. CASE ComesUp \/ Ask
    <3>1. LinkTypeOK'
      <4>1. Flags'
        BY <2>0, <2>21 DEF ComesUp, Ask, LinkTypeOK, Flags
      <4>2. Ranges'
        BY <2>0, <2>21 DEF ComesUp, Ask, LinkTypeOK, Ranges
      <4> QED BY <4>1, <4>2 DEF LinkTypeOK
    <3> QED BY <2>21, <3>1, SettledKeeps DEF ComesUp, Ask
  <2> QED BY <1>2, <2>1, <2>2, <2>3, <2>4, <2>5, <2>6, <2>7, <2>8, <2>9, <2>10, <2>11, <2>12, <2>13,
             <2>14, <2>15, <2>16, <2>17, <2>18, <2>19, <2>20, <2>21
          DEF Next, Main, Reader, Frame, Environment
<1> QED BY <1>1, <1>2 DEF Next

LEMMA LinkInductive == Spec => []LinkIInv
<1> QED BY LinkInitInv, LinkStepInv, PTL DEF Spec

\* Every variable of the link stays in its range, for every instance: in
\* particular the buffer within its limit and the streak within the threshold.
THEOREM LinkTypeCorrect == Spec => []LinkTypeOK
<1>1. LinkIInv => LinkTypeOK
  BY DEF LinkIInv
<1> QED BY <1>1, LinkInductive, PTL

\* AskedOnce, for every instance: neither task ever offers the SysAP a user
\* name that it has refused to that task, through the probe, the retry with the
\* jid, the fetch, the reconnects and the restarts of the reader.
THEOREM NoUserTwice == Spec => []AskedOnce
<1>1. LinkIInv => AskedOnce
  BY DEF LinkIInv
<1> QED BY <1>1, LinkInductive, PTL

\* FatalIsDeserved, for every instance and every escalation threshold: the
\* bridge dies of a refusal, of an unreachable SysAP or of restarts only where
\* _resolve_sysap_credentials, dry_run and restart_on_failure mean it to.
THEOREM NoUndeservedEnd == Spec => []FatalIsDeserved
<1>1. LinkIInv => FatalIsDeserved
  BY DEF LinkIInv
<1> QED BY <1>1, LinkInductive, PTL
====
