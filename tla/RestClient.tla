---- MODULE RestClient ----
(***************************************************************************)
(* The REST client of sysap/rest.py: AdaptiveLimiter, whose ceiling moves  *)
(* while requests hold slots and wait for them, and RestClient._request,   *)
(* the loop of attempts around it.  Each request of Requests is issued     *)
(* once.  The condition's lock is never held over an await, so what runs   *)
(* under it is one step.  Time is abstracted: a backoff may end at once.   *)
(***************************************************************************)
EXTENDS Integers, FiniteSets

CONSTANTS
    Requests,     \* calls of the client
    MaxInflight,  \* AdaptiveLimiter._max
    MaxAttempts,  \* RestClient._max_attempts
    Uuids,        \* what the single key of a body may be
    NoUuid        \* the SysAP's UUID is not known

ASSUME RequestsAssumption == IsFiniteSet(Requests)
ASSUME InflightAssumption == MaxInflight \in Nat \ {0}
ASSUME AttemptsAssumption == MaxAttempts \in Nat \ {0}
ASSUME UuidAssumption == NoUuid \notin Uuids

Kinds == {"configuration", "datapoint"}

Transient == {"overloaded", "server", "connection"}

\* What an attempt may bring: a 2xx or 3xx, a 502, another 5xx, any other
\* status from 400 on, no answer.
Replies == Transient \cup {"ok", "rejected"}

Places == {"idle", "ready", "waiting", "wire", "leaving", "backoff", "done"}

VARIABLES
    limit,     \* AdaptiveLimiter._limit
    inFlight,  \* AdaptiveLimiter._in_flight
    uuid,      \* RestClient._sysap_uuid
    place,     \* where each request is; "ready" tests the ceiling when it runs
    kind,      \* what it asks
    attempts,  \* the number of its attempt
    reply,     \* what its attempt brought
    outcome,   \* how it ended
    sent       \* history: how often it went out

restVars == <<limit, inFlight, uuid, place, kind, attempts, reply, outcome, sent>>

TypeOK ==
    /\ limit \in 1..MaxInflight
    /\ inFlight \in 0..MaxInflight
    /\ uuid \in Uuids \cup {NoUuid}
    /\ place \in [Requests -> Places]
    /\ kind \in [Requests -> Kinds]
    /\ attempts \in [Requests -> 1..MaxAttempts]
    /\ reply \in [Requests -> Replies]
    /\ outcome \in [Requests -> Replies \cup {"none", "unresolved", "malformed",
                                              "failed", "cancelled"}]
    /\ sent \in [Requests -> Nat]

RestInit ==
    /\ limit = MaxInflight
    /\ inFlight = 0
    /\ uuid = NoUuid
    /\ place = [r \in Requests |-> "idle"]
    /\ kind \in [Requests -> Kinds]
    /\ attempts = [r \in Requests |-> 1]
    /\ reply = [r \in Requests |-> "ok"]
    /\ outcome = [r \in Requests |-> "none"]
    /\ sent = [r \in Requests |-> 0]

----------------------------------------------------------------------------
\* A call.  A path that names the SysAP needs its UUID (_require_sysap_uuid).
Call(r) ==
    /\ place[r] = "idle"
    /\ IF kind[r] # "configuration" /\ uuid = NoUuid
       THEN /\ place' = [place EXCEPT ![r] = "done"]
            /\ outcome' = [outcome EXCEPT ![r] = "unresolved"]
       ELSE /\ place' = [place EXCEPT ![r] = "ready"]
            /\ UNCHANGED outcome
    /\ UNCHANGED <<limit, inFlight, uuid, kind, attempts, reply, sent>>

\* __aenter__ finds a free slot, and the request goes out.
Enter(r) ==
    /\ place[r] = "ready"
    /\ inFlight < limit
    /\ inFlight' = inFlight + 1
    /\ place' = [place EXCEPT ![r] = "wire"]
    /\ sent' = [sent EXCEPT ![r] = @ + 1]
    /\ UNCHANGED <<limit, uuid, kind, attempts, reply, outcome>>

\* __aenter__ finds none.
Wait(r) ==
    /\ place[r] = "ready"
    /\ inFlight >= limit
    /\ place' = [place EXCEPT ![r] = "waiting"]
    /\ UNCHANGED <<limit, inFlight, uuid, kind, attempts, reply, outcome, sent>>

\* Slip: no floor.
HalvedToZero(n) == n \div 2

\* record_overload.
Halved(n) == IF n \div 2 >= 1 THEN n \div 2 ELSE 1

\* The attempt of r is answered, or is given up on; a 502 lowers the ceiling
\* while r still has its slot.
Answer(r, how) ==
    /\ place[r] = "wire"
    /\ place' = [place EXCEPT ![r] = "leaving"]
    /\ reply' = [reply EXCEPT ![r] = how]
    /\ limit' = IF how = "overloaded" THEN Halved(limit) ELSE limit
    /\ UNCHANGED <<inFlight, uuid, kind, attempts, outcome, sent>>

\* Slip: r gives its slot back and wakes nobody.
LeaveQuietly(r, next) ==
    /\ inFlight' = inFlight - 1
    /\ place' = [place EXCEPT ![r] = next]

\* __aexit__: r gives its slot back and wakes all that wait.
Leave(r, next) ==
    /\ inFlight' = inFlight - 1
    /\ place' = [q \in Requests |-> IF q = r THEN next
                                    ELSE IF place[q] = "waiting" THEN "ready"
                                    ELSE place[q]]

\* record_success.
Raised(n) == IF n < MaxInflight THEN n + 1 ELSE n

\* An answer that counts: the ceiling recovers by one, then the body is read.
\* A body without exactly one key is refused; the first key becomes the SysAP's
\* UUID, and another one later is only logged.  A write must say OK and a read
\* bring a value.
Succeed(r) ==
    /\ place[r] = "leaving"
    /\ reply[r] = "ok"
    /\ Leave(r, "done")
    /\ limit' = Raised(limit)
    /\ \/ /\ outcome' = [outcome EXCEPT ![r] = "malformed"]
          /\ UNCHANGED uuid
       \/ /\ uuid' \in IF uuid = NoUuid THEN Uuids ELSE {uuid}
          /\ \/ outcome' = [outcome EXCEPT ![r] = "ok"]
             \/ outcome' = [outcome EXCEPT ![r] = "malformed"]
             \/ /\ kind[r] # "configuration"
                /\ outcome' = [outcome EXCEPT ![r] = "failed"]
    /\ UNCHANGED <<kind, attempts, reply, sent>>

\* A 502, another 5xx and a connection error are tried again.
Retries(r) == reply[r] \in Transient /\ attempts[r] < MaxAttempts

Retry(r) ==
    /\ place[r] = "leaving"
    /\ Retries(r)
    /\ Leave(r, "backoff")
    /\ UNCHANGED <<limit, uuid, kind, attempts, reply, outcome, sent>>

\* Every other status, or the last attempt: the error is the caller's.
Fail(r) ==
    /\ place[r] = "leaving"
    /\ reply[r] # "ok"
    /\ ~Retries(r)
    /\ Leave(r, "done")
    /\ outcome' = [outcome EXCEPT ![r] = reply[r]]
    /\ UNCHANGED <<limit, uuid, kind, attempts, reply, sent>>

\* The backoff is over.
Resume(r) ==
    /\ place[r] = "backoff"
    /\ place' = [place EXCEPT ![r] = "ready"]
    /\ attempts' = [attempts EXCEPT ![r] = @ + 1]
    /\ UNCHANGED <<limit, inFlight, uuid, kind, reply, outcome, sent>>

\* Slip: a cancelled wait gives back a slot it never had.
HasSlotOrWaits(r) == place[r] \in {"wire", "leaving", "waiting"}

HasSlot(r) == place[r] \in {"wire", "leaving"}

\* The task that made the call is cancelled, wherever it is.
Cancel(r) ==
    /\ place[r] \notin {"idle", "done"}
    /\ IF HasSlot(r) THEN Leave(r, "done")
       ELSE /\ place' = [place EXCEPT ![r] = "done"]
            /\ UNCHANGED inFlight
    /\ outcome' = [outcome EXCEPT ![r] = "cancelled"]
    /\ UNCHANGED <<limit, uuid, kind, attempts, reply, sent>>

\* What the client does by itself once the SysAP has answered.
Run(r) == Enter(r) \/ Wait(r) \/ Succeed(r) \/ Retry(r) \/ Fail(r) \/ Resume(r)

RestNext == \E r \in Requests :
    \/ Call(r)
    \/ Run(r)
    \/ \E how \in Replies : Answer(r, how)
    \/ Cancel(r)

\* A task that can run does, and an attempt ends: with an answer or, at the
\* latest, with request_timeout.
RestFairness == \A r \in Requests :
    WF_restVars(Run(r)) /\ WF_restVars(\E how \in Replies : Answer(r, how))

RestSpec == RestInit /\ [][RestNext]_restVars /\ RestFairness

----------------------------------------------------------------------------
(* Properties.                                                             *)

\* No slot leaks and none is given back twice, through halvings, retries and
\* cancellations: the counter is the number of requests that hold a slot.
SlotsAccounted == inFlight = Cardinality({r \in Requests : HasSlot(r)})

\* A wake-up is never lost: whoever waits is held back by as many requests as
\* the ceiling allows, so that one of them will wake it.
NoLostWakeup ==
    \A r \in Requests : place[r] = "waiting" => inFlight >= 1 /\ inFlight >= limit

\* An answer that is not transient ends the request: it goes out once per
\* attempt, at most MaxAttempts times, and after "rejected" never again.
AttemptsBounded ==
    \A r \in Requests :
        /\ sent[r] <= MaxAttempts
        /\ outcome[r] \in Transient => sent[r] = MaxAttempts
        /\ place[r] = "backoff" => reply[r] \in Transient

\* Every call ends, however the ceiling moves and whoever is cancelled.
EveryCallEnds == \A r \in Requests : place[r] = "ready" ~> place[r] = "done"
====
