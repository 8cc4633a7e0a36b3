---- MODULE CommandPath ----
(***************************************************************************)
(* The path of a command from MQTT to the SysAP and back:                  *)
(*   bus/commands.py   CommandDispatcher: optimistic mark, debounce, PUT   *)
(*   bus/reconcile.py  Reconciler and RateLimiter                          *)
(*   bus/state.py      values and unconfirmed                              *)
(*   supervisor.py     _rebuild_dependents replaces the lot on a resync    *)
(* for one entity; each attribute has one command and one datapoint.  PUTs *)
(* and reads are tasks of their own, answered in any order; the echoes of  *)
(* the SysAP arrive in order.  Time is abstracted: a timer may fire as     *)
(* soon as it is set.                                                      *)
(***************************************************************************)
EXTENDS Naturals, Sequences, SequencesExt

CONSTANTS
    Attrs,        \* attribute indices of the entity
    Values,       \* encoded values
    None,         \* no value
    Continuous,   \* attributes whose command is debounced
    Confirmed,    \* attributes whose command arms the reconciler (confirm: true)
    Faults,       \* what may go wrong with a PUT or a read
    MaxCommands,  \* bound on the commands
    MaxForeign,   \* bound on the changes made elsewhere
    MaxFaults,    \* bound on the faults
    MaxGets,      \* bound on the /get requests
    MaxResyncs    \* bound on the resyncs

ASSUME AttrsAssumption ==
    /\ Attrs \subseteq Nat /\ IsFiniteSet(Attrs)
    /\ Continuous \subseteq Attrs
    /\ Confirmed \subseteq Attrs
ASSUME NoneAssumption == None \notin Values
ASSUME FaultsAssumption ==
    Faults \subseteq {"refused", "broken", "repeated", "ignored", "silent", "unread"}
ASSUME LimitsAssumption ==
    /\ MaxCommands \in Nat
    /\ MaxForeign \in Nat
    /\ MaxFaults \in Nat
    /\ MaxGets \in Nat
    /\ MaxResyncs \in Nat

Maybe == Values \cup {None}

\* A PUT not executed yet, begun by the dispatcher of the current model or by
\* one a resync replaced.
Put == [attr : Attrs, val : Values, current : BOOLEAN]

\* A read: its answer is None until the SysAP has taken it; rest is what is
\* left for the /get that issued it.
Read == [attr : Attrs, val : Maybe, rest : SUBSET Attrs]

Echo == [attr : Attrs, val : Values]

VARIABLES
    sysap,        \* the SysAP's value of each attribute
    echoes,       \* frames on their way, in order
    values,       \* StateStore.values
    unconfirmed,  \* StateStore.unconfirmed, as a set of attributes
    window,       \* CommandDispatcher._windows: attributes with an open window
    pending,      \* CommandDispatcher._pending
    lastSent,     \* CommandDispatcher._last_sent
    puts,         \* the _write_now tasks, in the order they were begun
    timers,       \* Reconciler._timers: attributes with an armed timer
    cooling,      \* RateLimiter: a read of the entity is not allowed yet
    reads,        \* the reads under way
    old,          \* per attribute: the value an open window of the replaced
                  \* dispatcher will send
    stage,        \* "running", "stopping" after flush_pending, "closed"
    commands, foreign, faults, gets, resyncs,
    commanded,    \* history: the last value commanded
    sent,         \* history: the last value a PUT was begun with
    reordered,    \* history: a PUT overtook an older one
    faulted,      \* history: a PUT that the SysAP did not execute once
    silent,       \* history: changed at the SysAP without an echo, not read since
    staleRead,    \* history: a read's answer was applied behind a newer echo
    givenUp,      \* history: the reconciler's read was skipped or failed
    cut           \* history: a resync replaced an open window

sysapVars    == <<sysap, echoes>>
storeVars    == <<values, unconfirmed>>
debounceVars == <<window, pending, lastSent>>
reconVars    == <<timers, cooling, reads>>
bounds       == <<commands, foreign, faults, gets, resyncs>>
sendHistory  == <<commanded, sent, reordered, faulted, cut>>
truthHistory == <<silent, staleRead>>
history      == <<sendHistory, truthHistory, givenUp>>
vars == <<sysapVars, storeVars, debounceVars, puts, reconVars, old, stage, bounds, history>>

TypeOK ==
    /\ sysap \in [Attrs -> Values]
    /\ echoes \in Seq(Echo)
    /\ values \in [Attrs -> Values]
    /\ unconfirmed \in SUBSET Attrs
    /\ window \in SUBSET Continuous
    /\ pending \in [Attrs -> Maybe]
    /\ \A a \in Attrs : a \in window <=> pending[a] # None
    /\ lastSent \in [Attrs -> Maybe]
    /\ puts \in Seq(Put)
    /\ timers \in SUBSET Confirmed
    /\ cooling \in BOOLEAN
    /\ reads \in Seq(Read)
    /\ old \in [Attrs -> Maybe]
    /\ stage \in {"running", "stopping", "closed"}
    /\ commands \in 0..MaxCommands
    /\ foreign \in 0..MaxForeign
    /\ faults \in 0..MaxFaults
    /\ gets \in 0..MaxGets
    /\ resyncs \in 0..MaxResyncs
    /\ commanded \in [Attrs -> Maybe]
    /\ sent \in [Attrs -> Maybe]
    /\ reordered \in SUBSET Attrs
    /\ faulted \in SUBSET Attrs
    /\ silent \in SUBSET Attrs
    /\ staleRead \in SUBSET Attrs
    /\ givenUp \in SUBSET Attrs
    /\ cut \in SUBSET Attrs

Nothing == [a \in Attrs |-> None]

\* A model has just been compiled and its store seeded.
Init ==
    /\ sysap \in [Attrs -> Values]
    /\ echoes = <<>>
    /\ values = sysap
    /\ unconfirmed = {}
    /\ window = {}
    /\ pending = Nothing
    /\ lastSent = Nothing
    /\ puts = <<>>
    /\ timers = {}
    /\ cooling = FALSE
    /\ reads = <<>>
    /\ old = Nothing
    /\ stage = "running"
    /\ commands = 0
    /\ foreign = 0
    /\ faults = 0
    /\ gets = 0
    /\ resyncs = 0
    /\ commanded = Nothing
    /\ sent = Nothing
    /\ reordered = {}
    /\ faulted = {}
    /\ silent = {}
    /\ staleRead = {}
    /\ givenUp = {}
    /\ cut = {}

Alive == stage # "closed"

----------------------------------------------------------------------------
(* The dispatcher.                                                         *)

\* Slip: a value the store has already is not sent.
SendUnlessStored(a, v) ==
    IF values[a] = v THEN UNCHANGED <<lastSent, sent, puts>>
    ELSE /\ lastSent' = [lastSent EXCEPT ![a] = v]
         /\ sent' = [sent EXCEPT ![a] = v]
         /\ puts' = Append(puts, [attr |-> a, val |-> v, current |-> TRUE])

\* _send: remember the value and begin a PUT.
Send(a, v) ==
    /\ lastSent' = [lastSent EXCEPT ![a] = v]
    /\ sent' = [sent EXCEPT ![a] = v]
    /\ puts' = Append(puts, [attr |-> a, val |-> v, current |-> TRUE])

\* Slip: a window keeps its first value.
EnqueueFirst(a, v) ==
    IF a \in window THEN UNCHANGED <<lastSent, sent, puts, window, pending>>
    ELSE /\ Send(a, v)
         /\ IF a \in Continuous
            THEN /\ window' = window \cup {a}
                 /\ pending' = [pending EXCEPT ![a] = v]
            ELSE UNCHANGED <<window, pending>>

\* The leading edge goes out at once; a value inside the window only replaces
\* what the window will send when it closes.
Enqueue(a, v) ==
    /\ IF a \in window THEN UNCHANGED <<lastSent, sent, puts>> ELSE Send(a, v)
    /\ IF a \in Continuous
       THEN /\ window' = window \cup {a}
            /\ pending' = [pending EXCEPT ![a] = v]
       ELSE UNCHANGED <<window, pending>>

\* Slip: a command inside an open window does not arm again.
ArmOutsideWindow(a) == timers' = timers \cup ({a} \cap (Confirmed \ window))

\* Slip: a command that repeats the stored value does not arm.
ArmIfChanged(a) ==
    timers' = IF values'[a] = values[a] THEN timers ELSE timers \cup ({a} \cap Confirmed)

\* Reconciler.schedule: arm the timer, or start it again.
Arm(a) == timers' = timers \cup ({a} \cap Confirmed)

\* A valid /set of one attribute (an invalid one changes nothing): mark, arm
\* the reconciler, enqueue.  no_optimistic skips the first two.
Set(a, v, optimistic) ==
    /\ stage = "running"
    /\ commands < MaxCommands
    /\ commands' = commands + 1
    /\ commanded' = [commanded EXCEPT ![a] = v]
    /\ IF optimistic
       THEN /\ values' = [values EXCEPT ![a] = v]
            /\ unconfirmed' = unconfirmed \cup {a}
            /\ Arm(a)
            /\ givenUp' = givenUp \ {a}
       ELSE UNCHANGED <<values, unconfirmed, timers, givenUp>>
    /\ Enqueue(a, v)
    /\ UNCHANGED <<sysapVars, cooling, reads, old, stage, foreign, faults, gets, resyncs,
                   reordered, faulted, cut, truthHistory>>

\* Slip: the value stays pending.
CloseWindowKeeping(a) ==
    /\ Alive
    /\ a \in window
    /\ window' = window \ {a}
    /\ UNCHANGED pending
    /\ IF pending[a] # lastSent[a] THEN Send(a, pending[a])
                                   ELSE UNCHANGED <<lastSent, sent, puts>>
    /\ UNCHANGED <<sysapVars, storeVars, reconVars, old, stage, bounds, commanded,
                   reordered, faulted, cut, truthHistory, givenUp>>

\* _close_window after its sleep: the trailing edge, unless it was sent already.
CloseWindow(a) ==
    /\ Alive
    /\ a \in window
    /\ window' = window \ {a}
    /\ pending' = [pending EXCEPT ![a] = None]
    /\ IF pending[a] # lastSent[a] THEN Send(a, pending[a])
                                   ELSE UNCHANGED <<lastSent, sent, puts>>
    /\ UNCHANGED <<sysapVars, storeVars, reconVars, old, stage, bounds, commanded,
                   reordered, faulted, cut, truthHistory, givenUp>>

\* stop_accepting and flush_pending up to its gather: every open window sends
\* what it holds.
Stop ==
    /\ stage = "running"
    /\ stage' = "stopping"
    /\ window' = {}
    /\ pending' = Nothing
    /\ lastSent' = [a \in Attrs |-> IF a \in window THEN pending[a] ELSE lastSent[a]]
    /\ sent' = [a \in Attrs |-> IF a \in window THEN pending[a] ELSE sent[a]]
    /\ puts' = puts \o [i \in DOMAIN SetToSeq(window) |->
           [attr |-> SetToSeq(window)[i], val |-> pending[SetToSeq(window)[i]],
            current |-> TRUE]]
    /\ UNCHANGED <<sysapVars, storeVars, reconVars, old, bounds, commanded, reordered,
                   faulted, cut, truthHistory, givenUp>>

\* The deadline is over or the tasks are done, and the session is closed.
Close ==
    /\ stage = "stopping"
    /\ stage' = "closed"
    /\ puts' = <<>>
    /\ reads' = <<>>
    /\ UNCHANGED <<sysapVars, storeVars, debounceVars, timers, cooling, old, bounds, history>>

----------------------------------------------------------------------------
(* The SysAP.                                                              *)

Fault(f) ==
    /\ f \in Faults
    /\ faults < MaxFaults
    /\ faults' = faults + 1

\* A change made elsewhere, and its frame.
Foreign(a, v) ==
    /\ foreign < MaxForeign
    /\ foreign' = foreign + 1
    /\ v # sysap[a]
    /\ sysap' = [sysap EXCEPT ![a] = v]
    /\ echoes' = Append(echoes, [attr |-> a, val |-> v])
    /\ silent' = silent \ {a}
    /\ UNCHANGED <<storeVars, debounceVars, puts, reconVars, old, stage, commands, faults,
                   gets, resyncs, sendHistory, staleRead, givenUp>>

\* The SysAP sets a value and reports it (one it has already need not be).
Report(a, v) ==
    /\ sysap' = [sysap EXCEPT ![a] = v]
    /\ \/ /\ echoes' = Append(echoes, [attr |-> a, val |-> v])
          /\ silent' = silent \ {a}
       \/ sysap[a] = v /\ UNCHANGED <<echoes, silent>>

\* The SysAP executes a PUT.  The answer changes nothing here, so the task ends
\* with it.  The SysAP may set the value silently, answer OK and do nothing, or
\* its answer is lost and the PUT is sent again.
Execute(i) ==
    LET a == puts[i].attr
        v == puts[i].val
    IN  /\ i \in DOMAIN puts
        /\ reordered' = IF \E j \in 1..(i - 1) : puts[j].attr = a
                        THEN reordered \cup {a} ELSE reordered
        /\ \/ /\ Report(a, v)
              /\ puts' = RemoveAt(puts, i)
              /\ UNCHANGED <<faults, faulted>>
           \/ /\ Fault("silent")
              /\ sysap' = [sysap EXCEPT ![a] = v]
              /\ silent' = silent \cup {a}
              /\ puts' = RemoveAt(puts, i)
              /\ UNCHANGED <<echoes, faulted>>
           \/ /\ Fault("ignored")
              /\ faulted' = faulted \cup {a}
              /\ puts' = RemoveAt(puts, i)
              /\ UNCHANGED <<sysapVars, silent>>
           \/ /\ Fault("repeated")
              /\ Report(a, v)
              /\ faulted' = faulted \cup {a}
              /\ UNCHANGED puts
        /\ UNCHANGED <<storeVars, debounceVars, reconVars, old, stage, commands, foreign,
                       gets, resyncs, commanded, sent, cut, staleRead, givenUp>>

----------------------------------------------------------------------------
(* A PUT that fails.                                                       *)

\* Nothing is left to clear the mark of a, unless its timer is still armed.
GiveUp(a) == givenUp' = givenUp \cup ({a} \ timers')

\* reconcile_now: a read, unless the budget is used up.  The one of a replaced
\* dispatcher reads into the replaced store.
Reconcile(a) ==
    IF cooling
    THEN /\ GiveUp(a)
         /\ UNCHANGED <<cooling, reads>>
    ELSE /\ cooling' = TRUE
         /\ reads' = Append(reads, [attr |-> a, val |-> None, rest |-> {}])
         /\ UNCHANGED givenUp

\* A SysApError: the attribute is reconciled at once.
Refused(i) ==
    /\ i \in DOMAIN puts
    /\ Fault("refused")
    /\ puts' = RemoveAt(puts, i)
    /\ faulted' = faulted \cup {puts[i].attr}
    /\ UNCHANGED timers
    /\ IF puts[i].current THEN Reconcile(puts[i].attr) ELSE UNCHANGED <<cooling, reads, givenUp>>
    /\ UNCHANGED <<sysapVars, storeVars, debounceVars, old, stage, commands, foreign, gets,
                   resyncs, commanded, sent, reordered, cut, truthHistory>>

\* The last attempt ends in a connection error, which is no SysApError: the
\* task dies (after an execution it would have ended anyway).
Broken(i) ==
    /\ i \in DOMAIN puts
    /\ Fault("broken")
    /\ puts' = RemoveAt(puts, i)
    /\ faulted' = faulted \cup {puts[i].attr}
    /\ UNCHANGED <<sysapVars, storeVars, debounceVars, reconVars, old, stage, commands,
                   foreign, gets, resyncs, commanded, sent, reordered, cut, truthHistory,
                   givenUp>>

----------------------------------------------------------------------------
(* Echoes, timers and reads.                                               *)

\* Slip: a guess is trusted over the frame that clears its mark.
ApplyTrustingGuess(a, v) ==
    /\ values' = IF a \in unconfirmed THEN values ELSE [values EXCEPT ![a] = v]
    /\ unconfirmed' = unconfirmed \ {a}

\* StateStore.apply: the mark is cleared whatever the value.
Apply(a, v) ==
    /\ values' = [values EXCEPT ![a] = v]
    /\ unconfirmed' = unconfirmed \ {a}

\* The ingress takes the next frame.
TakeEcho ==
    /\ Alive
    /\ echoes # <<>>
    /\ echoes' = Tail(echoes)
    /\ Apply(Head(echoes).attr, Head(echoes).val)
    /\ UNCHANGED <<sysap, debounceVars, puts, reconVars, old, stage, bounds, history>>

\* _wait_then_reconcile after its sleep.
TimerFires(a) ==
    /\ Alive
    /\ a \in timers
    /\ timers' = timers \ {a}
    /\ IF a \in unconfirmed THEN Reconcile(a) ELSE UNCHANGED <<cooling, reads, givenUp>>
    /\ UNCHANGED <<sysapVars, storeVars, debounceVars, puts, old, stage, bounds,
                   sendHistory, truthHistory>>

\* RateLimiter: the interval since the last read is over.
CoolDown ==
    /\ cooling
    /\ cooling' = FALSE
    /\ UNCHANGED <<sysapVars, storeVars, debounceVars, puts, timers, reads, old, stage, bounds,
                   history>>

\* /get of one attribute or of all: one budget, the reads one after the other.
Get(targets) ==
    /\ stage = "running"
    /\ gets < MaxGets
    /\ gets' = gets + 1
    /\ ~cooling
    /\ cooling' = TRUE
    /\ \E a \in targets :
          /\ \A b \in targets : a <= b
          /\ reads' = Append(reads, [attr |-> a, val |-> None, rest |-> targets \ {a}])
    /\ UNCHANGED <<sysapVars, storeVars, debounceVars, puts, timers, old, stage, commands,
                   foreign, faults, resyncs, history>>

\* The SysAP answers a read.
AnswerRead(i) ==
    /\ i \in DOMAIN reads
    /\ reads[i].val = None
    /\ reads' = [reads EXCEPT ![i].val = sysap[reads[i].attr]]
    /\ UNCHANGED <<sysapVars, storeVars, debounceVars, puts, timers, cooling, old, stage,
                   bounds, history>>

\* Read i is over; its /get goes on with the next attribute.
NextRead(i) ==
    IF reads[i].rest = {} THEN reads' = RemoveAt(reads, i)
    ELSE \E a \in reads[i].rest :
            /\ \A b \in reads[i].rest : a <= b
            /\ reads' = [reads EXCEPT ![i] =
                   [attr |-> a, val |-> None, rest |-> reads[i].rest \ {a}]]

EchoComing(a) == \E k \in DOMAIN echoes : echoes[k].attr = a

\* read_one on the answer.
ApplyRead(i) ==
    LET a == reads[i].attr
        v == reads[i].val
    IN  /\ i \in DOMAIN reads
        /\ v # None
        /\ Apply(a, v)
        /\ NextRead(i)
        /\ silent' = IF v = sysap[a] /\ ~EchoComing(a) THEN silent \ {a} ELSE silent
        /\ staleRead' = IF v # sysap[a] /\ ~EchoComing(a) THEN staleRead \cup {a}
                        ELSE staleRead
        /\ UNCHANGED <<sysapVars, debounceVars, puts, timers, cooling, old, stage, bounds,
                       sendHistory, givenUp>>

\* read_one on a SysApError: the mark stays.
ReadFails(i) ==
    /\ i \in DOMAIN reads
    /\ Fault("unread")
    /\ NextRead(i)
    /\ UNCHANGED timers
    /\ GiveUp(reads[i].attr)
    /\ UNCHANGED <<sysapVars, storeVars, debounceVars, puts, cooling, old, stage,
                   commands, foreign, gets, resyncs, sendHistory, truthHistory>>

----------------------------------------------------------------------------
(* A resync.                                                               *)

\* _rebuild_dependents with a store seeded from the SysAP: new dispatcher,
\* reconciler and limiter (none begins while the bridge stops: a bound of the
\* model).  What the old ones have under way goes on: PUTs and
\* open windows reach the SysAP, reads and timers only the old store.
Resync ==
    /\ stage = "running"
    /\ resyncs < MaxResyncs
    /\ resyncs' = resyncs + 1
    /\ values' = sysap
    /\ unconfirmed' = {}
    /\ old' = [a \in Attrs |-> IF a \in window /\ pending[a] # lastSent[a]
                               THEN pending[a] ELSE old[a]]
    /\ cut' = cut \cup window
    /\ window' = {}
    /\ pending' = Nothing
    /\ lastSent' = Nothing
    /\ puts' = [i \in DOMAIN puts |-> [puts[i] EXCEPT !.current = FALSE]]
    /\ timers' = {}
    /\ cooling' = FALSE
    /\ reads' = <<>>
    /\ silent' = {a \in silent : EchoComing(a)}
    /\ UNCHANGED <<sysapVars, stage, commands, foreign, faults, gets, commanded, sent,
                   reordered, faulted, staleRead, givenUp>>

\* A window of the replaced dispatcher closes.
OldWindowCloses(a) ==
    /\ Alive
    /\ old[a] # None
    /\ old' = [old EXCEPT ![a] = None]
    /\ sent' = [sent EXCEPT ![a] = old[a]]
    /\ puts' = Append(puts, [attr |-> a, val |-> old[a], current |-> FALSE])
    /\ UNCHANGED <<sysapVars, storeVars, debounceVars, reconVars, stage, bounds, commanded,
                   reordered, faulted, cut, truthHistory, givenUp>>

----------------------------------------------------------------------------
ReadStep(i) == AnswerRead(i) \/ ApplyRead(i)

Next ==
    \/ \E a \in Attrs, v \in Values, o \in BOOLEAN : Set(a, v, o)
    \/ \E a \in Attrs, v \in Values : Foreign(a, v)
    \/ \E a \in Attrs : CloseWindow(a) \/ TimerFires(a) \/ OldWindowCloses(a)
    \/ \E i \in DOMAIN puts : Execute(i) \/ Refused(i) \/ Broken(i)
    \/ \E i \in DOMAIN reads : ReadStep(i) \/ ReadFails(i)
    \/ TakeEcho
    \/ CoolDown
    \/ Get(Attrs)
    \/ \E a \in Attrs : Get({a})
    \/ Resync
    \/ Stop
    \/ Close

\* Timers fire, the SysAP answers and echoes arrive.
Fairness ==
    /\ \A a \in Attrs : WF_vars(CloseWindow(a)) /\ WF_vars(TimerFires(a))
    /\ \A a \in Attrs : WF_vars(OldWindowCloses(a))
    /\ WF_vars(\E i \in DOMAIN puts : Execute(i))
    /\ WF_vars(\E i \in DOMAIN reads : ReadStep(i))
    /\ WF_vars(TakeEcho)
    /\ WF_vars(CoolDown)
    /\ WF_vars(Close)

Spec == Init /\ [][Next]_vars /\ Fairness

----------------------------------------------------------------------------
(* Properties.                                                             *)

\* The store's value of a once the echoes on their way have arrived.
Coming(a) ==
    LET mine == {k \in DOMAIN echoes : echoes[k].attr = a}
    IN  IF mine = {} THEN values[a] ELSE echoes[CHOOSE k \in mine : \A j \in mine : j <= k].val

\* A value without a mark is the truth: whatever guesses, echoes, reads and
\* resyncs do to each other, an unmarked value (with the echoes on their way)
\* is the SysAP's, but for a change that was not echoed and for a read that was
\* answered before and applied after an echo.
UnmarkedIsTrue ==
    Alive => \A a \in Attrs :
        a \in unconfirmed \cup silent \cup staleRead \/ Coming(a) = sysap[a]

\* A guess is never left alone: what is marked has an armed timer or a read
\* under way, or the reconciler's one read was skipped or failed.
GuessIsWatched ==
    Alive => \A a \in unconfirmed \cap Confirmed :
        a \in timers \cup givenUp \/ \E i \in DOMAIN reads : reads[i].attr = a

\* The last value of a burst is sent, or its window still holds it; the
\* shutdown flush leaves no window behind.
FinalValueSent ==
    \A a \in Attrs \ cut :
        \/ commanded[a] = sent[a]
        \/ a \in window /\ pending[a] = commanded[a] /\ stage = "running"

\* With everything sent and answered the SysAP has the value commanded last,
\* unless the SysAP did not execute a PUT exactly once, a PUT overtook an older
\* one or a resync cut a window off.
Obeyed ==
    stage # "closed" /\ puts = <<>> /\ window = {} /\ foreign = 0 =>
        \A a \in Attrs \ (cut \cup faulted \cup reordered) :
            commanded[a] \in {None, sysap[a]}

\* Every guess is confirmed or corrected in the end, unless its one read was
\* skipped or failed.
GuessesResolve ==
    \A a \in Confirmed : <>[](stage = "closed" \/ a \notin unconfirmed \/ a \in givenUp)
====
