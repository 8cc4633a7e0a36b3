---- MODULE SysapLink ----
(***************************************************************************)
(* How the bridge gets, keeps and gives up its link to the SysAP:          *)
(*   sysap/ws.py          WsReader: probe, run, back off, watchdog, stop   *)
(*   sysap/settings_probe.py  firmware gate and the jid of a user          *)
(*   supervisor.py        _startup up to the cold start, dry_run,          *)
(*                        _resolve_sysap_credentials, restart_on_failure,  *)
(*                        _fetch_configuration_with_retry, shutdown        *)
(* Two tasks, main and the reader, against a SysAP that may be down, refuse *)
(* a user, drop a connection or let it die without a word.  What the frames *)
(* carry is Resync's matter: here they only fill the reader's buffer.      *)
(***************************************************************************)
EXTENDS Naturals

CONSTANTS
    BufferLimit,  \* WsReader._buffer_limit
    Threshold,    \* _ESCALATION_THRESHOLD
    MaxDelay,     \* the attempt from which on backoff_cap limits the delay
    MaxOutages,   \* bound on outages and lost connections
    MaxVerdicts   \* bound on changes of what the SysAP answers a user

ASSUME BoundsAssumption ==
    /\ {BufferLimit, Threshold, MaxDelay} \subseteq Nat \ {0}
    /\ {MaxOutages, MaxVerdicts} \subseteq Nat

Users == {"name", "jid"}
Verdicts == {"ok", "401", "403"}
Tasks == {"main", "reader"}

VARIABLES
    dry,       \* --dry-run
    supported, \* the SysAP's firmware passes check_version_supported
    hasJid,    \* settings.json lists the configured user
    up,        \* the SysAP answers
    verdict,   \* what it answers to each user name
    phase,     \* of main
    cause,     \* why the bridge died
    user,      \* user name of rest and ws
    reader,    \* where WsReader.run is
    conn,      \* its connection: "none", "live", "silent", "closed"
    connected, \* WsReader.reconnect_count >= 1
    attempt,   \* WsReader.backoff_attempt
    buffering, buffered,  \* WsReader._buffering, len(_buffer)
    streak,    \* restart_on_failure's attempt, of the reader
    asked,     \* _shutdown_event
    stopping,  \* WsReader._stopping
    session,   \* the HTTP session is open
    outages, changes,
    refused,   \* history: how often each user name was refused to each task
    blind,     \* history: a probe found the SysAP down
    rapid      \* history: failures of the reader in a row, each soon after its start

sysap   == <<up, verdict>>
ws      == <<reader, conn, connected, attempt, buffering, buffered, stopping>>
given   == <<dry, supported, hasJid>>
bounds  == <<outages, changes>>
history == <<refused, blind, rapid>>
vars == <<given, sysap, phase, cause, user, ws, streak, asked, session, bounds, history>>

Capped(n, limit) == IF n < limit THEN n ELSE limit

Init ==
    /\ dry \in BOOLEAN /\ supported \in BOOLEAN /\ hasJid \in BOOLEAN
    /\ up \in BOOLEAN /\ verdict \in [Users -> Verdicts]
    /\ phase = "settings" /\ cause = "none"
    /\ user = "name"
    /\ reader = "none" /\ conn = "none" /\ connected = FALSE /\ attempt = 0
    /\ buffering = FALSE /\ buffered = 0
    /\ streak = 0
    /\ asked = FALSE /\ stopping = FALSE /\ session = TRUE
    /\ outages = 0 /\ changes = 0
    /\ refused = [t \in Tasks |-> [u \in Users |-> 0]]
    /\ blind = FALSE /\ rapid = 0

\* An exception that leaves the task group, or main: every other task is
\* cancelled with it.
Die(why) ==
    /\ phase' = "dead"
    /\ cause' = why

Alive == phase \notin {"dead", "ended"}
Continue(p) == phase' = p /\ UNCHANGED cause
Refuse(t) == refused' = [refused EXCEPT ![t][user] = Capped(@ + 1, 2)]

----------------------------------------------------------------------------
(* Startup.                                                                *)

\* fetch_settings has no retry: a SysAP that does not answer ends the process.
Settings ==
    /\ phase = "settings"
    /\ \/ up /\ supported /\ Continue(IF dry THEN "fetch" ELSE "probe")
       \/ up /\ ~supported /\ Die("firmware")
       \/ ~up /\ Die("unreachable")
    /\ UNCHANGED <<given, sysap, user, ws, streak, asked, session, bounds, history>>

\* start_buffering and the supervised reader, once a probe has not been refused.
Spawn ==
    /\ Continue("wait")
    /\ reader' = "connecting"
    /\ buffering' = TRUE /\ buffered' = 0

Untouched == UNCHANGED <<conn, connected, attempt, stopping>>

Accepted ==
    /\ phase \in {"probe", "probe jid"}
    /\ up /\ verdict[user] = "ok"
    /\ Spawn
    /\ Untouched
    /\ UNCHANGED <<given, sysap, user, streak, asked, session, bounds, history>>

\* connect_once leaves every failure but a refusal to run.
Unanswered ==
    /\ phase \in {"probe", "probe jid"}
    /\ ~up
    /\ Spawn
    /\ blind' = TRUE
    /\ Untouched
    /\ UNCHANGED <<given, sysap, user, streak, asked, session, bounds, refused, rapid>>

\* Slip: a refused name ends the bridge at once.
RefusedForGood ==
    /\ phase \in {"probe", "probe jid"}
    /\ up /\ verdict[user] # "ok"
    /\ Refuse("main")
    /\ Die("refused") /\ UNCHANGED user
    /\ UNCHANGED <<given, sysap, ws, streak, asked, session, bounds, blind, rapid>>

\* A refused name is followed by its jid, once.
Refused ==
    /\ phase \in {"probe", "probe jid"}
    /\ up /\ verdict[user] # "ok"
    /\ Refuse("main")
    /\ IF phase = "probe" /\ hasJid
       THEN Continue("probe jid") /\ user' = "jid"
       ELSE Die("refused") /\ UNCHANGED user
    /\ UNCHANGED <<given, sysap, ws, streak, asked, session, bounds, blind, rapid>>

WaitedForReader ==
    /\ phase = "wait"
    /\ connected
    /\ Continue("fetch")
    /\ UNCHANGED <<given, sysap, user, ws, streak, asked, session, bounds, history>>

\* _fetch_configuration_with_retry waits out whatever is not a refusal.
Fetched ==
    /\ phase = "fetch"
    /\ up /\ verdict[user] = "ok"
    /\ Continue(IF dry THEN "ended" ELSE "running")
    /\ buffering' = FALSE /\ buffered' = 0
    /\ UNCHANGED <<given, sysap, user, reader, streak, asked, session, bounds, history>>
    /\ Untouched

\* dry_run has its own second attempt, for a 401 alone.
FetchRefused ==
    /\ phase = "fetch"
    /\ up /\ verdict[user] # "ok"
    /\ Refuse("main")
    /\ IF dry /\ user = "name" /\ hasJid /\ verdict[user] = "401"
       THEN user' = "jid" /\ UNCHANGED <<phase, cause>>
       ELSE Die("refused") /\ UNCHANGED user
    /\ UNCHANGED <<given, sysap, ws, streak, asked, session, bounds, blind, rapid>>

----------------------------------------------------------------------------
(* The reader: WsReader.run under restart_on_failure.                      *)

\* on_connected arms the buffering before the first frame; the delay starts
\* over with each connection.
Connect ==
    /\ reader = "connecting" /\ session
    /\ up /\ verdict[user] = "ok"
    /\ reader' = "receiving" /\ conn' = "live"
    /\ connected' = TRUE
    /\ attempt' = 0
    /\ buffering' = TRUE /\ buffered' = 0
    /\ UNCHANGED <<given, sysap, phase, cause, user, streak, asked, stopping, session, bounds, history>>

\* Slip: restart_on_failure takes a refusal for a crash.
RestartRefused ==
    /\ reader = "connecting" /\ session
    /\ up /\ verdict[user] # "ok"
    /\ Refuse("reader")
    /\ reader' = "crashed"
    /\ UNCHANGED <<given, sysap, phase, cause, user, conn, connected, attempt, buffering, buffered,
                   stopping, streak, asked, session, bounds, blind, rapid>>

\* WsAuthenticationError leaves run and restart_on_failure.
ReaderRefused ==
    /\ reader = "connecting" /\ session
    /\ up /\ verdict[user] # "ok"
    /\ Refuse("reader")
    /\ Die("refused")
    /\ UNCHANGED <<given, sysap, user, ws, streak, asked, session, bounds, blind, rapid>>

\* The end of a connection, or of the attempt to make one.
Disconnected ==
    /\ conn' = "none"
    /\ IF stopping
       THEN reader' = "ended" /\ UNCHANGED attempt
       ELSE reader' = "backoff" /\ attempt' = Capped(attempt + 1, MaxDelay)

OnlyLink == UNCHANGED <<given, sysap, phase, cause, user, connected, buffering, buffered,
                        stopping, streak, asked, session, bounds, history>>

ConnectFails ==
    /\ reader = "connecting"
    /\ ~up \/ ~session
    /\ Disconnected
    /\ OnlyLink

Closed ==
    /\ reader = "receiving" /\ conn = "closed"
    /\ Disconnected
    /\ OnlyLink

\* Slip: the watchdog's close is all that happens: the loop goes on receiving.
IdleIgnored ==
    /\ reader = "receiving" /\ conn \in {"live", "silent"}
    /\ UNCHANGED <<ws, attempt>>
    /\ OnlyLink

\* Nothing was received for idle_timeout.
Idle ==
    /\ reader = "receiving" /\ conn \in {"live", "silent"}
    /\ Disconnected
    /\ OnlyLink

BackoffOver ==
    /\ reader = "backoff"
    /\ reader' = IF stopping THEN "ended" ELSE "connecting"
    /\ UNCHANGED <<conn, attempt>>
    /\ OnlyLink

Buffer ==
    /\ reader = "receiving" /\ conn = "live"
    /\ buffering /\ buffered < BufferLimit
    /\ buffered' = buffered + 1
    /\ UNCHANGED <<given, sysap, phase, cause, user, reader, conn, connected, attempt, buffering,
                   stopping, streak, asked, session, bounds, history>>

\* The failures in a row that were quick.
Count(quick) == IF quick THEN streak + 1 ELSE 1

\* WsBufferOverflowError: restart_on_failure restarts the reader, or gives up.
\* Whether _RAPID_FAILURE_WINDOW_S has passed since its start is anyone's guess.
Overflow(quick) ==
    /\ reader = "receiving" /\ conn = "live"
    /\ buffering /\ buffered = BufferLimit
    /\ reader' = "crashed" /\ conn' = "none"
    /\ streak' = Count(quick)
    /\ rapid' = IF quick THEN Capped(rapid + 1, Threshold) ELSE 0
    /\ IF streak' >= Threshold THEN Die("restarts") ELSE UNCHANGED <<phase, cause>>
    /\ UNCHANGED <<given, sysap, user, connected, attempt, buffering, buffered, stopping, asked,
                   session, bounds, refused, blind>>

\* The factory is run again, whose loop sees _stopping first.
Restart ==
    /\ reader = "crashed"
    /\ attempt' = 0
    /\ reader' = IF stopping THEN "ended" ELSE "connecting"
    /\ UNCHANGED conn
    /\ OnlyLink

----------------------------------------------------------------------------
(* Shutdown, from WsReader.stop on, and the resync that a reconnect spawns.  *)

StopReader ==
    /\ phase = "running" /\ asked
    /\ Continue("closing")
    /\ stopping' = TRUE
    /\ conn' = IF conn = "none" THEN conn ELSE "closed"
    /\ UNCHANGED <<given, sysap, user, reader, connected, attempt, buffering, buffered, streak, asked,
                   session, bounds, history>>

\* Slip: a connection that came after WsReader.stop is left open.
CloseNothing ==
    /\ phase = "closing" /\ session
    /\ session' = FALSE
    /\ UNCHANGED <<given, sysap, phase, cause, user, ws, streak, asked, bounds, history>>

\* The session takes every connection with it, also one that was being made
\* while WsReader.stop looked for one to close.
CloseSession ==
    /\ phase = "closing" /\ session
    /\ session' = FALSE
    /\ conn' = IF conn = "none" THEN conn ELSE "closed"
    /\ UNCHANGED <<given, sysap, phase, cause, user, reader, connected, attempt, buffering, buffered,
                   stopping, streak, asked, bounds, history>>

Finish ==
    /\ phase = "closing" /\ ~session
    /\ reader = "ended"
    /\ Continue("ended")
    /\ UNCHANGED <<given, sysap, user, ws, streak, asked, session, bounds, history>>

Drain ==
    /\ phase = "running" /\ buffering
    /\ buffering' = FALSE /\ buffered' = 0
    /\ UNCHANGED <<given, sysap, phase, cause, user, reader, conn, connected, attempt, stopping, streak,
                   asked, session, bounds, history>>

Main ==
    \/ Settings \/ Accepted \/ Unanswered \/ Refused \/ WaitedForReader \/ Fetched \/ FetchRefused
    \/ StopReader \/ CloseSession \/ Finish

Reader ==
    Connect \/ ReaderRefused \/ ConnectFails \/ Closed \/ BackoffOver \/ Restart

Frame == Buffer \/ \E quick \in BOOLEAN : Overflow(quick)

----------------------------------------------------------------------------
(* The SysAP, the network and who asks for the stop.                       *)

Cut == conn' \in IF conn = "live" THEN {"closed", "silent"} ELSE {conn}

GoesDown ==
    /\ up /\ outages < MaxOutages
    /\ up' = FALSE
    /\ Cut
    /\ outages' = outages + 1
    /\ UNCHANGED <<given, verdict, phase, cause, user, reader, connected, attempt, buffering, buffered,
                   stopping, streak, asked, session, changes, history>>

ComesUp ==
    /\ ~up
    /\ up' = TRUE
    /\ UNCHANGED <<given, verdict, phase, cause, user, ws, streak, asked, session, bounds, history>>

LosesConnection ==
    /\ conn = "live" /\ outages < MaxOutages
    /\ Cut
    /\ outages' = outages + 1
    /\ UNCHANGED <<given, sysap, phase, cause, user, reader, connected, attempt, buffering, buffered,
                   stopping, streak, asked, session, changes, history>>

ChangesVerdict ==
    /\ changes < MaxVerdicts
    /\ \E u \in Users : \E v \in Verdicts \ {verdict[u]} : verdict' = [verdict EXCEPT ![u] = v]
    /\ changes' = changes + 1
    /\ UNCHANGED <<given, up, phase, cause, user, ws, streak, asked, session, outages, history>>

Ask ==
    /\ ~dry /\ ~asked
    /\ asked' = TRUE
    /\ UNCHANGED <<given, sysap, phase, cause, user, ws, streak, session, bounds, history>>

Environment == GoesDown \/ ComesUp \/ LosesConnection \/ ChangesVerdict \/ Ask

Next == Alive /\ (Main \/ Reader \/ Frame \/ Idle \/ Drain \/ Environment)

\* The tasks run, the SysAP comes back, idle_timeout passes on a silent
\* connection, and a reconnect's resync drains the buffer.  Nothing obliges the
\* SysAP to send a frame, to lose a connection or to change its mind.
Fairness ==
    /\ WF_vars(Alive /\ Main)
    /\ WF_vars(Alive /\ (Reader \/ (Idle /\ conn = "silent")))
    /\ WF_vars(Alive /\ ComesUp)
    /\ WF_vars(Alive /\ Drain)

Spec == Init /\ [][Next]_vars /\ Fairness

----------------------------------------------------------------------------
(* Properties.                                                             *)

\* No task offers the SysAP a user name that it has refused to that task
\* (docs/06 section 3: "Immediately. Do not retry."): repeated refusals trip
\* the SysAP's lockout.  _NEVER_RESTARTED_EXCEPTIONS, the one retry with the jid.
AskedOnce == \A t \in Tasks, u \in Users : refused[t][u] <= 1

\* What may end the bridge.  A refusal, if each name it has was refused, or the
\* SysAP was down when the names were probed, or has changed its mind since, or
\* gave dry_run a 403; a SysAP that does not answer, only before anything was
\* started; failures of the reader, only Threshold in a row, each but the first
\* soon after its start.
FatalIsDeserved ==
    /\ cause = "refused" =>
          \/ \A u \in Users : (u = "jid" => hasJid) => \E t \in Tasks : refused[t][u] > 0
          \/ blind \/ changes > 0
          \/ dry /\ verdict["name"] = "403"
    /\ cause = "unreachable" => reader = "none"
    /\ cause = "restarts" => rapid >= Threshold - 1

\* The reader never gives up: whatever the connection dies of, and however
\* silently, there is a live one again, or the bridge is at its end.
Reconnects == (phase = "running") ~> (conn = "live" \/ phase \in {"closing", "ended", "dead"})

\* Once the shutdown has come to the reader, the bridge ends: no connection
\* attempt, backoff, restart or half-dead connection keeps its task group open.
StopsInTheEnd == (phase = "closing") ~> ~Alive
====
