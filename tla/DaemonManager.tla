---------------------------- MODULE DaemonManager ----------------------------
(***************************************************************************)
(* The life of seaf-daemon: the DaemonManager that starts it, watches it   *)
(* and starts it again, the QProcess whose signals reach it through the    *)
(* event loop, and the listeners that depend on it, the SeafileApplet with *)
(* its rpc client and the MessagePoller with its own.                      *)
(*                                                                         *)
(* Dialogs run event loops of their own, so that everything else goes on   *)
(* while the login dialog or the box of errorAndExit is open.              *)
(***************************************************************************)
EXTENDS Naturals

CONSTANTS
    MaxReadyChecks, \* kMaxDaemonReadyCheck
    MaxRestarts     \* kDaemonRestartMaxRetries

ASSUME LimitsAssumption ==
    MaxReadyChecks \in Nat /\ MaxRestarts \in Nat /\ MaxRestarts >= 2

VARIABLES
    state,      \* current_state_
    firstStart, \* first_start_
    retried,    \* restart_retried_
    maxcheck,   \* the static counter of checkDaemonReady
    connTimer,  \* conn_daemon_timer_ is active
    restarts,   \* number of single shot timers for restartSeafileDaemon
    proc,       \* the process of seaf_daemon_
    signals,    \* its signals still to be delivered, started before finished
    rpc,        \* rpc client of the SeafileApplet
    poller,     \* the MessagePoller
    ui,         \* how far SeafileApplet::onDaemonStarted has come
    loop,       \* main event loop: running, ended, or all is destroyed
    inExit,     \* in_exit_: the client gave up and shows the error
    hist        \* history: launches before the first connection, daemonStarted()s

applet == <<rpc, poller, ui>>
vars == <<state, firstStart, retried, maxcheck, connTimer, restarts, proc, signals,
          rpc, poller, ui, loop, inExit, hist>>

States == {"init", "starting", "connecting", "connected", "dead", "exiting"}
\* A client is stale when the daemon it was connected to is dead.
Clients == {"none", "connected", "stale"}

TypeOK ==
    /\ state \in States
    /\ firstStart \in BOOLEAN
    /\ retried \in 0..MaxRestarts
    /\ maxcheck \in 0..MaxReadyChecks + 1
    /\ connTimer \in BOOLEAN
    /\ restarts \in Nat
    /\ proc \in {"none", "launching", "up", "ready", "dead", "failed"}
    /\ signals \subseteq {"started", "finished"}
    /\ rpc \in Clients
    /\ poller \in [started : BOOLEAN, active : BOOLEAN, client : Clients]
    /\ ui \in {"off", "dialog", "on"}
    /\ loop \in {"running", "ended", "destroyed"}
    /\ inExit \in BOOLEAN
    /\ hist \in [silent : Nat, starts : Nat]

\* SeafileApplet::start has just called startSeafileDaemon.
Init ==
    /\ state = "starting"
    /\ firstStart = TRUE
    /\ retried = 0
    /\ maxcheck = 0
    /\ connTimer = FALSE
    /\ restarts = 0
    /\ proc = "launching"
    /\ signals = {}
    /\ rpc = "none"
    /\ poller = [started |-> FALSE, active |-> FALSE, client |-> "none"]
    /\ ui = "off"
    /\ loop = "running"
    /\ inExit = FALSE
    /\ hist = [silent |-> 1, starts |-> 0]

-----------------------------------------------------------------------------
(* The daemon process.                                                     *)

manager == <<state, firstStart, retried, maxcheck, connTimer, restarts, loop, inExit, hist>>

ProcessStarts ==
    /\ proc = "launching" /\ loop # "destroyed"
    /\ proc' = "up"
    /\ signals' = signals \cup {"started"}
    /\ UNCHANGED <<manager, applet>>

\* QProcess reports this by errorOccurred(), which nobody listens to.
ProcessFailsToStart ==
    /\ proc = "launching" /\ loop # "destroyed"
    /\ proc' = "failed"
    /\ UNCHANGED <<manager, signals, applet>>

RpcGetsReady ==
    /\ proc = "up"
    /\ proc' = "ready"
    /\ UNCHANGED <<manager, signals, applet>>

Stale(client) == IF client = "connected" THEN "stale" ELSE client

ProcessDies ==
    /\ proc \in {"up", "ready"}
    /\ proc' = "dead"
    /\ signals' = signals \cup {"finished"}
    /\ rpc' = Stale(rpc)
    /\ poller' = [poller EXCEPT !.client = Stale(poller.client)]
    /\ UNCHANGED <<manager, ui>>

-----------------------------------------------------------------------------
(* The DaemonManager.                                                      *)

\* SeafileRpcClient::isConnected, which is never taken back.
IsConnected == rpc # "none"

\* scheduleRestartDaemon
\* Mutant: once the client is connected it retries once more than it should.
MaxRetryOneMore == IF IsConnected THEN MaxRestarts + 1 ELSE 2

MaxRetry == IF IsConnected THEN MaxRestarts ELSE 2

ScheduleRestartDaemon ==
    /\ retried' = retried + 1
    /\ IF retried + 1 >= MaxRetry
       THEN inExit' = TRUE /\ UNCHANGED restarts
       ELSE restarts' = restarts + 1 /\ UNCHANGED inExit

\* restartSeafileDaemon and startSeafileDaemon
RestartSeafileDaemon ==
    /\ restarts > 0 /\ loop = "running"
    /\ restarts' = restarts - 1
    /\ IF state = "exiting"
       THEN UNCHANGED <<state, proc, hist>>
       ELSE /\ state' = "starting"
            /\ proc' = "launching"
            /\ hist' = [hist EXCEPT !.silent = hist.silent + IF firstStart THEN 1 ELSE 0]
    /\ UNCHANGED <<firstStart, retried, maxcheck, connTimer, signals, applet, loop, inExit>>

OnDaemonStarted ==
    /\ "started" \in signals /\ loop = "running"
    /\ signals' = signals \ {"started"}
    /\ connTimer' = TRUE
    /\ state' = "connecting"
    /\ UNCHANGED <<firstStart, retried, maxcheck, restarts, proc, applet, loop, inExit, hist>>

\* onDaemonFinished in the state connecting.
\* Mutants: both cases of onDaemonFinished are taken, and
\* nothing is scheduled.
FinishedWhileConnectingTwice ==
    /\ connTimer' = FALSE
    /\ retried' = retried + 1
    /\ restarts' = restarts + 2
    /\ UNCHANGED inExit

FinishedWhileConnectingForGood ==
    /\ connTimer' = FALSE
    /\ UNCHANGED <<retried, restarts, inExit>>

FinishedWhileConnecting ==
    /\ connTimer' = FALSE
    /\ ScheduleRestartDaemon

\* daemonDead() pauses the MessagePoller.
OnDaemonFinished ==
    /\ signals = {"finished"} /\ loop = "running"
    /\ signals' = {}
    /\ \/ /\ state = "connecting"
          /\ FinishedWhileConnecting
          /\ UNCHANGED <<state, poller>>
       \/ /\ state \notin {"connecting", "exiting"}
          /\ state' = "dead"
          /\ poller' = [poller EXCEPT !.active = FALSE]
          /\ ScheduleRestartDaemon
          /\ UNCHANGED connTimer
    /\ UNCHANGED <<firstStart, maxcheck, proc, rpc, ui, loop, hist>>

-----------------------------------------------------------------------------
(* What checkDaemonReady and the listeners of its signals do.              *)

\* MessagePoller::start
StartPoller(client) == poller' = [started |-> TRUE, active |-> TRUE, client |-> client]

\* Mutant: the MessagePoller keeps its client.
RenewPollerKept(client) == UNCHANGED poller

\* MessagePoller::onDaemonRestarted, which is connected by its start().
RenewPoller(client) ==
    IF poller.started THEN StartPoller(client) ELSE UNCHANGED poller

\* SeafileApplet::onDaemonStarted, up to the login dialog or, without one, to
\* its end.
AppletOnDaemonStarted(client, dialog) ==
    /\ rpc' = client
    /\ IF dialog THEN ui' = "dialog" /\ UNCHANGED poller
                 ELSE ui' = "on" /\ StartPoller(client)

\* SeafileApplet::onDaemonRestarted
AppletOnDaemonRestarted(client) ==
    /\ rpc' = client
    /\ RenewPoller(client)
    /\ UNCHANGED ui

\* Mutant: first_start_ is reset when daemonStarted() has been handled.
FirstStartAfterLate(dialog) == dialog

FirstStartAfter(dialog) == FALSE

\* checkDaemonReady finds the daemon ready.
DaemonIsReady(dialog) ==
    /\ connTimer /\ loop = "running" /\ proc = "ready"
    /\ connTimer' = FALSE
    /\ state' = "connected"
    /\ retried' = 0
    /\ IF firstStart
       THEN /\ firstStart' = FirstStartAfter(dialog)
            /\ AppletOnDaemonStarted("connected", dialog)
            /\ hist' = [hist EXCEPT !.starts = hist.starts + 1]
       ELSE /\ AppletOnDaemonRestarted("connected")
            /\ UNCHANGED <<firstStart, hist>>
    /\ UNCHANGED <<maxcheck, restarts, proc, signals, loop, inExit>>

\* The same, and the daemon dies before a client has connected to it, which the
\* SeafileApplet takes for an error at the first start only.
DaemonIsReadyAndDies(dialog) ==
    /\ connTimer /\ loop = "running" /\ proc = "ready"
    /\ connTimer' = FALSE
    /\ state' = "connected"
    /\ retried' = 0
    /\ proc' = "dead"
    /\ signals' = signals \cup {"finished"}
    /\ IF firstStart
       THEN /\ firstStart' = FirstStartAfter(dialog)
            /\ AppletOnDaemonStarted("none", dialog)
            /\ inExit' = TRUE
            /\ hist' = [hist EXCEPT !.starts = hist.starts + 1]
       ELSE /\ AppletOnDaemonRestarted("none")
            /\ UNCHANGED <<firstStart, inExit, hist>>
    /\ UNCHANGED <<maxcheck, restarts, loop>>

\* checkDaemonReady does not: the timer goes on when the client gives up.
DaemonIsNotReady ==
    /\ connTimer /\ loop = "running" /\ proc # "ready"
    /\ maxcheck <= MaxReadyChecks
    /\ maxcheck' = maxcheck + 1
    /\ inExit' = (inExit \/ maxcheck + 1 > MaxReadyChecks)
    /\ UNCHANGED <<state, firstStart, retried, connTimer, restarts, proc, signals, applet,
                   loop, hist>>

\* The login dialog is closed and SeafileApplet::onDaemonStarted goes on.
CloseLoginDialog ==
    /\ ui = "dialog" /\ loop = "running"
    /\ ui' = "on"
    /\ StartPoller(IF proc = "ready" THEN "connected" ELSE "none")
    /\ UNCHANGED <<manager, proc, signals, rpc>>

\* The user quits, or closes the box of errorAndExit: systemShutDown.
Quit ==
    /\ loop = "running"
    /\ loop' = "ended"
    /\ state' = "exiting"
    /\ UNCHANGED <<firstStart, retried, maxcheck, connTimer, restarts, proc, signals, applet,
                   inExit, hist>>

\* ~DaemonManager: stopDaemon kills the daemon and waits a moment for it, which
\* may deliver its signals.  A started() among them leads out of the exiting
\* state, and the finished() after it then counts as a crash.
StopDaemon ==
    /\ loop = "ended"
    /\ loop' = "destroyed"
    /\ proc' = IF proc = "failed" THEN proc ELSE "dead"
    /\ signals' = {}
    /\ \/ connTimer' = FALSE /\ UNCHANGED <<state, retried, restarts, inExit>>
       \/ /\ proc = "launching" \/ "started" \in signals
          /\ state' = "connecting"
          /\ FinishedWhileConnecting
    /\ rpc' = Stale(rpc)
    /\ poller' = [poller EXCEPT !.active = FALSE, !.client = Stale(poller.client)]
    /\ UNCHANGED <<firstStart, maxcheck, ui, hist>>

-----------------------------------------------------------------------------
Next ==
    \/ ProcessStarts \/ ProcessFailsToStart \/ RpcGetsReady \/ ProcessDies
    \/ RestartSeafileDaemon \/ OnDaemonStarted \/ OnDaemonFinished
    \/ \E dialog \in BOOLEAN : DaemonIsReady(dialog) \/ DaemonIsReadyAndDies(dialog)
    \/ DaemonIsNotReady
    \/ CloseLoginDialog \/ Quit \/ StopDaemon

Spec == Init /\ [][Next]_vars

\* The event loop delivers signals and runs timers, and the system starts the
\* process or fails to.  Nothing makes the daemon ready, dead or alive.
Fairness ==
    /\ WF_vars(ProcessStarts \/ ProcessFailsToStart)
    /\ WF_vars(OnDaemonStarted \/ OnDaemonFinished)
    /\ WF_vars(RestartSeafileDaemon)
    /\ WF_vars(\/ \E dialog \in BOOLEAN : DaemonIsReady(dialog) \/ DaemonIsReadyAndDies(dialog)
               \/ DaemonIsNotReady)

FairSpec == Spec /\ Fairness

-----------------------------------------------------------------------------
(* Properties.                                                             *)

Alive == proc \in {"launching", "up", "ready"} \/ signals # {}

\* There is one daemon at most: while one is being started, runs, or has ended
\* without the manager knowing, no timer is set that would start another, and
\* there are never two such timers.
OneDaemon == restarts <= 1 /\ (Alive => restarts = 0)

\* The daemon is polled for its rpc service only while it runs as far as the
\* manager knows: the timer never counts checks of a daemon that is known dead.
ChecksHaveDaemon == connTimer => state \in {"connecting", "exiting"} /\ Alive

\* Before the first connection, when nothing is shown to the user, the daemon
\* is started again only once before the client gives up.
FewSilentRetries == hist.silent <= 2

\* The client is started by daemonStarted() once, although the daemon may die
\* and come back while the login dialog is still open.
StartsOnce == hist.starts <= 1

\* Whenever the manager is connected to a daemon that is alive, so is the rpc
\* client of the applet, and the message poller once it was started: a restart
\* is heard by all, at whatever point of the start it happens.
RestartIsHeard ==
    state = "connected" /\ proc = "ready" =>
        /\ rpc = "connected"
        /\ poller.started => poller.active /\ poller.client = "connected"

\* The client gets connected to its daemon or tells the user that it gives up,
\* unless the program of the daemon could not be started at all.
ConnectsOrGivesUp ==
    state # "connected" ~> \/ state = "connected" \/ inExit
                           \/ loop # "running" \/ proc = "failed"
=============================================================================
