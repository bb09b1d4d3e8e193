------------------------- MODULE DaemonManagerProofs -------------------------
(***************************************************************************)
(* The safety properties of DaemonManager hold for any limits of the       *)
(* checks and of the restarts.                                             *)
(***************************************************************************)
EXTENDS DaemonManager, TLAPS

Busy == Alive \/ restarts > 0

\* The signals still to come agree with the process: a daemon that has ended
\* may have told the manager nothing yet, one being launched has not either.
SignalsInv ==
    /\ "started" \in signals => proc \in {"up", "ready", "dead"}
    /\ "finished" \in signals => proc = "dead"
    /\ proc = "dead" /\ "started" \in signals => "finished" \in signals

\* The manager is connected to the process it has found ready, exits only after
\* its event loop has ended, and checks a process that has been started.
StateInv ==
    /\ state = "connected" => proc \in {"ready", "dead"}
    /\ loop = "running" => state # "exiting"
    /\ connTimer => proc # "launching"

\* A daemon or a timer for one is left only below the limit of the restarts;
\* before the first connection each launch has used up one of them.
RetryInv ==
    /\ Busy => retried < MaxRetry
    /\ firstStart => rpc = "none"
    /\ firstStart /\ Alive => hist.silent <= retried + 1
    /\ firstStart /\ restarts > 0 => hist.silent <= retried
    /\ hist.starts = IF firstStart THEN 0 ELSE 1

\* The message poller is started by the handling of daemonStarted() only.
PollerInv == firstStart => ~poller.started /\ ui = "off"

IInv ==
    /\ TypeOK /\ SignalsInv /\ StateInv /\ RetryInv /\ PollerInv
    /\ OneDaemon /\ ChecksHaveDaemon /\ FewSilentRetries /\ RestartIsHeard

-----------------------------------------------------------------------------
LEMMA InitIInv == Init => IInv
<1> SUFFICES ASSUME Init PROVE IInv
  OBVIOUS
<1> USE LimitsAssumption DEF Init
<1>1. TypeOK
  <2>1. poller \in [started : BOOLEAN, active : BOOLEAN, client : Clients]
    BY DEF Clients
  <2>2. hist \in [silent : Nat, starts : Nat]
    OBVIOUS
  <2>3. state \in States /\ rpc \in Clients
    BY DEF States, Clients
  <2>4. firstStart \in BOOLEAN /\ connTimer \in BOOLEAN /\ inExit \in BOOLEAN
    OBVIOUS
  <2> QED
    BY <2>1, <2>2, <2>3, <2>4 DEF TypeOK
<1>2. SignalsInv
  BY DEF SignalsInv
<1>3. StateInv
  BY DEF StateInv
<1>4. RetryInv
  BY DEF RetryInv, Busy, Alive, MaxRetry, IsConnected
<1>5. OneDaemon
  BY DEF OneDaemon, Alive
<1>6. ChecksHaveDaemon
  BY DEF ChecksHaveDaemon, Alive
<1>7. FewSilentRetries
  BY DEF FewSilentRetries
<1>8. RestartIsHeard
  BY DEF RestartIsHeard
<1>9. PollerInv
  BY DEF PollerInv
<1> QED
  BY <1>1, <1>2, <1>3, <1>4, <1>5, <1>6, <1>7, <1>8, <1>9 DEF IInv

LEMMA ProcessStartsKeeps ==
    ASSUME IInv, ProcessStarts
    PROVE  IInv'
<1> USE LimitsAssumption DEF IInv, ProcessStarts, manager, applet
<1>1. TypeOK'
  BY DEF TypeOK, States, Clients, OneDaemon, RetryInv, Busy, Alive, MaxRetry, IsConnected, StateInv
<1>2. SignalsInv'
  BY DEF SignalsInv, TypeOK
<1>3. StateInv'
  BY DEF StateInv, TypeOK, SignalsInv
<1>4. RetryInv'
  BY DEF RetryInv, Busy, Alive, MaxRetry, IsConnected, TypeOK, OneDaemon, SignalsInv, FewSilentRetries, ChecksHaveDaemon
<1>5. OneDaemon'
  BY DEF OneDaemon, Alive, TypeOK, SignalsInv, RetryInv, Busy
<1>6. ChecksHaveDaemon'
  BY DEF ChecksHaveDaemon, Alive, TypeOK, SignalsInv, OneDaemon, StateInv
<1>7. FewSilentRetries'
  BY DEF FewSilentRetries, TypeOK, RetryInv, Busy, Alive, MaxRetry, IsConnected, OneDaemon
<1>8. RestartIsHeard'
  BY DEF RestartIsHeard, TypeOK, States, Clients, StateInv, SignalsInv
<1>9. PollerInv'
  BY DEF PollerInv, TypeOK
<1> QED
  BY <1>1, <1>2, <1>3, <1>4, <1>5, <1>6, <1>7, <1>8, <1>9

LEMMA ProcessFailsToStartKeeps ==
    ASSUME IInv, ProcessFailsToStart
    PROVE  IInv'
<1> USE LimitsAssumption DEF IInv, ProcessFailsToStart, manager, applet
<1>1. TypeOK'
  BY DEF TypeOK, States, Clients, OneDaemon, RetryInv, Busy, Alive, MaxRetry, IsConnected, StateInv
<1>2. SignalsInv'
  BY DEF SignalsInv, TypeOK
<1>3. StateInv'
  BY DEF StateInv, TypeOK, SignalsInv
<1>4. RetryInv'
  BY DEF RetryInv, Busy, Alive, MaxRetry, IsConnected, TypeOK, OneDaemon, SignalsInv, FewSilentRetries, ChecksHaveDaemon
<1>5. OneDaemon'
  BY DEF OneDaemon, Alive, TypeOK, SignalsInv, RetryInv, Busy
<1>6. ChecksHaveDaemon'
  BY DEF ChecksHaveDaemon, Alive, TypeOK, SignalsInv, OneDaemon, StateInv
<1>7. FewSilentRetries'
  BY DEF FewSilentRetries, TypeOK, RetryInv, Busy, Alive, MaxRetry, IsConnected, OneDaemon
<1>8. RestartIsHeard'
  BY DEF RestartIsHeard, TypeOK, States, Clients, StateInv, SignalsInv
<1>9. PollerInv'
  BY DEF PollerInv, TypeOK
<1> QED
  BY <1>1, <1>2, <1>3, <1>4, <1>5, <1>6, <1>7, <1>8, <1>9

LEMMA RpcGetsReadyKeeps ==
    ASSUME IInv, RpcGetsReady
    PROVE  IInv'
<1> USE LimitsAssumption DEF IInv, RpcGetsReady, manager, applet
<1>1. TypeOK'
  BY DEF TypeOK, States, Clients, OneDaemon, RetryInv, Busy, Alive, MaxRetry, IsConnected, StateInv
<1>2. SignalsInv'
  BY DEF SignalsInv, TypeOK
<1>3. StateInv'
  BY DEF StateInv, TypeOK, SignalsInv
<1>4. RetryInv'
  BY DEF RetryInv, Busy, Alive, MaxRetry, IsConnected, TypeOK, OneDaemon, SignalsInv, FewSilentRetries, ChecksHaveDaemon
<1>5. OneDaemon'
  BY DEF OneDaemon, Alive, TypeOK, SignalsInv, RetryInv, Busy
<1>6. ChecksHaveDaemon'
  BY DEF ChecksHaveDaemon, Alive, TypeOK, SignalsInv, OneDaemon, StateInv
<1>7. FewSilentRetries'
  BY DEF FewSilentRetries, TypeOK, RetryInv, Busy, Alive, MaxRetry, IsConnected, OneDaemon
<1>8. RestartIsHeard'
  BY DEF RestartIsHeard, TypeOK, States, Clients, StateInv, SignalsInv
<1>9. PollerInv'
  BY DEF PollerInv, TypeOK
<1> QED
  BY <1>1, <1>2, <1>3, <1>4, <1>5, <1>6, <1>7, <1>8, <1>9

LEMMA ProcessDiesKeeps ==
    ASSUME IInv, ProcessDies
    PROVE  IInv'
<1> USE LimitsAssumption DEF IInv, ProcessDies, manager, applet, Stale
<1>1. TypeOK'
  BY DEF TypeOK, States, Clients, OneDaemon, RetryInv, Busy, Alive, MaxRetry, IsConnected, StateInv
<1>2. SignalsInv'
  BY DEF SignalsInv, TypeOK
<1>3. StateInv'
  BY DEF StateInv, TypeOK, SignalsInv
<1>4. RetryInv'
  BY DEF RetryInv, Busy, Alive, MaxRetry, IsConnected, TypeOK, OneDaemon, SignalsInv, FewSilentRetries, ChecksHaveDaemon
<1>5. OneDaemon'
  BY DEF OneDaemon, Alive, TypeOK, SignalsInv, RetryInv, Busy
<1>6. ChecksHaveDaemon'
  BY DEF ChecksHaveDaemon, Alive, TypeOK, SignalsInv, OneDaemon, StateInv
<1>7. FewSilentRetries'
  BY DEF FewSilentRetries, TypeOK, RetryInv, Busy, Alive, MaxRetry, IsConnected, OneDaemon
<1>8. RestartIsHeard'
  BY DEF RestartIsHeard, TypeOK, States, Clients, StateInv, SignalsInv
<1>9. PollerInv'
  BY DEF PollerInv, TypeOK
<1> QED
  BY <1>1, <1>2, <1>3, <1>4, <1>5, <1>6, <1>7, <1>8, <1>9

LEMMA RestartSeafileDaemonKeeps ==
    ASSUME IInv, RestartSeafileDaemon
    PROVE  IInv'
<1> USE LimitsAssumption DEF IInv, RestartSeafileDaemon, applet
<1>1. TypeOK'
  BY DEF TypeOK, States, Clients, OneDaemon, RetryInv, Busy, Alive, MaxRetry, IsConnected, StateInv
<1>2. SignalsInv'
  BY DEF SignalsInv, TypeOK, OneDaemon, Alive
<1>3. StateInv'
  BY DEF StateInv, TypeOK, SignalsInv, ChecksHaveDaemon, OneDaemon, Alive
<1>4. RetryInv'
  BY DEF RetryInv, Busy, Alive, MaxRetry, IsConnected, TypeOK, OneDaemon, SignalsInv, FewSilentRetries, ChecksHaveDaemon
<1>5. OneDaemon'
  BY DEF OneDaemon, Alive, TypeOK, SignalsInv, RetryInv, Busy
<1>6. ChecksHaveDaemon'
  BY DEF ChecksHaveDaemon, Alive, TypeOK, SignalsInv, OneDaemon, StateInv
<1>7. FewSilentRetries'
  BY DEF FewSilentRetries, TypeOK, RetryInv, Busy, Alive, MaxRetry, IsConnected, OneDaemon
<1>8. RestartIsHeard'
  BY DEF RestartIsHeard, TypeOK, States, Clients, StateInv, SignalsInv
<1>9. PollerInv'
  BY DEF PollerInv, TypeOK
<1> QED
  BY <1>1, <1>2, <1>3, <1>4, <1>5, <1>6, <1>7, <1>8, <1>9

LEMMA OnDaemonStartedKeeps ==
    ASSUME IInv, OnDaemonStarted
    PROVE  IInv'
<1> USE LimitsAssumption DEF IInv, OnDaemonStarted, applet
<1>1. TypeOK'
  BY DEF TypeOK, States, Clients, OneDaemon, RetryInv, Busy, Alive, MaxRetry, IsConnected, StateInv
<1>2. SignalsInv'
  BY DEF SignalsInv, TypeOK
<1>3. StateInv'
  BY DEF StateInv, TypeOK, SignalsInv
<1>4. RetryInv'
  BY DEF RetryInv, Busy, Alive, MaxRetry, IsConnected, TypeOK, OneDaemon, SignalsInv, FewSilentRetries, ChecksHaveDaemon
<1>5. OneDaemon'
  BY DEF OneDaemon, Alive, TypeOK, SignalsInv, RetryInv, Busy
<1>6. ChecksHaveDaemon'
  BY DEF ChecksHaveDaemon, Alive, TypeOK, SignalsInv, OneDaemon, StateInv
<1>7. FewSilentRetries'
  BY DEF FewSilentRetries, TypeOK, RetryInv, Busy, Alive, MaxRetry, IsConnected, OneDaemon
<1>8. RestartIsHeard'
  BY DEF RestartIsHeard, TypeOK, States, Clients, StateInv, SignalsInv
<1>9. PollerInv'
  BY DEF PollerInv, TypeOK
<1> QED
  BY <1>1, <1>2, <1>3, <1>4, <1>5, <1>6, <1>7, <1>8, <1>9

LEMMA OnDaemonFinishedKeeps ==
    ASSUME IInv, OnDaemonFinished
    PROVE  IInv'
<1> USE LimitsAssumption DEF IInv, OnDaemonFinished, FinishedWhileConnecting, ScheduleRestartDaemon
<1>1. TypeOK'
  <2>1. poller' \in [started : BOOLEAN, active : BOOLEAN, client : Clients]
    BY DEF TypeOK, States, Clients
  <2>2. retried' \in 0..MaxRestarts
    BY DEF TypeOK, RetryInv, Busy, Alive, MaxRetry, IsConnected
  <2>3. restarts' \in Nat
    BY DEF TypeOK, States, Clients
  <2>4. inExit' \in BOOLEAN /\ connTimer' \in BOOLEAN /\ firstStart' \in BOOLEAN
    BY DEF TypeOK, States, Clients
  <2>5. state' \in States /\ rpc' \in Clients
    BY DEF TypeOK, States, Clients
  <2>6. /\ proc' \in {"none", "launching", "up", "ready", "dead", "failed"}
        /\ signals' \subseteq {"started", "finished"}
        /\ hist' \in [silent : Nat, starts : Nat]
        /\ maxcheck' \in 0..MaxReadyChecks + 1 /\ ui' \in {"off", "dialog", "on"}
        /\ loop' \in {"running", "ended", "destroyed"}
    BY DEF TypeOK, States, Clients
  <2> QED
    BY <2>1, <2>2, <2>3, <2>4, <2>5, <2>6 DEF TypeOK
<1>2. SignalsInv'
  BY DEF SignalsInv, TypeOK
<1>3. StateInv'
  BY DEF StateInv, TypeOK, SignalsInv
<1>4. RetryInv'
  BY DEF RetryInv, Busy, Alive, MaxRetry, IsConnected, TypeOK, OneDaemon, SignalsInv, FewSilentRetries, ChecksHaveDaemon
<1>5. OneDaemon'
  BY DEF OneDaemon, Alive, TypeOK, SignalsInv, RetryInv, Busy
<1>6. ChecksHaveDaemon'
  BY DEF ChecksHaveDaemon, Alive, TypeOK, SignalsInv, OneDaemon, StateInv
<1>7. FewSilentRetries'
  BY DEF FewSilentRetries, TypeOK, RetryInv, Busy, Alive, MaxRetry, IsConnected, OneDaemon
<1>8. RestartIsHeard'
  BY DEF RestartIsHeard, TypeOK, States, Clients, StateInv, SignalsInv
<1>9. PollerInv'
  BY DEF PollerInv, TypeOK
<1> QED
  BY <1>1, <1>2, <1>3, <1>4, <1>5, <1>6, <1>7, <1>8, <1>9

LEMMA DaemonIsReadyKeeps ==
    ASSUME IInv, NEW dialog \in BOOLEAN, DaemonIsReady(dialog)
    PROVE  IInv'
<1> USE LimitsAssumption DEF IInv, DaemonIsReady, FirstStartAfter, AppletOnDaemonStarted, AppletOnDaemonRestarted, StartPoller, RenewPoller
<1>1. TypeOK'
  <2>1. poller' \in [started : BOOLEAN, active : BOOLEAN, client : Clients]
    <3>1. poller' = poller \/ poller' = [started |-> TRUE, active |-> TRUE, client |-> "connected"]
      OBVIOUS
    <3>2. poller \in [started : BOOLEAN, active : BOOLEAN, client : Clients]
      BY DEF TypeOK
    <3>3. [started |-> TRUE, active |-> TRUE, client |-> "connected"]
            \in [started : BOOLEAN, active : BOOLEAN, client : Clients]
      BY DEF Clients
    <3> QED
      BY <3>1, <3>2, <3>3
  <2>2. hist' \in [silent : Nat, starts : Nat]
    BY DEF TypeOK, States, Clients
  <2>3. state' \in States /\ rpc' \in Clients
    BY DEF TypeOK, States, Clients
  <2>4. firstStart' \in BOOLEAN /\ connTimer' \in BOOLEAN /\ inExit' \in BOOLEAN
    BY DEF TypeOK, States, Clients
  <2>5. retried' \in 0..MaxRestarts /\ maxcheck' \in 0..MaxReadyChecks + 1 /\ restarts' \in Nat
    BY DEF TypeOK, States, Clients
  <2>6. ui' \in {"off", "dialog", "on"} /\ loop' \in {"running", "ended", "destroyed"}
    BY DEF TypeOK, States, Clients
  <2>7. proc' \in {"none", "launching", "up", "ready", "dead", "failed"} /\ signals' \subseteq {"started", "finished"}
    BY DEF TypeOK, States, Clients
  <2> QED
    BY <2>1, <2>2, <2>3, <2>4, <2>5, <2>6, <2>7 DEF TypeOK
<1>2. SignalsInv'
  BY DEF SignalsInv, TypeOK
<1>3. StateInv'
  BY DEF StateInv, TypeOK, SignalsInv
<1>4. RetryInv'
  BY DEF RetryInv, Busy, Alive, MaxRetry, IsConnected, TypeOK, OneDaemon, SignalsInv, FewSilentRetries, ChecksHaveDaemon
<1>5. OneDaemon'
  BY DEF OneDaemon, Alive, TypeOK, SignalsInv, RetryInv, Busy
<1>6. ChecksHaveDaemon'
  BY DEF ChecksHaveDaemon, Alive, TypeOK, SignalsInv, OneDaemon, StateInv
<1>7. FewSilentRetries'
  BY DEF FewSilentRetries, TypeOK, RetryInv, Busy, Alive, MaxRetry, IsConnected, OneDaemon
<1>8. RestartIsHeard'
  <2>1. rpc' = "connected"
    BY DEF TypeOK
  <2>2. \/ poller' = [started |-> TRUE, active |-> TRUE, client |-> "connected"]
        \/ poller' = poller /\ (firstStart \/ ~poller.started)
    BY DEF TypeOK
  <2>3. firstStart => ~poller.started
    BY DEF TypeOK, PollerInv
  <2> QED
    BY <2>1, <2>2, <2>3 DEF RestartIsHeard
<1>9. PollerInv'
  BY DEF PollerInv, TypeOK
<1> QED
  BY <1>1, <1>2, <1>3, <1>4, <1>5, <1>6, <1>7, <1>8, <1>9

LEMMA DaemonIsReadyAndDiesKeeps ==
    ASSUME IInv, NEW dialog \in BOOLEAN, DaemonIsReadyAndDies(dialog)
    PROVE  IInv'
<1> USE LimitsAssumption DEF IInv, DaemonIsReadyAndDies, FirstStartAfter, AppletOnDaemonStarted, AppletOnDaemonRestarted, StartPoller, RenewPoller
<1>1. TypeOK'
  <2>1. poller' \in [started : BOOLEAN, active : BOOLEAN, client : Clients]
    <3>1. poller' = poller \/ poller' = [started |-> TRUE, active |-> TRUE, client |-> "none"]
      OBVIOUS
    <3>2. poller \in [started : BOOLEAN, active : BOOLEAN, client : Clients]
      BY DEF TypeOK
    <3>3. [started |-> TRUE, active |-> TRUE, client |-> "none"]
            \in [started : BOOLEAN, active : BOOLEAN, client : Clients]
      BY DEF Clients
    <3> QED
      BY <3>1, <3>2, <3>3
  <2>2. hist' \in [silent : Nat, starts : Nat]
    BY DEF TypeOK, States, Clients
  <2>3. state' \in States /\ rpc' \in Clients
    BY DEF TypeOK, States, Clients
  <2>4. firstStart' \in BOOLEAN /\ connTimer' \in BOOLEAN /\ inExit' \in BOOLEAN
    BY DEF TypeOK, States, Clients
  <2>5. retried' \in 0..MaxRestarts /\ maxcheck' \in 0..MaxReadyChecks + 1 /\ restarts' \in Nat
    BY DEF TypeOK, States, Clients
  <2>6. ui' \in {"off", "dialog", "on"} /\ loop' \in {"running", "ended", "destroyed"}
    BY DEF TypeOK, States, Clients
  <2>7. proc' \in {"none", "launching", "up", "ready", "dead", "failed"} /\ signals' \subseteq {"started", "finished"}
    BY DEF TypeOK, States, Clients
  <2> QED
    BY <2>1, <2>2, <2>3, <2>4, <2>5, <2>6, <2>7 DEF TypeOK
<1>2. SignalsInv'
  BY DEF SignalsInv, TypeOK
<1>3. StateInv'
  BY DEF StateInv, TypeOK, SignalsInv
<1>4. RetryInv'
  BY DEF RetryInv, Busy, Alive, MaxRetry, IsConnected, TypeOK, OneDaemon, SignalsInv, FewSilentRetries, ChecksHaveDaemon
<1>5. OneDaemon'
  BY DEF OneDaemon, Alive, TypeOK, SignalsInv, RetryInv, Busy
<1>6. ChecksHaveDaemon'
  BY DEF ChecksHaveDaemon, Alive, TypeOK, SignalsInv, OneDaemon, StateInv
<1>7. FewSilentRetries'
  BY DEF FewSilentRetries, TypeOK, RetryInv, Busy, Alive, MaxRetry, IsConnected, OneDaemon
<1>8. RestartIsHeard'
  BY DEF RestartIsHeard, TypeOK, States, Clients, StateInv, SignalsInv
<1>9. PollerInv'
  BY DEF PollerInv, TypeOK
<1> QED
  BY <1>1, <1>2, <1>3, <1>4, <1>5, <1>6, <1>7, <1>8, <1>9

LEMMA DaemonIsNotReadyKeeps ==
    ASSUME IInv, DaemonIsNotReady
    PROVE  IInv'
<1> USE LimitsAssumption DEF IInv, DaemonIsNotReady, applet
<1>1. TypeOK'
  <2>1. poller' \in [started : BOOLEAN, active : BOOLEAN, client : Clients]
    BY DEF TypeOK, States, Clients
  <2>2. hist' \in [silent : Nat, starts : Nat]
    BY DEF TypeOK, States, Clients
  <2>3. state' \in States /\ rpc' \in Clients
    BY DEF TypeOK, States, Clients
  <2>4. firstStart' \in BOOLEAN /\ connTimer' \in BOOLEAN /\ inExit' \in BOOLEAN
    BY DEF TypeOK, States, Clients
  <2>5. retried' \in 0..MaxRestarts /\ maxcheck' \in 0..MaxReadyChecks + 1 /\ restarts' \in Nat
    BY DEF TypeOK, States, Clients
  <2>6. ui' \in {"off", "dialog", "on"} /\ loop' \in {"running", "ended", "destroyed"}
    BY DEF TypeOK, States, Clients
  <2>7. proc' \in {"none", "launching", "up", "ready", "dead", "failed"} /\ signals' \subseteq {"started", "finished"}
    BY DEF TypeOK, States, Clients
  <2> QED
    BY <2>1, <2>2, <2>3, <2>4, <2>5, <2>6, <2>7 DEF TypeOK
<1>2. SignalsInv'
  BY DEF SignalsInv, TypeOK
<1>3. StateInv'
  BY DEF StateInv, TypeOK, SignalsInv
<1>4. RetryInv'
  BY DEF RetryInv, Busy, Alive, MaxRetry, IsConnected, TypeOK, OneDaemon, SignalsInv, FewSilentRetries, ChecksHaveDaemon
<1>5. OneDaemon'
  BY DEF OneDaemon, Alive, TypeOK, SignalsInv, RetryInv, Busy
<1>6. ChecksHaveDaemon'
  BY DEF ChecksHaveDaemon, Alive, TypeOK, SignalsInv, OneDaemon, StateInv
<1>7. FewSilentRetries'
  BY DEF FewSilentRetries, TypeOK, RetryInv, Busy, Alive, MaxRetry, IsConnected, OneDaemon
<1>8. RestartIsHeard'
  BY DEF RestartIsHeard, TypeOK, States, Clients, StateInv, SignalsInv
<1>9. PollerInv'
  BY DEF PollerInv, TypeOK
<1> QED
  BY <1>1, <1>2, <1>3, <1>4, <1>5, <1>6, <1>7, <1>8, <1>9

LEMMA CloseLoginDialogKeeps ==
    ASSUME IInv, CloseLoginDialog
    PROVE  IInv'
<1> USE LimitsAssumption DEF IInv, CloseLoginDialog, manager, StartPoller
<1>1. TypeOK'
  BY DEF TypeOK, States, Clients, OneDaemon, RetryInv, Busy, Alive, MaxRetry, IsConnected, StateInv
<1>2. SignalsInv'
  BY DEF SignalsInv, TypeOK
<1>3. StateInv'
  BY DEF StateInv, TypeOK, SignalsInv
<1>4. RetryInv'
  BY DEF RetryInv, Busy, Alive, MaxRetry, IsConnected, TypeOK, OneDaemon, SignalsInv, FewSilentRetries, ChecksHaveDaemon
<1>5. OneDaemon'
  BY DEF OneDaemon, Alive, TypeOK, SignalsInv, RetryInv, Busy
<1>6. ChecksHaveDaemon'
  BY DEF ChecksHaveDaemon, Alive, TypeOK, SignalsInv, OneDaemon, StateInv
<1>7. FewSilentRetries'
  BY DEF FewSilentRetries, TypeOK, RetryInv, Busy, Alive, MaxRetry, IsConnected, OneDaemon
<1>8. RestartIsHeard'
  BY DEF RestartIsHeard, TypeOK, States, Clients, StateInv, SignalsInv
<1>9. PollerInv'
  BY DEF PollerInv, TypeOK
<1> QED
  BY <1>1, <1>2, <1>3, <1>4, <1>5, <1>6, <1>7, <1>8, <1>9

LEMMA QuitKeeps ==
    ASSUME IInv, Quit
    PROVE  IInv'
<1> USE LimitsAssumption DEF IInv, Quit, applet
<1>1. TypeOK'
  BY DEF TypeOK, States, Clients, OneDaemon, RetryInv, Busy, Alive, MaxRetry, IsConnected, StateInv
<1>2. SignalsInv'
  BY DEF SignalsInv, TypeOK
<1>3. StateInv'
  BY DEF StateInv, TypeOK, SignalsInv
<1>4. RetryInv'
  BY DEF RetryInv, Busy, Alive, MaxRetry, IsConnected, TypeOK, OneDaemon, SignalsInv, FewSilentRetries, ChecksHaveDaemon
<1>5. OneDaemon'
  BY DEF OneDaemon, Alive, TypeOK, SignalsInv, RetryInv, Busy
<1>6. ChecksHaveDaemon'
  BY DEF ChecksHaveDaemon, Alive, TypeOK, SignalsInv, OneDaemon, StateInv
<1>7. FewSilentRetries'
  BY DEF FewSilentRetries, TypeOK, RetryInv, Busy, Alive, MaxRetry, IsConnected, OneDaemon
<1>8. RestartIsHeard'
  BY DEF RestartIsHeard, TypeOK, States, Clients, StateInv, SignalsInv
<1>9. PollerInv'
  BY DEF PollerInv, TypeOK
<1> QED
  BY <1>1, <1>2, <1>3, <1>4, <1>5, <1>6, <1>7, <1>8, <1>9

LEMMA StopDaemonKeeps ==
    ASSUME IInv, StopDaemon
    PROVE  IInv'
<1> USE LimitsAssumption DEF IInv, StopDaemon, FinishedWhileConnecting, ScheduleRestartDaemon, Stale
<1>1. TypeOK'
  <2>1. poller' \in [started : BOOLEAN, active : BOOLEAN, client : Clients]
    BY DEF TypeOK, States, Clients
  <2>2. /\ retried' \in 0..MaxRestarts
        /\ restarts' \in Nat
        /\ inExit' \in BOOLEAN
    <3>1. CASE UNCHANGED <<retried, restarts, inExit>>
      BY <3>1 DEF TypeOK
    <3>2. CASE (proc = "launching" \/ "started" \in signals) /\ ScheduleRestartDaemon
      <4>1. Busy
        BY <3>2 DEF Busy, Alive
      <4>2. retried < MaxRestarts
        BY <4>1 DEF TypeOK, RetryInv, MaxRetry
      <4>3. restarts' \in Nat
        BY <3>2 DEF TypeOK
      <4>4. inExit' \in BOOLEAN
        BY <3>2 DEF TypeOK
      <4> QED
        BY <3>2, <4>2, <4>3, <4>4 DEF TypeOK
    <3> QED
      BY <3>1, <3>2
  <2>3. state' \in States /\ rpc' \in Clients /\ connTimer' \in BOOLEAN
    BY DEF TypeOK, States, Clients, Stale
  <2>4. proc' \in {"none", "launching", "up", "ready", "dead", "failed"} /\ signals' \subseteq {"started", "finished"}
    BY DEF TypeOK, States, Clients
  <2>5. /\ hist' \in [silent : Nat, starts : Nat] /\ firstStart' \in BOOLEAN
        /\ maxcheck' \in 0..MaxReadyChecks + 1 /\ ui' \in {"off", "dialog", "on"}
        /\ loop' \in {"running", "ended", "destroyed"}
    BY DEF TypeOK, States, Clients
  <2> QED
    BY <2>1, <2>2, <2>3, <2>4, <2>5 DEF TypeOK
<1>2. SignalsInv'
  BY DEF SignalsInv, TypeOK
<1>3. StateInv'
  BY DEF StateInv, TypeOK, SignalsInv
<1>4. RetryInv'
  BY DEF RetryInv, Busy, Alive, MaxRetry, IsConnected, TypeOK, OneDaemon, SignalsInv, FewSilentRetries, ChecksHaveDaemon
<1>5. OneDaemon'
  BY DEF OneDaemon, Alive, TypeOK, SignalsInv, RetryInv, Busy
<1>6. ChecksHaveDaemon'
  BY DEF ChecksHaveDaemon, Alive, TypeOK, SignalsInv, OneDaemon, StateInv
<1>7. FewSilentRetries'
  BY DEF FewSilentRetries, TypeOK, RetryInv, Busy, Alive, MaxRetry, IsConnected, OneDaemon
<1>8. RestartIsHeard'
  BY DEF RestartIsHeard, TypeOK, States, Clients, StateInv, SignalsInv
<1>9. PollerInv'
  BY DEF PollerInv, TypeOK
<1> QED
  BY <1>1, <1>2, <1>3, <1>4, <1>5, <1>6, <1>7, <1>8, <1>9

LEMMA StutterKeeps ==
    ASSUME IInv, UNCHANGED vars
    PROVE  IInv'
  BY DEF vars, applet, IInv, TypeOK, SignalsInv, StateInv, RetryInv, PollerInv, Busy, Alive,
         MaxRetry, IsConnected, OneDaemon, ChecksHaveDaemon, FewSilentRetries, RestartIsHeard

-----------------------------------------------------------------------------
\* Every step of the daemon, the manager and its listeners keeps the invariant.
THEOREM Invariance == Spec => []IInv
<1>1. Init => IInv
  BY InitIInv
<1>2. IInv /\ [Next]_vars => IInv'
  <2> SUFFICES ASSUME IInv, [Next]_vars PROVE IInv'
    OBVIOUS
  <2>1. CASE ProcessStarts
    BY <2>1, ProcessStartsKeeps
  <2>2. CASE ProcessFailsToStart
    BY <2>2, ProcessFailsToStartKeeps
  <2>3. CASE RpcGetsReady
    BY <2>3, RpcGetsReadyKeeps
  <2>4. CASE ProcessDies
    BY <2>4, ProcessDiesKeeps
  <2>5. CASE RestartSeafileDaemon
    BY <2>5, RestartSeafileDaemonKeeps
  <2>6. CASE OnDaemonStarted
    BY <2>6, OnDaemonStartedKeeps
  <2>7. CASE OnDaemonFinished
    BY <2>7, OnDaemonFinishedKeeps
  <2>8. CASE \E dialog \in BOOLEAN : DaemonIsReady(dialog)
    BY <2>8, DaemonIsReadyKeeps
  <2>9. CASE \E dialog \in BOOLEAN : DaemonIsReadyAndDies(dialog)
    BY <2>9, DaemonIsReadyAndDiesKeeps
  <2>10. CASE DaemonIsNotReady
    BY <2>10, DaemonIsNotReadyKeeps
  <2>11. CASE CloseLoginDialog
    BY <2>11, CloseLoginDialogKeeps
  <2>12. CASE Quit
    BY <2>12, QuitKeeps
  <2>13. CASE StopDaemon
    BY <2>13, StopDaemonKeeps
  <2>14. CASE UNCHANGED vars
    BY <2>14, StutterKeeps
  <2> QED
    BY <2>1, <2>2, <2>3, <2>4, <2>5, <2>6, <2>7, <2>8, <2>9, <2>10, <2>11, <2>12, <2>13, <2>14 DEF Next
<1> QED
  BY <1>1, <1>2, PTL DEF Spec

\* The variables have their types; the retries stay within the limit of
\* scheduleRestartDaemon.
THEOREM TypeCorrect == Spec => []TypeOK
<1>1. IInv => TypeOK
  BY DEF IInv
<1> QED
  BY <1>1, Invariance, PTL

\* There is one daemon at most, and one timer that will start it again at most,
\* never both.
THEOREM OneDaemonOnly == Spec => []OneDaemon
<1>1. IInv => OneDaemon
  BY DEF IInv
<1> QED
  BY <1>1, Invariance, PTL

\* A daemon that is known dead is not polled.
THEOREM ChecksAlwaysHaveDaemon == Spec => []ChecksHaveDaemon
<1>1. IInv => ChecksHaveDaemon
  BY DEF IInv
<1> QED
  BY <1>1, Invariance, PTL

\* The client starts once, after two launches at most.
THEOREM StartsOnceOnly == Spec => [](StartsOnce /\ FewSilentRetries)
<1>1. IInv => StartsOnce /\ FewSilentRetries
  BY DEF IInv, RetryInv, StartsOnce
<1> QED
  BY <1>1, Invariance, PTL

\* Every listener is connected to the daemon the manager is connected to.
THEOREM RestartIsAlwaysHeard == Spec => []RestartIsHeard
<1>1. IInv => RestartIsHeard
  BY DEF IInv
<1> QED
  BY <1>1, Invariance, PTL
=============================================================================
