---------------------------- MODULE DownloadQueue ----------------------------
(***************************************************************************)
(* What the TransferManager promises of its download queue (transfer-mgr.h)*)
(* to who asked for a download: downloads start in the order they were     *)
(* asked for, each at most once; nobody waits unless a download runs, and  *)
(* the end of the last one that runs starts the one that waited longest.   *)
(*                                                                         *)
(* Nothing is said of how: there is no slot here, no thread and no event.  *)
(* TransferManager implements this specification (ImplementsQueue there).  *)
(***************************************************************************)
EXTENDS SequencesExt

CONSTANT Tasks      \* the downloads ever asked for

VARIABLES
    waiting,        \* the downloads that wait, the longest waiting one first
    running,        \* those that were started
    over,           \* those that were finished or canceled
    dropped         \* those that were thrown away before they started

vars == <<waiting, running, over, dropped>>

Fresh == Tasks \ (ToSet(waiting) \cup running \cup over \cup dropped)

Init ==
    /\ waiting = <<>>
    /\ running = {}
    /\ over = {}
    /\ dropped = {}

\* A new download starts at once only if it overtakes nobody, and waits only
\* if there is one to wait for.
Ask(t) ==
    /\ t \in Fresh
    /\ \/ waiting = <<>> /\ running' = running \cup {t} /\ UNCHANGED waiting
       \/ running # {} /\ waiting' = Append(waiting, t) /\ UNCHANGED running
    /\ UNCHANGED <<over, dropped>>

\* t, which ran, is over.
Leave(t) == t \in running /\ over' = over \cup {t}

\* The longest waiting download takes the place of t.
HandOver(t) ==
    /\ waiting # <<>>
    /\ Leave(t)
    /\ running' = (running \ {t}) \cup {Head(waiting)}
    /\ waiting' = Tail(waiting)
    /\ UNCHANGED dropped

\* Nobody takes it, as none waits or others run.
Stop(t) ==
    /\ waiting = <<>> \/ running # {t}
    /\ Leave(t)
    /\ running' = running \ {t}
    /\ UNCHANGED <<waiting, dropped>>

\* A download that waits is canceled: the order of the others stays.
Cancel(t) ==
    /\ t \in ToSet(waiting)
    /\ waiting' = RemoveFirst(waiting, t)
    /\ over' = over \cup {t}
    /\ UNCHANGED <<running, dropped>>

\* All are canceled.  The code cancels one of those that run, t, which starts
\* the longest waiting one, and drops the others.
CancelAll(t) ==
    /\ Leave(t)
    /\ IF waiting = <<>>
       THEN running' = running \ {t} /\ UNCHANGED dropped
       ELSE /\ running' = (running \ {t}) \cup {Head(waiting)}
            /\ dropped' = dropped \cup ToSet(Tail(waiting))
    /\ waiting' = <<>>

Next ==
    \E t \in Tasks :
        Ask(t) \/ HandOver(t) \/ Stop(t) \/ Cancel(t) \/ CancelAll(t)

Spec == Init /\ [][Next]_vars

=============================================================================
