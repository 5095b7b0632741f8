---------------------------- MODULE StatusPolling ----------------------------
(***************************************************************************)
(* The status polling of NetworkSocket.java: a java.util.Timer whose        *)
(* thread starts a status request (AsynTaskSyncServerStatus) each period    *)
(* unless the last one is still under way, and cancelSyncServerStatus on    *)
(* the UI thread, which stops the timer and cancels the request.  Both use  *)
(* the field syncTask with no lock, and a timer that is cancelled finishes  *)
(* the run it is in.                                                        *)
(*                                                                         *)
(* The requests share the serial executor with the connects and meet the   *)
(* UI again in onPostExecute: a request that finds no socket reports a     *)
(* disconnection, and the activity tears the session down.  The socket is  *)
(* abstracted to up or down here; CommandSession has it in detail.         *)
(*                                                                         *)
(* Timers, requests and connects are Java objects.  An object that nothing *)
(* refers to any more may be named again for a new one.                    *)
(***************************************************************************)
EXTENDS Naturals, Sequences, FiniteSets, SequencesExt

CONSTANTS
    Timers,      \* java.util.Timer objects
    Syncs,       \* AsynTaskSyncServerStatus objects
    Connects,    \* AsynTaskConnectHost objects
    None         \* Java's null

Tasks == Syncs \cup Connects

ASSUME StatusPollingAssumption ==
    /\ Syncs \cap Connects = {}
    /\ None \notin Tasks \cup Timers
    /\ IsFiniteSet(Connects)
    /\ {"pause", "view", "disconnect"} \cap Connects = {}

VARIABLES
    timerSyncStatus,   \* the field: the timer that polls, or null
    syncTask,          \* the field: the last request, or null
    timerState,        \* of every timer: scheduled, cancelled, or not in use
    run,               \* next step of the timer thread's run()
    conn,              \* clientSocket: "up" or "down"
    downloading,       \* a catalogue download suspended the polling
    status, cancelled, \* life cycle of every AsyncTask
    result,            \* what doInBackground returned
    queue, worker,     \* the serial executor: waiting tasks, the running one
    uiQueue,           \* results posted to the main looper
    uiPc, uiThen,      \* the UI inside cancelSyncServerStatus; what follows
    overlap,           \* history: some timer was cancelled during its run()
    foreign            \* history: requests issued by a timer already cancelled

timerVars == <<timerState, run>>
taskVars == <<status, cancelled, result>>
histVars == <<overlap, foreign>>
execVars == <<queue, worker>>
uiVars == <<uiPc, uiThen>>
vars == <<timerSyncStatus, syncTask, timerState, run, conn, downloading, status,
          cancelled, result, queue, worker, uiQueue, uiPc, uiThen, overlap, foreign>>

-----------------------------------------------------------------------------
Crashed == uiPc = "dead"
Unresolved(t) == status[t] \in {"created", "queued", "running", "posted"}
Live(t) == Unresolved(t) /\ t \notin cancelled

\* An object that may be new: never used, or done with and referred to by none.
\* Syncs and Connects so bound the requests and connects pending at once.
Fresh(t) == status[t] \in {"new", "finished"} /\ syncTask # t /\ t \notin Range(queue)

\* cancel(true).  A task that is not running is posted to the looper at once, and
\* the executor will skip it; one that runs is posted when it returns, and a
\* delivered one stays as it is.
Posted(S) == SetToSeq({t \in S : status[t] \in {"created", "queued"} /\ t \notin cancelled})
CancelAll(S) ==
    /\ cancelled' = cancelled \cup {t \in S : Unresolved(t)}
    /\ uiQueue' = uiQueue \o Posted(S)

Init ==
    /\ timerSyncStatus = None /\ syncTask = None
    /\ timerState = [t \in Timers |-> "unused"]
    /\ run = [t \in Timers |-> "wait"]
    /\ conn = "down" /\ downloading = FALSE
    /\ status = [t \in Tasks |-> "new"] /\ cancelled = {}
    /\ result = [t \in Tasks |-> "none"]
    /\ queue = <<>> /\ worker = None /\ uiQueue = <<>>
    /\ uiPc = "idle" /\ uiThen = "pause"
    /\ overlap = FALSE /\ foreign = {}

\* A NullPointerException or an IllegalStateException on the UI thread or on a
\* timer's thread ends the process.
Crash ==
    /\ uiPc' = "dead"
    /\ UNCHANGED <<timerSyncStatus, syncTask, timerVars, conn, downloading,
                   taskVars, execVars, uiQueue, uiThen, histVars>>

-----------------------------------------------------------------------------
(* The timer's thread: TimerTask.run                                       *)

RunBegins(t) ==
    /\ ~Crashed /\ timerState[t] = "on" /\ run[t] = "wait"
    /\ run' = [run EXCEPT ![t] = "test"]
    /\ UNCHANGED <<timerSyncStatus, syncTask, timerState, conn, downloading,
                   taskVars, execVars, uiQueue, uiVars, histVars>>

\* if (syncTask == null) ... else if (syncTask.getStatus() == FINISHED): the
\* field is read twice, and a request still under way skips the period.
TestNull(t) ==
    /\ ~Crashed /\ run[t] = "test"
    /\ run' = [run EXCEPT ![t] = IF syncTask = None THEN "create" ELSE "status"]
    /\ UNCHANGED <<timerSyncStatus, syncTask, timerState, conn, downloading,
                   taskVars, execVars, uiQueue, uiVars, histVars>>

SkipsPeriod_Never(s) == FALSE
SkipsPeriod_Pending(s) == status[s] # "created"

SkipsPeriod(s) == status[s] # "finished"

TestFinished(t) ==
    /\ ~Crashed /\ run[t] = "status" /\ syncTask # None
    /\ run' = [run EXCEPT ![t] = IF SkipsPeriod(syncTask) THEN "wait" ELSE "reset"]
    /\ UNCHANGED <<timerSyncStatus, syncTask, timerState, conn, downloading,
                   taskVars, execVars, uiQueue, uiVars, histVars>>

\* syncTask = null, then as in the first branch.
ResetTask(t) ==
    /\ ~Crashed /\ run[t] = "reset"
    /\ syncTask' = None
    /\ run' = [run EXCEPT ![t] = "create"]
    /\ UNCHANGED <<timerSyncStatus, timerState, conn, downloading, taskVars,
                   execVars, uiQueue, uiVars, histVars>>

CreateTask(t) ==
    /\ ~Crashed /\ run[t] = "create"
    /\ \E s \in Syncs :
         /\ Fresh(s)
         /\ syncTask' = s
         /\ status' = [status EXCEPT ![s] = "created"]
         /\ foreign' = IF timerState[t] = "off" THEN foreign \cup {s} ELSE foreign
    /\ run' = [run EXCEPT ![t] = "execute"]
    /\ UNCHANGED <<timerSyncStatus, timerState, conn, downloading, cancelled, result,
                   execVars, uiQueue, uiVars, overlap>>

\* syncTask.execute() on what the field holds by now.
ExecuteTask(t) ==
    /\ ~Crashed /\ run[t] = "execute" /\ syncTask # None
    /\ status[syncTask] = "created"
    /\ status' = [status EXCEPT ![syncTask] = "queued"]
    /\ queue' = Append(queue, syncTask)
    /\ run' = [run EXCEPT ![t] = "wait"]
    /\ UNCHANGED <<timerSyncStatus, syncTask, timerState, conn, downloading,
                   cancelled, result, worker, uiQueue, uiVars, histVars>>

\* The field was nulled, or another timer's run executed its task already.
RunThrows(t) ==
    /\ ~Crashed
    /\ \/ run[t] \in {"status", "execute"} /\ syncTask = None
       \/ run[t] = "execute" /\ syncTask # None /\ status[syncTask] # "created"
    /\ Crash

-----------------------------------------------------------------------------
(* The UI thread: starting and cancelling the polling                      *)

\* startSyncServerStatusThread: nothing if a timer is there already.
StartTimer ==
    \/ timerSyncStatus # None /\ UNCHANGED <<timerSyncStatus, timerState>>
    \/ /\ timerSyncStatus = None
       /\ \E t \in Timers :
            /\ timerState[t] # "on" /\ run[t] = "wait"
            /\ timerSyncStatus' = t
            /\ timerState' = [timerState EXCEPT ![t] = "on"]

\* cancelSyncServerStatus is entered; then is what its caller does after it.
EnterCancel(then) == uiPc' = "timer" /\ uiThen' = then

\* The download of the song catalogue stops the polling and resumes it.
PausePolling ==
    /\ uiPc = "idle" /\ conn = "up"
    /\ downloading' = TRUE
    /\ EnterCancel("pause")
    /\ UNCHANGED <<timerSyncStatus, syncTask, timerVars, conn, taskVars, execVars,
                   uiQueue, histVars>>

ResumePolling ==
    /\ uiPc = "idle" /\ downloading
    /\ downloading' = FALSE
    /\ StartTimer
    /\ UNCHANGED <<syncTask, run, conn, taskVars, execVars, uiQueue, uiVars, histVars>>

\* OnDisConnect: cancelSyncServerStatus, then disconnectFromRemoteHost.
UserDisconnect ==
    /\ uiPc = "idle"
    /\ EnterCancel("view")
    /\ UNCHANGED <<timerSyncStatus, syncTask, timerVars, conn, downloading, taskVars,
                   execVars, uiQueue, histVars>>

\* OnConnect: disconnectFromRemoteHost, which cancels connectTask before it
\* cancels the polling, then connectToRemoteHost.
UserConnect(k) ==
    /\ uiPc = "idle" /\ Fresh(k)
    /\ downloading' = FALSE
    /\ CancelAll(Connects)
    /\ EnterCancel(k)
    /\ UNCHANGED <<timerSyncStatus, syncTask, timerVars, conn, status, result,
                   execVars, histVars>>

CancelTimer_OnlyForgets ==
    /\ uiPc = "timer"
    /\ uiPc' = "test"
    /\ timerSyncStatus' = None
    /\ UNCHANGED <<syncTask, timerVars, conn, downloading, taskVars, execVars, uiQueue,
                   uiThen, histVars>>

\* timerSyncStatus.cancel(); timerSyncStatus = null
CancelTimer ==
    /\ uiPc = "timer"
    /\ uiPc' = "test"
    /\ \/ /\ timerSyncStatus # None
          /\ timerState' = [timerState EXCEPT ![timerSyncStatus] = "off"]
          /\ overlap' = (overlap \/ run[timerSyncStatus] # "wait")
          /\ timerSyncStatus' = None
       \/ timerSyncStatus = None /\ UNCHANGED <<timerState, overlap, timerSyncStatus>>
    /\ UNCHANGED <<syncTask, run, conn, downloading, taskVars, execVars, uiQueue,
                   uiThen, foreign>>

CancelTestsTask ==
    /\ uiPc = "test"
    /\ uiPc' = IF syncTask = None THEN "done" ELSE "cancel"
    /\ UNCHANGED <<timerSyncStatus, syncTask, timerVars, conn, downloading, taskVars,
                   execVars, uiQueue, uiThen, histVars>>

CancelTask ==
    /\ uiPc = "cancel" /\ syncTask # None
    /\ CancelAll({syncTask})
    /\ uiPc' = "null"
    /\ UNCHANGED <<timerSyncStatus, syncTask, timerVars, conn, downloading, status,
                   result, execVars, uiThen, histVars>>

CancelThrows == uiPc = "cancel" /\ syncTask = None /\ Crash

CancelForgets ==
    /\ uiPc = "null"
    /\ syncTask' = None
    /\ uiPc' = "done"
    /\ UNCHANGED <<timerSyncStatus, timerVars, conn, downloading, taskVars, execVars,
                   uiQueue, uiThen, histVars>>

\* cancelSyncServerStatus has returned.  The caller of "view" goes on to
\* disconnectFromRemoteHost, which cancels once more; the others are there.
AfterCancel ==
    /\ uiPc = "done"
    /\ \/ /\ uiThen = "view"
          /\ downloading' = FALSE
          /\ CancelAll(Connects)
          /\ EnterCancel("disconnect")
          /\ UNCHANGED <<conn, status, result, queue>>
       \/ /\ uiThen = "pause"
          /\ uiPc' = "idle"
          /\ UNCHANGED <<conn, downloading, taskVars, queue, uiQueue, uiThen>>
       \/ /\ uiThen = "disconnect"
          /\ conn' = "down" /\ uiPc' = "idle" /\ uiThen' = "pause"
          /\ UNCHANGED <<downloading, taskVars, queue, uiQueue>>
       \/ /\ uiThen \in Connects
          /\ conn' = "down" /\ uiPc' = "idle" /\ uiThen' = "pause"
          /\ status' = [status EXCEPT ![uiThen] = "queued"]
          /\ queue' = Append(queue, uiThen)
          /\ UNCHANGED <<downloading, cancelled, result, uiQueue>>
    /\ UNCHANGED <<timerSyncStatus, syncTask, timerVars, worker, histVars>>

\* onPostExecute: a failure tears the session down, a login starts the polling,
\* and a cancelled task calls nobody.  The result is of no use after it.
FinishTask ==
    /\ uiPc = "idle" /\ uiQueue # <<>>
    /\ LET t == Head(uiQueue) IN
         /\ status' = [status EXCEPT ![t] = "finished"]
         /\ \/ /\ t \notin cancelled /\ result[t] = "disconnected"
               /\ EnterCancel("view") /\ UNCHANGED <<timerSyncStatus, timerState>>
            \/ /\ t \notin cancelled /\ result[t] = "authenticated"
               /\ StartTimer /\ UNCHANGED uiVars
            \/ /\ t \in cancelled \/ result[t] \notin {"disconnected", "authenticated"}
               /\ UNCHANGED <<timerSyncStatus, timerState, uiVars>>
         /\ cancelled' = cancelled \ {t} /\ foreign' = foreign \ {t}
         /\ result' = [result EXCEPT ![t] = "none"]
    /\ uiQueue' = Tail(uiQueue)
    /\ UNCHANGED <<syncTask, run, conn, downloading, execVars, overlap>>

-----------------------------------------------------------------------------
(* The serial executor                                                     *)

\* A task cancelled before it starts is skipped: FutureTask.run returns.
StartTask ==
    /\ ~Crashed /\ worker = None /\ queue # <<>>
    /\ LET t == Head(queue)
           skipped == t \in cancelled \/ status[t] = "finished" IN
         \/ ~skipped /\ worker' = t /\ status' = [status EXCEPT ![t] = "running"]
         \/ skipped /\ UNCHANGED <<worker, status>>
    /\ queue' = Tail(queue)
    /\ UNCHANGED <<timerSyncStatus, syncTask, timerVars, conn, downloading, cancelled,
                   result, uiQueue, uiVars, histVars>>

Return_Null(r) ==
    /\ result' = [result EXCEPT ![worker] = None]
    /\ status' = [status EXCEPT ![worker] = "posted"]
    /\ uiQueue' = Append(uiQueue, worker)
    /\ worker' = None
    /\ UNCHANGED <<timerSyncStatus, syncTask, timerVars, downloading, cancelled,
                   queue, uiVars, histVars>>

Return(r) ==
    /\ result' = [result EXCEPT ![worker] = r]
    /\ status' = [status EXCEPT ![worker] = "posted"]
    /\ uiQueue' = Append(uiQueue, worker)
    /\ worker' = None
    /\ UNCHANGED <<timerSyncStatus, syncTask, timerVars, downloading, cancelled,
                   queue, uiVars, histVars>>

\* AsynTaskSyncServerStatus: Byte[1] without a socket or after the fifth
\* failure, Byte[0] when the socket is busy, else the status.  The null that
\* clientSocket may become between its test and its use ends the process here
\* as it does for a command: CommandSession has that, this module leaves it out.
SyncReturns ==
    /\ ~Crashed /\ worker \in Syncs
    /\ \/ conn = "up" /\ Return("data") /\ UNCHANGED conn
       \/ Return("busy") /\ UNCHANGED conn
       \/ Return("disconnected") /\ conn' = "down"

\* AsynTaskConnectHost: a cancelled one goes on and may still connect.  The
\* handshake that follows can fail with the socket left open; "refused" is the
\* box that wants another password, for which nobody starts the polling.
ConnectReturns ==
    /\ ~Crashed /\ worker \in Connects
    /\ \/ conn = "up" /\ Return("existed") /\ UNCHANGED conn
       \/ conn = "down" /\ Return("disconnected") /\ UNCHANGED conn
       \/ /\ conn = "down" /\ conn' = "up"
          /\ \E r \in {"disconnected", "refused", "authenticated"} : Return(r)

-----------------------------------------------------------------------------
TimerStep(t) ==
    \/ RunBegins(t) \/ TestNull(t) \/ TestFinished(t) \/ ResetTask(t)
    \/ CreateTask(t) \/ ExecuteTask(t) \/ RunThrows(t)

UserAction ==
    \/ PausePolling \/ ResumePolling \/ UserDisconnect
    \/ \E k \in Connects : UserConnect(k)

CancelStep ==
    \/ CancelTimer \/ CancelTestsTask \/ CancelTask \/ CancelThrows
    \/ CancelForgets \/ AfterCancel

ExecutorStep == StartTask \/ SyncReturns \/ ConnectReturns

Next ==
    \/ \E t \in Timers : TimerStep(t)
    \/ UserAction \/ CancelStep \/ FinishTask \/ ExecutorStep

Spec == Init /\ [][Next]_vars

\* The timer fires each period, the threads are scheduled, and the looper
\* serves its messages in order, so clicks do not delay a result for ever.
FairSpec ==
    /\ Spec
    /\ \A t \in Timers : WF_vars(TimerStep(t))
    /\ WF_vars(CancelStep) /\ SF_vars(FinishTask) /\ WF_vars(ExecutorStep)

-----------------------------------------------------------------------------
(* Properties                                                              *)

\* The values the variables take.
TypeOK ==
    /\ timerSyncStatus \in Timers \cup {None}
    /\ syncTask \in Syncs \cup {None}
    /\ timerState \in [Timers -> {"unused", "on", "off"}]
    /\ run \in [Timers -> {"wait", "test", "status", "reset", "create", "execute"}]
    /\ conn \in {"up", "down"} /\ downloading \in BOOLEAN
    /\ status \in [Tasks -> {"new", "created", "queued", "running", "posted", "finished"}]
    /\ cancelled \in SUBSET Tasks
    /\ result \in [Tasks -> {"none", "data", "busy", "disconnected", "existed", "refused",
                          "authenticated"}]
    /\ queue \in Seq(Tasks) /\ worker \in Tasks \cup {None} /\ uiQueue \in Seq(Tasks)
    /\ uiPc \in {"idle", "timer", "test", "cancel", "null", "done", "dead"}
    /\ uiThen \in {"pause", "view", "disconnect"} \cup Connects
    /\ overlap \in BOOLEAN /\ foreign \in SUBSET Syncs

\* Only the timer that the field names fires: cancelling the field's timer
\* leaves none behind.
OneTimerFires == \A t \in Timers : timerState[t] = "on" <=> timerSyncStatus = t

\* A cancellation that does not fall into a run() of its timer is complete:
\* no request but the field's can call back, and syncTask is not null when used.
CleanCancelIsComplete ==
    ~overlap =>
        /\ ~Crashed
        /\ \A s \in Syncs : Live(s) => syncTask = s
        /\ uiPc \in {"done", "idle"} /\ timerSyncStatus = None => \A s \in Syncs : ~Live(s)

\* Polling never sticks to one request: whatever is cancelled, paused or lost,
\* the request of a running timer is replaced, unless the timer is cancelled.
PollingGoesOn ==
    \A s \in Syncs :
        syncTask = s /\ timerSyncStatus # None
            ~> syncTask # s \/ timerSyncStatus = None \/ Crashed

\* cancelSyncServerStatus stops the polling: a request that its timer issued
\* after the cancellation does not tear down the session that follows.
NoForeignTeardown ==
    \A s \in foreign :
        ~(status[s] = "posted" /\ s \notin cancelled /\ result[s] = "disconnected" /\ conn = "up")
=============================================================================
