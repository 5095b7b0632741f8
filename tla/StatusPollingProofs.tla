------------------------- MODULE StatusPollingProofs -------------------------
(***************************************************************************)
(* Theorems about the status polling, for every set of timers, requests    *)
(* and connects.                                                           *)
(***************************************************************************)
EXTENDS StatusPolling, SequenceTheorems, FiniteSetTheorems, TLAPS

\* The field names a timer or nothing, and every timer has a state: what
\* OneTimerFires needs to be inductive.
TimerInv ==
    /\ timerSyncStatus \in Timers \cup {None}
    /\ DOMAIN timerState = Timers
    /\ OneTimerFires

LEMMA InitTimerInv == Init => TimerInv
BY StatusPollingAssumption DEF Init, TimerInv, OneTimerFires, Tasks

\* Only startSyncServerStatusThread puts a timer on, and only when the field
\* is free.
LEMMA StartTimerInv ==
    ASSUME TimerInv, StartTimer
    PROVE  TimerInv'
<1>1. CASE UNCHANGED <<timerSyncStatus, timerState>>
    BY <1>1 DEF TimerInv, OneTimerFires
<1>2. CASE timerSyncStatus = None /\ ~UNCHANGED <<timerSyncStatus, timerState>>
    <2>1. PICK t \in Timers :
             /\ timerSyncStatus' = t
             /\ timerState' = [timerState EXCEPT ![t] = "on"]
        BY <1>2 DEF StartTimer
    <2>2. \A u \in Timers : timerState[u] # "on"
        BY <1>2, StatusPollingAssumption DEF TimerInv, OneTimerFires
    <2>. QED  BY <2>1, <2>2 DEF TimerInv, OneTimerFires
<1>. QED  BY <1>1, <1>2 DEF StartTimer

\* cancelSyncServerStatus stops the timer it takes out of the field.
LEMMA CancelTimerInv ==
    ASSUME TimerInv, CancelTimer
    PROVE  TimerInv'
<1>1. CASE timerSyncStatus = None
    BY <1>1, StatusPollingAssumption DEF TimerInv, OneTimerFires, CancelTimer
<1>2. CASE timerSyncStatus # None
    <2>1. /\ timerState' = [timerState EXCEPT ![timerSyncStatus] = "off"]
          /\ timerSyncStatus' = None
        BY <1>2 DEF CancelTimer
    <2>2. \A t \in Timers : timerState'[t] # "on"
        BY <1>2, <2>1 DEF TimerInv, OneTimerFires
    <2>3. None \notin Timers
        BY StatusPollingAssumption DEF Tasks
    <2>. QED  BY <2>1, <2>2, <2>3 DEF TimerInv, OneTimerFires
<1>. QED  BY <1>1, <1>2

\* No other step touches a timer's state or the field.
LEMMA NextTimerInv ==
    ASSUME TimerInv, [Next]_vars
    PROVE  TimerInv'
<1>. DEFINE Same == UNCHANGED <<timerSyncStatus, timerState>>
<1>0. Same => TimerInv'
    BY DEF TimerInv, OneTimerFires
<1>. SUFFICES ASSUME ~Same PROVE StartTimer \/ CancelTimer
    BY <1>0, StartTimerInv, CancelTimerInv
<1>1. CASE \E t \in Timers : TimerStep(t)
    BY <1>1 DEF TimerStep, RunBegins, TestNull, TestFinished, ResetTask, CreateTask,
                ExecuteTask, RunThrows, Crash, timerVars
<1>2. CASE UserAction
    BY <1>2 DEF UserAction, PausePolling, ResumePolling, UserDisconnect, UserConnect,
                timerVars
<1>3. CASE CancelStep
    BY <1>3 DEF CancelStep, CancelTestsTask, CancelTask, CancelThrows, CancelForgets,
                AfterCancel, Crash, timerVars
<1>4. CASE FinishTask
    BY <1>4 DEF FinishTask
<1>5. CASE ExecutorStep
    BY <1>5 DEF ExecutorStep, StartTask, SyncReturns, ConnectReturns, Return, timerVars
<1>6. CASE UNCHANGED vars
    BY <1>6 DEF vars
<1>. QED  BY <1>1, <1>2, <1>3, <1>4, <1>5, <1>6 DEF Next

\* However often the polling is started, paused and torn down, the only timer
\* that fires is the one cancelSyncServerStatus can reach through the field.
THEOREM SingleTimer == Spec => []OneTimerFires
<1>1. TimerInv => OneTimerFires
    BY DEF TimerInv
<1>. QED  BY InitTimerInv, NextTimerInv, <1>1, PTL DEF Spec
-----------------------------------------------------------------------------
\* The tasks that cancel(true) posts at once: each one once, and no other.
Injective(q) == \A i, j \in 1 .. Len(q) : q[i] = q[j] => i = j
ToPost(S) == {t \in S : status[t] \in {"created", "queued"} /\ t \notin cancelled}

LEMMA PostedIsSeq ==
    ASSUME NEW S, IsFiniteSet(S), S \subseteq Tasks
    PROVE  /\ Posted(S) \in Seq(Tasks) /\ Injective(Posted(S))
           /\ \A i \in 1 .. Len(Posted(S)) : Posted(S)[i] \in ToPost(S)
<1>. DEFINE P == ToPost(S)  n == Cardinality(P)
<1>1. IsFiniteSet(P)
    BY FS_Subset DEF ToPost
<1>2. n \in Nat /\ ExistsBijection(1 .. n, P)
    BY <1>1, FS_CardinalityType
<1>3. \E f \in [1 .. n -> P] : IsInjective(f)
    BY <1>2 DEF ExistsBijection, Bijection, Injection
<1>4. Posted(S) = CHOOSE f \in [1 .. n -> P] : IsInjective(f)
    BY DEF Posted, SetToSeq, ToPost
<1>5. Posted(S) \in [1 .. n -> P] /\ IsInjective(Posted(S))
    BY <1>3, <1>4
<1>. HIDE DEF n, P
<1>6. Posted(S) \in Seq(P)
    BY <1>2, <1>5, SeqDef
<1>7. Len(Posted(S)) = n
    BY <1>2, <1>5, <1>6, LenProperties
<1>8. P \subseteq Tasks
    BY DEF P, ToPost
<1>. QED
    BY <1>2, <1>5, <1>6, <1>7, <1>8, SeqMonotonic DEF Injective, IsInjective, P
-----------------------------------------------------------------------------
(* The type invariant                                                      *)

LEMMA InitTypeOK == Init => TypeOK
<1>1. <<>> \in Seq(Tasks)
    BY EmptySeq
<1>. SUFFICES ASSUME Init PROVE TypeOK
    OBVIOUS
<1>. USE DEF Init
<1>2. timerSyncStatus \in Timers \cup {None} /\ syncTask \in Syncs \cup {None}
    OBVIOUS
<1>3. timerState \in [Timers -> {"unused", "on", "off"}]
    OBVIOUS
<1>4. run \in [Timers -> {"wait", "test", "status", "reset", "create", "execute"}]
    OBVIOUS
<1>5. status \in [Tasks -> {"new", "created", "queued", "running", "posted", "finished"}]
    OBVIOUS
<1>6. result \in [Tasks -> {"none", "data", "busy", "disconnected", "existed", "refused",
                          "authenticated"}]
    OBVIOUS
<1>7. cancelled \in SUBSET Tasks /\ foreign \in SUBSET Syncs
    OBVIOUS
<1>. QED  BY <1>1, <1>2, <1>3, <1>4, <1>5, <1>6, <1>7 DEF TypeOK

LEMMA CancelAllTyped ==
    ASSUME TypeOK, NEW S, IsFiniteSet(S), S \subseteq Tasks, CancelAll(S)
    PROVE  cancelled' \in SUBSET Tasks /\ uiQueue' \in Seq(Tasks)
<1>1. Posted(S) \in Seq(Tasks)
    BY PostedIsSeq
<1>. QED  BY <1>1, ConcatProperties DEF TypeOK, CancelAll

LEMMA CancelSyncTyped ==
    ASSUME TypeOK, syncTask # None, CancelAll({syncTask})
    PROVE  cancelled' \in SUBSET Tasks /\ uiQueue' \in Seq(Tasks)
<1>1. IsFiniteSet({syncTask}) /\ {syncTask} \subseteq Tasks
    BY FS_Singleton DEF TypeOK, Tasks
<1>. QED  BY <1>1, CancelAllTyped

LEMMA CancelConnectsTyped ==
    ASSUME TypeOK, CancelAll(Connects)
    PROVE  cancelled' \in SUBSET Tasks /\ uiQueue' \in Seq(Tasks)
BY CancelAllTyped, StatusPollingAssumption DEF Tasks

LEMMA TimerTypeOK ==
    ASSUME TypeOK, NEW t \in Timers, TimerStep(t)
    PROVE  TypeOK'
<1>. USE DEF TypeOK, timerVars, taskVars, execVars, uiVars, histVars
<1>1. CASE RunBegins(t) \/ TestNull(t) \/ TestFinished(t) \/ ResetTask(t)
    BY <1>1 DEF RunBegins, TestNull, TestFinished, ResetTask
<1>2. CASE CreateTask(t)
    <2>1. PICK s \in Syncs :
             /\ syncTask' = s
             /\ status' = [status EXCEPT ![s] = "created"]
             /\ foreign' = IF timerState[t] = "off" THEN foreign \cup {s} ELSE foreign
        BY <1>2 DEF CreateTask
    <2>2. status' \in [Tasks -> {"new", "created", "queued", "running", "posted", "finished"}]
        BY <2>1 DEF Tasks
    <2>. QED  BY <1>2, <2>1, <2>2 DEF CreateTask
<1>3. CASE ExecuteTask(t)
    <2>1. syncTask \in Tasks /\ syncTask \in Syncs
        BY <1>3 DEF ExecuteTask, Tasks
    <2>2. queue' \in Seq(Tasks)
        BY <1>3, <2>1, AppendProperties DEF ExecuteTask
    <2>. QED  BY <1>3, <2>1, <2>2 DEF ExecuteTask
<1>4. CASE RunThrows(t)
    BY <1>4 DEF RunThrows, Crash
<1>. QED  BY <1>1, <1>2, <1>3, <1>4 DEF TimerStep

LEMMA UserTypeOK == ASSUME TypeOK, UserAction PROVE TypeOK'
<1>. USE DEF TypeOK, timerVars, taskVars, execVars, uiVars, histVars, EnterCancel
<1>1. CASE PausePolling \/ UserDisconnect
    BY <1>1 DEF PausePolling, UserDisconnect
<1>2. CASE ResumePolling
    BY <1>2 DEF ResumePolling, StartTimer
<1>3. ASSUME NEW k \in Connects, UserConnect(k) PROVE TypeOK'
    <2>1. cancelled' \in SUBSET Tasks /\ uiQueue' \in Seq(Tasks)
        BY <1>3, CancelConnectsTyped DEF UserConnect
    <2>. QED  BY <1>3, <2>1 DEF UserConnect
<1>. QED  BY <1>1, <1>2, <1>3 DEF UserAction

LEMMA CancelTypeOK == ASSUME TypeOK, CancelStep PROVE TypeOK'
<1>. USE DEF TypeOK, timerVars, taskVars, execVars, uiVars, histVars, EnterCancel
<1>1. CASE CancelTimer \/ CancelTestsTask \/ CancelThrows \/ CancelForgets
    BY <1>1 DEF CancelTimer, CancelTestsTask, CancelThrows, CancelForgets, Crash
<1>2. CASE CancelTask
    <2>1. cancelled' \in SUBSET Tasks /\ uiQueue' \in Seq(Tasks)
        BY <1>2, CancelSyncTyped DEF CancelTask
    <2>. QED  BY <1>2, <2>1 DEF CancelTask
<1>3. CASE AfterCancel
    <2>1. CASE uiThen = "view" /\ CancelAll(Connects)
        <3>1. cancelled' \in SUBSET Tasks /\ uiQueue' \in Seq(Tasks)
            BY <2>1, CancelConnectsTyped
        <3>. QED  BY <1>3, <2>1, <3>1, StatusPollingAssumption DEF AfterCancel
    <2>2. CASE uiThen \in Connects /\ queue' = Append(queue, uiThen)
        <3>1. uiThen \in Tasks /\ queue' \in Seq(Tasks)
            BY <2>2, AppendProperties DEF Tasks
        <3>. QED  BY <1>3, <2>2, <3>1, StatusPollingAssumption DEF AfterCancel
    <2>3. CASE uiThen \in {"pause", "disconnect"}
        BY <1>3, <2>3, StatusPollingAssumption DEF AfterCancel
    <2>. QED  BY <1>3, <2>1, <2>2, <2>3 DEF AfterCancel
<1>. QED  BY <1>1, <1>2, <1>3 DEF CancelStep

LEMMA FinishTypeOK == ASSUME TypeOK, FinishTask PROVE TypeOK'
<1>. USE DEF TypeOK, timerVars, execVars, uiVars, EnterCancel
<1>. DEFINE t == Head(uiQueue)
<1>1. t \in Tasks /\ uiQueue' \in Seq(Tasks)
    BY HeadTailProperties DEF FinishTask
<1>. HIDE DEF t
<1>2. /\ status' = [status EXCEPT ![t] = "finished"]
      /\ cancelled' = cancelled \ {t} /\ foreign' = foreign \ {t}
      /\ result' = [result EXCEPT ![t] = "none"]
      /\ UNCHANGED <<syncTask, run, conn, downloading, queue, worker, overlap>>
    BY DEF FinishTask, t
<1>3. /\ timerSyncStatus' \in Timers \cup {None}
      /\ timerState' \in [Timers -> {"unused", "on", "off"}]
    BY DEF FinishTask, StartTimer
<1>4. uiPc' \in {"timer", uiPc} /\ uiThen' \in {"view", uiThen}
    BY DEF FinishTask
<1>. QED  BY <1>1, <1>2, <1>3, <1>4

LEMMA ReturnTypeOK ==
    ASSUME TypeOK, worker \in Tasks, conn' \in {"up", "down"},
           NEW r \in {"data", "busy", "disconnected", "existed", "refused", "authenticated"}, Return(r)
    PROVE  TypeOK'
<1>1. uiQueue' \in Seq(Tasks)
    BY AppendProperties DEF Return, TypeOK
<1>. QED  BY <1>1 DEF TypeOK, Return, timerVars, uiVars, histVars

LEMMA ExecutorTypeOK == ASSUME TypeOK, ExecutorStep PROVE TypeOK'
<1>1. CASE StartTask
    <2>1. Head(queue) \in Tasks /\ queue' \in Seq(Tasks)
        BY <1>1, HeadTailProperties DEF StartTask, TypeOK
    <2>. QED  BY <1>1, <2>1 DEF StartTask, TypeOK, timerVars, uiVars, histVars
<1>2. CASE SyncReturns
    BY <1>2, ReturnTypeOK DEF SyncReturns, TypeOK, Tasks
<1>3. CASE ConnectReturns
    BY <1>3, ReturnTypeOK DEF ConnectReturns, TypeOK, Tasks
<1>. QED  BY <1>1, <1>2, <1>3 DEF ExecutorStep

LEMMA NextTypeOK == TypeOK /\ [Next]_vars => TypeOK'
<1>. SUFFICES ASSUME TypeOK, [Next]_vars PROVE TypeOK'
    OBVIOUS
<1>1. CASE UNCHANGED vars
    BY <1>1 DEF vars, TypeOK
<1>. QED
    BY <1>1, TimerTypeOK, UserTypeOK, CancelTypeOK, FinishTypeOK, ExecutorTypeOK DEF Next

\* Whatever the timers, the executor and the UI do, every variable keeps its type; a
\* task is posted, queued and cancelled as what it is.
THEOREM PollingTypeCorrect == Spec => []TypeOK
BY InitTypeOK, NextTypeOK, PTL DEF Spec
-----------------------------------------------------------------------------
(* The queues.  What the executor and the looper hold is there once, in the  *)
(* state its place says; an object that nothing holds may be named again.    *)

\* A task that was cancelled before it started, and was posted for it.
Waits(t) == t \in cancelled /\ status[t] \in {"created", "queued"}

QueueInv ==
    /\ \A t \in cancelled : Unresolved(t)
    /\ worker # None => status[worker] = "running"
    /\ \A i \in 1 .. Len(queue) : status[queue[i]] \in {"queued", "finished"}
    /\ Injective(queue)
    /\ \A i \in 1 .. Len(uiQueue) : status[uiQueue[i]] = "posted" \/ Waits(uiQueue[i])
    /\ Injective(uiQueue)

\* The connect that waits for cancelSyncServerStatus to return is a new object.
NextConnectInv ==
    uiPc \notin {"idle", "dead"} /\ uiThen \in Connects =>
        /\ status[uiThen] \in {"new", "finished"}
        /\ \A i \in 1 .. Len(queue) : queue[i] # uiThen

TaskInv == QueueInv /\ NextConnectInv

LEMMA InitTaskInv == Init => TaskInv
BY DEF Init, TaskInv, QueueInv, NextConnectInv, Injective

LEMMA TaskFrame ==
    ASSUME TaskInv, UNCHANGED <<status, cancelled, queue, worker, uiQueue>>,
           \/ uiThen' = uiThen /\ (uiPc' \in {"idle", "dead"} \/ uiPc \notin {"idle", "dead"})
           \/ uiThen' \notin Connects
           \/ UNCHANGED <<uiPc, uiThen>>
    PROVE  TaskInv'
BY DEF TaskInv, QueueInv, NextConnectInv, Waits, Unresolved

LEMMA NotQueued ==
    ASSUME TypeOK, NEW t, t \notin Range(queue)
    PROVE  \A i \in 1 .. Len(queue) : queue[i] # t
<1>1. DOMAIN queue = 1 .. Len(queue)
    BY LenProperties DEF TypeOK
<1>. QED  BY <1>1 DEF Range

\* cancel(true) posts what is neither posted nor running.
LEMMA CancelAllQueueInv ==
    ASSUME TypeOK, QueueInv, NEW S, IsFiniteSet(S), S \subseteq Tasks, CancelAll(S),
           UNCHANGED <<status, queue, worker>>
    PROVE  QueueInv'
<1>. DEFINE P == Posted(S)
<1>1. /\ P \in Seq(Tasks) /\ Injective(P)
      /\ \A i \in 1 .. Len(P) : P[i] \in ToPost(S)
    BY PostedIsSeq
<1>2. uiQueue \in Seq(Tasks) /\ uiQueue' = uiQueue \o P /\ cancelled \subseteq cancelled'
    BY DEF TypeOK, CancelAll
<1>3. \A t \in ToPost(S) : t \in S /\ t \notin cancelled /\ Waits(t)'
    BY DEF ToPost, CancelAll, Waits, Unresolved
<1>. HIDE DEF P
<1>4. /\ Len(uiQueue') = Len(uiQueue) + Len(P) /\ Len(uiQueue) \in Nat /\ Len(P) \in Nat
      /\ \A i \in 1 .. Len(uiQueue') :
            \/ i \in 1 .. Len(uiQueue) /\ uiQueue'[i] = uiQueue[i]
            \/ i - Len(uiQueue) \in 1 .. Len(P) /\ uiQueue'[i] = P[i - Len(uiQueue)]
    BY <1>1, <1>2, ConcatProperties, LenProperties
<1>5. \A i \in 1 .. Len(uiQueue) : status[uiQueue[i]] = "posted" \/ uiQueue[i] \in cancelled
    BY DEF QueueInv, Waits
<1>6. \A i \in 1 .. Len(uiQueue') : (status[uiQueue[i]] = "posted" \/ Waits(uiQueue[i]))'
    <2>. SUFFICES ASSUME NEW i \in 1 .. Len(uiQueue')
                  PROVE  (status[uiQueue[i]] = "posted" \/ Waits(uiQueue[i]))'
        OBVIOUS
    <2>1. CASE i \in 1 .. Len(uiQueue) /\ uiQueue'[i] = uiQueue[i]
        BY <1>2, <2>1 DEF QueueInv, Waits
    <2>2. CASE i - Len(uiQueue) \in 1 .. Len(P) /\ uiQueue'[i] = P[i - Len(uiQueue)]
        BY <1>1, <1>3, <2>2 DEF Waits
    <2>. QED  BY <1>4, <2>1, <2>2
<1>7. Injective(uiQueue')
    <2>. SUFFICES ASSUME NEW i \in 1 .. Len(uiQueue'), NEW j \in 1 .. Len(uiQueue'),
                         uiQueue'[i] = uiQueue'[j]
                  PROVE  i = j
        BY DEF Injective
    <2>1. \A k \in 1 .. Len(P) : status[P[k]] # "posted" /\ P[k] \notin cancelled
        BY <1>1 DEF ToPost
    <2>2. i \in Nat /\ j \in Nat
        BY <1>4
    <2>3. CASE i \in 1 .. Len(uiQueue) /\ j \in 1 .. Len(uiQueue)
        BY <1>4, <2>2, <2>3 DEF QueueInv, Injective
    <2>4. CASE i \notin 1 .. Len(uiQueue) /\ j \notin 1 .. Len(uiQueue)
        <3>1. i - Len(uiQueue) = j - Len(uiQueue)
            BY <1>1, <1>4, <2>4 DEF Injective
        <3>. QED  BY <1>4, <2>2, <3>1
    <2>5. CASE ~(i \in 1 .. Len(uiQueue) <=> j \in 1 .. Len(uiQueue))
        BY <1>4, <1>5, <2>1, <2>5
    <2>. QED  BY <2>3, <2>4, <2>5
<1>. QED  BY <1>6, <1>7 DEF QueueInv, CancelAll, Unresolved
\* A task whose place in the queues says nothing against it moves on.
LEMMA MoveInv ==
    ASSUME TypeOK, TaskInv, NEW t \in Tasks, NEW st, status' = [status EXCEPT ![t] = st],
           t # worker, \A i \in 1 .. Len(queue) : queue[i] # t,
           \/ t \notin cancelled /\ \A i \in 1 .. Len(uiQueue) : uiQueue[i] # t
           \/ status[t] = "created" /\ st = "queued",
           UNCHANGED <<cancelled, worker, uiQueue>>
    PROVE  /\ \A u \in cancelled' : Unresolved(u)'
           /\ worker' # None => status'[worker'] = "running"
           /\ \A i \in 1 .. Len(queue) : status'[queue[i]] \in {"queued", "finished"}
           /\ \A i \in 1 .. Len(uiQueue') : (status[uiQueue[i]] = "posted" \/ Waits(uiQueue[i]))'
           /\ Injective(uiQueue')
<1>. USE DEF TaskInv, QueueInv, TypeOK
<1>1. \A u \in Tasks : u # t => status'[u] = status[u]
    OBVIOUS
<1>2. status'[t] = st
    OBVIOUS
<1>3. \A u \in cancelled' : Unresolved(u)'
    BY <1>1, <1>2 DEF Unresolved
<1>4. worker' # None => status'[worker'] = "running"
    BY <1>1
<1>5. \A i \in 1 .. Len(queue) : queue[i] \in Tasks
    BY ElementOfSeq
<1>6. \A i \in 1 .. Len(queue) : status'[queue[i]] \in {"queued", "finished"}
    BY <1>1, <1>5
<1>7. \A i \in 1 .. Len(uiQueue) : uiQueue[i] \in Tasks
    BY ElementOfSeq
<1>8. \A i \in 1 .. Len(uiQueue') : (status[uiQueue[i]] = "posted" \/ Waits(uiQueue[i]))'
    BY <1>1, <1>2, <1>7 DEF Waits
<1>. QED  BY <1>3, <1>4, <1>6, <1>8

LEMMA AppendOnce ==
    ASSUME TypeOK, NEW t \in Tasks, Injective(queue), \A i \in 1 .. Len(queue) : queue[i] # t,
           queue' = Append(queue, t)
    PROVE  /\ Injective(queue')
           /\ \A i \in 1 .. Len(queue') : queue'[i] = t \/ (i \in 1 .. Len(queue) /\ queue'[i] = queue[i])
<1>1. /\ Len(queue') = Len(queue) + 1 /\ Len(queue) \in Nat /\ queue'[Len(queue) + 1] = t
      /\ \A i \in 1 .. Len(queue) : queue'[i] = queue[i]
    BY AppendProperties, LenProperties DEF TypeOK
<1>. QED  BY <1>1 DEF Injective

LEMMA TimerTaskInv ==
    ASSUME TypeOK, TaskInv, NEW t \in Timers, TimerStep(t)
    PROVE  TaskInv'
<1>1. CASE RunBegins(t) \/ TestNull(t) \/ TestFinished(t) \/ ResetTask(t) \/ RunThrows(t)
    BY <1>1, TaskFrame
    DEF RunBegins, TestNull, TestFinished, ResetTask, RunThrows, Crash, taskVars, execVars, uiVars
<1>2. CASE CreateTask(t)
    <2>1. PICK s \in Syncs : Fresh(s) /\ status' = [status EXCEPT ![s] = "created"]
        BY <1>2 DEF CreateTask
    <2>2. UNCHANGED <<cancelled, queue, worker, uiQueue, uiPc, uiThen>> /\ s \in Tasks /\ s \notin Connects
        BY <1>2, StatusPollingAssumption DEF CreateTask, execVars, uiVars, Tasks
    <2>3. \A i \in 1 .. Len(queue) : queue[i] # s
        BY <2>1, NotQueued DEF Fresh
    <2>4. s # worker /\ s \notin cancelled /\ \A i \in 1 .. Len(uiQueue) : uiQueue[i] # s
        BY <2>1, <2>2, StatusPollingAssumption DEF Fresh, TaskInv, QueueInv, Waits, Unresolved
    <2>5. QueueInv'
        BY <2>1, <2>2, <2>3, <2>4, MoveInv DEF TaskInv, QueueInv
    <2>6. NextConnectInv'
        BY <2>1, <2>2, StatusPollingAssumption DEF TaskInv, NextConnectInv, TypeOK, Tasks
    <2>. QED  BY <2>5, <2>6 DEF TaskInv
<1>3. CASE ExecuteTask(t)
    <2>. DEFINE s == syncTask
    <2>1. /\ s \in Tasks /\ s \notin Connects /\ status[s] = "created"
          /\ status' = [status EXCEPT ![s] = "queued"] /\ queue' = Append(queue, s)
          /\ UNCHANGED <<cancelled, worker, uiQueue, uiPc, uiThen>>
        BY <1>3, StatusPollingAssumption DEF ExecuteTask, TypeOK, Tasks, uiVars
    <2>2. s # worker /\ \A i \in 1 .. Len(queue) : queue[i] # s
        BY <2>1, StatusPollingAssumption DEF TaskInv, QueueInv
    <2>. HIDE DEF s
    <2>3. /\ Injective(queue')
          /\ \A i \in 1 .. Len(queue') : queue'[i] = s \/ (i \in 1 .. Len(queue) /\ queue'[i] = queue[i])
        BY <2>1, <2>2, AppendOnce DEF TaskInv, QueueInv
    <2>4. /\ \A u \in cancelled' : Unresolved(u)'
          /\ worker' # None => status'[worker'] = "running"
          /\ \A i \in 1 .. Len(queue) : status'[queue[i]] \in {"queued", "finished"}
          /\ \A i \in 1 .. Len(uiQueue') : (status[uiQueue[i]] = "posted" \/ Waits(uiQueue[i]))'
          /\ Injective(uiQueue')
        BY <2>1, <2>2, MoveInv
    <2>5. status'[s] = "queued"
        BY <2>1 DEF TypeOK
    <2>6. QueueInv'
        BY <2>3, <2>4, <2>5 DEF QueueInv
    <2>7. NextConnectInv'
        BY <2>1, <2>3 DEF TaskInv, NextConnectInv, TypeOK, Tasks
    <2>. QED  BY <2>6, <2>7 DEF TaskInv
<1>. QED  BY <1>1, <1>2, <1>3 DEF TimerStep

LEMMA UserTaskInv == ASSUME TypeOK, TaskInv, UserAction PROVE TaskInv'
<1>1. CASE PausePolling \/ UserDisconnect
    BY <1>1, TaskFrame, StatusPollingAssumption
    DEF PausePolling, UserDisconnect, EnterCancel, taskVars, execVars
<1>2. CASE ResumePolling
    BY <1>2, TaskFrame DEF ResumePolling, taskVars, execVars, uiVars
<1>3. ASSUME NEW k \in Connects, UserConnect(k) PROVE TaskInv'
    <2>1. QueueInv'
        BY <1>3, CancelAllQueueInv, StatusPollingAssumption DEF UserConnect, execVars, Tasks, TaskInv
    <2>2. \A i \in 1 .. Len(queue) : queue[i] # k
        BY <1>3, NotQueued DEF UserConnect, Fresh
    <2>. QED  BY <1>3, <2>1, <2>2 DEF UserConnect, execVars, EnterCancel, Fresh, NextConnectInv, TaskInv
<1>. QED  BY <1>1, <1>2, <1>3 DEF UserAction

LEMMA CancelTaskInv == ASSUME TypeOK, TaskInv, CancelStep PROVE TaskInv'
<1>1. CASE CancelTimer \/ CancelTestsTask \/ CancelThrows \/ CancelForgets
    BY <1>1, TaskFrame
    DEF CancelTimer, CancelTestsTask, CancelThrows, CancelForgets, Crash, taskVars, execVars
<1>2. CASE CancelTask
    <2>1. IsFiniteSet({syncTask}) /\ {syncTask} \subseteq Tasks
        BY <1>2, FS_Singleton DEF CancelTask, TypeOK, Tasks
    <2>2. QueueInv'
        BY <1>2, <2>1, CancelAllQueueInv DEF CancelTask, execVars, TaskInv
    <2>. QED  BY <1>2, <2>2 DEF CancelTask, execVars, NextConnectInv, TaskInv
<1>3. CASE AfterCancel
    <2>1. CASE uiThen = "view" /\ CancelAll(Connects) /\ EnterCancel("disconnect")
               /\ UNCHANGED <<status, queue>>
        <3>1. QueueInv'
            BY <1>3, <2>1, CancelAllQueueInv, StatusPollingAssumption DEF AfterCancel, Tasks, TaskInv
        <3>. QED  BY <2>1, <3>1, StatusPollingAssumption DEF EnterCancel, NextConnectInv, TaskInv
    <2>2. CASE UNCHANGED <<taskVars, queue, uiQueue>> /\ uiPc' = "idle"
        BY <1>3, <2>2 DEF AfterCancel, taskVars, TaskInv, QueueInv, NextConnectInv, Waits, Unresolved
    <2>3. CASE /\ uiThen \in Connects /\ uiPc' = "idle"
               /\ status' = [status EXCEPT ![uiThen] = "queued"] /\ queue' = Append(queue, uiThen)
               /\ UNCHANGED <<cancelled, uiQueue>>
        <3>1. /\ uiThen \in Tasks /\ status[uiThen] \in {"new", "finished"}
              /\ \A i \in 1 .. Len(queue) : queue[i] # uiThen
            BY <1>3, <2>3 DEF AfterCancel, Tasks, TaskInv, NextConnectInv
        <3>2. uiThen # worker /\ uiThen \notin cancelled /\ \A i \in 1 .. Len(uiQueue) : uiQueue[i] # uiThen
            BY <3>1, StatusPollingAssumption DEF TaskInv, QueueInv, Waits, Unresolved
        <3>3. /\ Injective(queue')
              /\ \A i \in 1 .. Len(queue') :
                    queue'[i] = uiThen \/ (i \in 1 .. Len(queue) /\ queue'[i] = queue[i])
            BY <2>3, <3>1, AppendOnce DEF TaskInv, QueueInv
        <3>4. worker' = worker
            BY <1>3 DEF AfterCancel
        <3>5. /\ \A u \in cancelled' : Unresolved(u)'
              /\ worker' # None => status'[worker'] = "running"
              /\ \A i \in 1 .. Len(queue) : status'[queue[i]] \in {"queued", "finished"}
              /\ \A i \in 1 .. Len(uiQueue') : (status[uiQueue[i]] = "posted" \/ Waits(uiQueue[i]))'
              /\ Injective(uiQueue')
            BY <2>3, <3>1, <3>2, <3>4, MoveInv
        <3>6. status'[uiThen] = "queued"
            BY <2>3, <3>1 DEF TypeOK
        <3>. QED  BY <2>3, <3>3, <3>5, <3>6 DEF TaskInv, QueueInv, NextConnectInv
    <2>. QED  BY <1>3, <2>1, <2>2, <2>3 DEF AfterCancel, taskVars
<1>. QED  BY <1>1, <1>2, <1>3 DEF CancelStep
\* What a queue loses at its head it holds no more.
LEMMA TailOnce ==
    ASSUME NEW q \in Seq(Tasks), q # <<>>, Injective(q)
    PROVE  /\ Head(q) \in Tasks /\ Head(q) = q[1] /\ 1 \in 1 .. Len(q)
           /\ Injective(Tail(q))
           /\ \A i \in 1 .. Len(Tail(q)) :
                /\ i + 1 \in 1 .. Len(q) /\ Tail(q)[i] = q[i + 1]
                /\ Tail(q)[i] # Head(q) /\ Tail(q)[i] \in Tasks
<1>1. /\ Tail(q) \in Seq(Tasks) /\ Len(Tail(q)) = Len(q) - 1 /\ Head(q) \in Tasks
      /\ \A i \in 1 .. Len(Tail(q)) : Tail(q)[i] = q[i + 1]
    BY HeadTailProperties
<1>2. Len(q) \in Nat \ {0} /\ Head(q) = q[1]
    BY EmptySeq
<1>3. 1 \in 1 .. Len(q) /\ \A i \in 1 .. Len(Tail(q)) : i \in Nat /\ i + 1 \in 1 .. Len(q) /\ i + 1 # 1
    BY <1>1, <1>2
<1>4. \A i \in 1 .. Len(Tail(q)) : Tail(q)[i] # Head(q)
    BY <1>1, <1>2, <1>3 DEF Injective
<1>5. \A i \in 1 .. Len(Tail(q)) : Tail(q)[i] \in Tasks
    BY <1>1, ElementOfSeq
<1>6. Injective(Tail(q))
    <2>. SUFFICES ASSUME NEW i \in 1 .. Len(Tail(q)), NEW j \in 1 .. Len(Tail(q)), Tail(q)[i] = Tail(q)[j]
                  PROVE  i = j
        BY DEF Injective
    <2>1. i + 1 = j + 1
        BY <1>1, <1>3 DEF Injective
    <2>. QED  BY <1>3, <2>1
<1>. QED  BY <1>1, <1>2, <1>3, <1>4, <1>5, <1>6

LEMMA FinishTaskInv == ASSUME TypeOK, TaskInv, FinishTask PROVE TaskInv'
<1>. USE DEF TypeOK, TaskInv, QueueInv
<1>. DEFINE t == Head(uiQueue)
<1>1. /\ t \in Tasks /\ t = uiQueue[1] /\ 1 \in 1 .. Len(uiQueue) /\ Injective(Tail(uiQueue))
      /\ \A i \in 1 .. Len(Tail(uiQueue)) :
            /\ i + 1 \in 1 .. Len(uiQueue) /\ Tail(uiQueue)[i] = uiQueue[i + 1]
            /\ Tail(uiQueue)[i] # t /\ Tail(uiQueue)[i] \in Tasks
    BY TailOnce DEF FinishTask
<1>2. status[t] # "running"
    BY <1>1 DEF Waits
<1>. HIDE DEF t
<1>3. /\ status' = [status EXCEPT ![t] = "finished"] /\ cancelled' = cancelled \ {t}
      /\ uiQueue' = Tail(uiQueue) /\ UNCHANGED <<queue, worker>>
    BY DEF FinishTask, execVars, t
<1>4. status'[t] = "finished" /\ \A u \in Tasks : u # t => status'[u] = status[u]
    BY <1>1, <1>3
<1>5. \A u \in cancelled' : Unresolved(u)'
    BY <1>3, <1>4 DEF Unresolved
<1>6. worker' # None => status'[worker'] = "running"
    BY <1>2, <1>3, <1>4
<1>7. \A i \in 1 .. Len(queue') : status'[queue'[i]] \in {"queued", "finished"}
    <2>1. \A i \in 1 .. Len(queue) : queue[i] \in Tasks
        BY ElementOfSeq
    <2>. QED  BY <1>3, <1>4, <2>1
<1>8. \A i \in 1 .. Len(uiQueue') : (status[uiQueue[i]] = "posted" \/ Waits(uiQueue[i]))'
    BY <1>1, <1>3, <1>4 DEF Waits
<1>9. NextConnectInv'
    BY StatusPollingAssumption DEF FinishTask, EnterCancel, uiVars, NextConnectInv
<1>. QED  BY <1>1, <1>3, <1>5, <1>6, <1>7, <1>8, <1>9

LEMMA ReturnTaskInv ==
    ASSUME TypeOK, TaskInv, worker \in Tasks, NEW r, Return(r)
    PROVE  TaskInv'
<1>. USE DEF TypeOK, TaskInv, QueueInv
<1>1. /\ status' = [status EXCEPT ![worker] = "posted"] /\ uiQueue' = Append(uiQueue, worker)
      /\ worker' = None /\ UNCHANGED <<cancelled, queue, uiPc, uiThen>>
    BY DEF Return, uiVars
<1>2. status[worker] = "running"
    BY StatusPollingAssumption
<1>3. status'[worker] = "posted" /\ \A u \in Tasks : u # worker => status'[u] = status[u]
    BY <1>1
<1>4. \A i \in 1 .. Len(uiQueue) : uiQueue[i] # worker /\ uiQueue[i] \in Tasks
    BY <1>2, ElementOfSeq DEF Waits
<1>5. /\ Len(uiQueue') = Len(uiQueue) + 1 /\ Len(uiQueue) \in Nat /\ uiQueue'[Len(uiQueue) + 1] = worker
      /\ \A i \in 1 .. Len(uiQueue) : uiQueue'[i] = uiQueue[i]
    BY <1>1, AppendProperties, LenProperties
<1>6. Injective(uiQueue')
    BY <1>4, <1>5 DEF Injective
<1>7. \A i \in 1 .. Len(uiQueue') : (status[uiQueue[i]] = "posted" \/ Waits(uiQueue[i]))'
    <2>. SUFFICES ASSUME NEW i \in 1 .. Len(uiQueue')
                  PROVE  (status[uiQueue[i]] = "posted" \/ Waits(uiQueue[i]))'
        OBVIOUS
    <2>1. CASE i \in 1 .. Len(uiQueue)
        BY <1>1, <1>3, <1>4, <1>5, <2>1 DEF Waits
    <2>2. CASE i = Len(uiQueue) + 1
        BY <1>3, <1>5, <2>2
    <2>. QED  BY <1>5, <2>1, <2>2
<1>8. \A i \in 1 .. Len(queue') : status'[queue'[i]] \in {"queued", "finished"}
    <2>1. \A i \in 1 .. Len(queue) : queue[i] \in Tasks
        BY ElementOfSeq
    <2>. QED  BY <1>1, <1>2, <1>3, <2>1
<1>9. \A u \in cancelled' : Unresolved(u)'
    BY <1>1, <1>3 DEF Unresolved
<1>10. NextConnectInv'
    BY <1>1, <1>2, <1>3 DEF NextConnectInv, Tasks
<1>. QED  BY <1>1, <1>6, <1>7, <1>8, <1>9, <1>10

LEMMA ExecutorTaskInv == ASSUME TypeOK, TaskInv, ExecutorStep PROVE TaskInv'
<1>1. CASE StartTask
    <2>. USE DEF TypeOK, TaskInv, QueueInv
    <2>. DEFINE t == Head(queue)
    <2>1. /\ t \in Tasks /\ t = queue[1] /\ 1 \in 1 .. Len(queue) /\ Injective(Tail(queue))
          /\ \A i \in 1 .. Len(Tail(queue)) :
                /\ i + 1 \in 1 .. Len(queue) /\ Tail(queue)[i] = queue[i + 1]
                /\ Tail(queue)[i] # t /\ Tail(queue)[i] \in Tasks
        BY <1>1, TailOnce DEF StartTask
    <2>2. /\ queue' = Tail(queue) /\ UNCHANGED <<cancelled, uiQueue, uiPc, uiThen>>
          /\ \/ /\ t \notin cancelled /\ status[t] # "finished"
                /\ worker' = t /\ status' = [status EXCEPT ![t] = "running"]
             \/ UNCHANGED <<worker, status>>
        BY <1>1 DEF StartTask, uiVars
    <2>3. status[t] \in {"queued", "finished"}
        BY <2>1
    <2>. HIDE DEF t
    <2>4. CASE UNCHANGED <<worker, status>>
        BY <2>1, <2>2, <2>4 DEF NextConnectInv, Waits, Unresolved
    <2>5. CASE /\ t \notin cancelled /\ status[t] # "finished"
               /\ worker' = t /\ status' = [status EXCEPT ![t] = "running"]
        <3>1. status'[t] = "running" /\ \A u \in Tasks : u # t => status'[u] = status[u]
            BY <2>1, <2>5
        <3>2. \A u \in cancelled' : Unresolved(u)'
            BY <2>2, <3>1 DEF Unresolved
        <3>3. \A i \in 1 .. Len(queue') : status'[queue'[i]] \in {"queued", "finished"}
            BY <2>1, <2>2, <3>1
        <3>4. \A i \in 1 .. Len(uiQueue') : (status[uiQueue[i]] = "posted" \/ Waits(uiQueue[i]))'
            <4>1. \A i \in 1 .. Len(uiQueue) : uiQueue[i] \in Tasks
                BY ElementOfSeq
            <4>. QED  BY <2>2, <2>3, <2>5, <3>1, <4>1 DEF Waits
        <3>5. NextConnectInv'
            BY <2>1, <2>2, <3>1 DEF NextConnectInv, Tasks
        <3>. QED  BY <2>1, <2>2, <2>5, <3>1, <3>2, <3>3, <3>4, <3>5
    <2>. QED  BY <2>2, <2>4, <2>5
<1>2. CASE SyncReturns
    BY <1>2, ReturnTaskInv DEF SyncReturns, Tasks
<1>3. CASE ConnectReturns
    BY <1>3, ReturnTaskInv DEF ConnectReturns, Tasks
<1>. QED  BY <1>1, <1>2, <1>3 DEF ExecutorStep

LEMMA NextTaskInv == TypeOK /\ TaskInv /\ [Next]_vars => TaskInv'
<1>. SUFFICES ASSUME TypeOK, TaskInv, [Next]_vars PROVE TaskInv'
    OBVIOUS
<1>1. CASE UNCHANGED vars
    BY <1>1, TaskFrame DEF vars
<1>. QED
    BY <1>1, TimerTaskInv, UserTaskInv, CancelTaskInv, FinishTaskInv, ExecutorTaskInv DEF Next
-----------------------------------------------------------------------------
(* The cancellation.  As long as no timer was cancelled during its run, the  *)
(* run of a timer and cancelSyncServerStatus exclude each other, because the *)
(* cancellation has put the timer off first; syncTask is then the run's, and *)
(* afterwards the cancellation's.                                            *)

\* A run is that of the timer in the field, and what it found in syncTask stays.
RunInv ==
    \A t \in Timers :
        /\ run[t] # "wait" => timerSyncStatus = t
        /\ run[t] \in {"status", "reset", "execute"} => syncTask # None
        /\ run[t] = "reset" => status[syncTask] = "finished"
        /\ run[t] = "create" => syncTask = None
        /\ run[t] = "execute" => status[syncTask] = "created" /\ syncTask \notin cancelled

\* The cancellation has the field timerSyncStatus null, and in the end no request.
StopInv ==
    /\ uiPc \in {"test", "cancel", "null", "done"} => timerSyncStatus = None
    /\ uiPc = "cancel" => syncTask # None
    /\ uiPc = "null" => \A s \in Syncs : ~Live(s)
    /\ uiPc \in {"done", "idle"} /\ timerSyncStatus = None => syncTask = None

CleanInv ==
    ~overlap => /\ ~Crashed /\ RunInv /\ StopInv
                /\ \A s \in Syncs : Live(s) => syncTask = s

LEMMA InitCleanInv == Init => CleanInv
BY DEF Init, CleanInv, RunInv, StopInv, Crashed, Live, Unresolved, Tasks

LEMMA TimerCleanInv ==
    ASSUME TypeOK, TaskInv, TimerInv, CleanInv, NEW t \in Timers, TimerStep(t)
    PROVE  CleanInv'
<1>. SUFFICES ASSUME ~overlap' PROVE CleanInv'
    BY DEF CleanInv
<1>1. ~overlap /\ ~RunThrows(t)
    <2>1. ~overlap
        BY DEF TimerStep, RunBegins, TestNull, TestFinished, ResetTask, CreateTask, ExecuteTask,
               RunThrows, Crash, histVars
    <2>2. ~(run[t] \in {"status", "execute"} /\ syncTask = None) /\ ~(run[t] = "execute" /\ status[syncTask] # "created")
        BY <2>1 DEF CleanInv, RunInv
    <2>. QED  BY <2>1, <2>2 DEF RunThrows
<1>2. timerSyncStatus = t
    BY <1>1 DEF TimerStep, RunBegins, TestNull, TestFinished, ResetTask, CreateTask, ExecuteTask,
                CleanInv, RunInv, TimerInv, OneTimerFires
<1>3. t # None /\ \A u \in Timers : u # t => run[u] = "wait"
    BY <1>1, <1>2, StatusPollingAssumption DEF CleanInv, RunInv
<1>4. /\ UNCHANGED <<timerSyncStatus, uiPc, uiThen, cancelled>>
      /\ ~Crashed /\ \A u \in Timers : u # t => run'[u] = run[u]
    BY <1>1 DEF TimerStep, RunBegins, TestNull, TestFinished, ResetTask, CreateTask, ExecuteTask,
                TypeOK, taskVars, uiVars, timerVars
<1>5. StopInv'
    BY <1>1, <1>2, <1>3, <1>4 DEF CleanInv, StopInv
<1>6. SUFFICES /\ \A s \in Syncs : Live(s)' => syncTask' = s
               /\ run'[t] \in {"status", "reset", "execute"} => syncTask' # None
               /\ run'[t] = "reset" => status'[syncTask'] = "finished"
               /\ run'[t] = "create" => syncTask' = None
               /\ run'[t] = "execute" => status'[syncTask'] = "created" /\ syncTask' \notin cancelled'
    BY <1>2, <1>3, <1>4, <1>5 DEF CleanInv, RunInv, Crashed
<1>. USE DEF TypeOK, CleanInv
<1>7. CASE RunBegins(t) \/ TestNull(t) \/ TestFinished(t)
    BY <1>1, <1>7 DEF RunBegins, TestNull, TestFinished, SkipsPeriod, Live, Unresolved, taskVars
<1>8. CASE ResetTask(t)
    BY <1>1, <1>8 DEF ResetTask, RunInv, Live, Unresolved, taskVars
<1>9. CASE CreateTask(t)
    <2>1. PICK s \in Syncs : Fresh(s) /\ syncTask' = s /\ status' = [status EXCEPT ![s] = "created"]
        BY <1>9 DEF CreateTask
    <2>2. s \in Tasks /\ s # None /\ s \notin cancelled
        BY <2>1, StatusPollingAssumption DEF Fresh, TaskInv, QueueInv, Unresolved, Tasks
    <2>3. syncTask = None /\ run'[t] = "execute"
        BY <1>1, <1>9 DEF CreateTask, RunInv
    <2>4. \A u \in Syncs : Live(u)' => u = s
        BY <1>1, <1>4, <2>1, <2>3, StatusPollingAssumption DEF Live, Unresolved, Tasks
    <2>. QED  BY <1>4, <2>1, <2>2, <2>3, <2>4
<1>10. CASE ExecuteTask(t)
    BY <1>1, <1>4, <1>10 DEF ExecuteTask, Live, Unresolved, Tasks
<1>. QED  BY <1>1, <1>7, <1>8, <1>9, <1>10 DEF TimerStep

LEMMA UserCleanInv ==
    ASSUME TypeOK, TimerInv, CleanInv, UserAction
    PROVE  CleanInv'
<1>. SUFFICES ASSUME ~overlap' PROVE CleanInv'
    BY DEF CleanInv
<1>1. ~overlap
    BY DEF UserAction, PausePolling, ResumePolling, UserDisconnect, UserConnect, histVars
<1>2. CASE PausePolling \/ UserDisconnect
    BY <1>1, <1>2 DEF PausePolling, UserDisconnect, EnterCancel, CleanInv, RunInv, StopInv, Crashed, Live,
       Unresolved, taskVars, timerVars
<1>3. CASE ResumePolling
    <2>1. /\ UNCHANGED <<run, syncTask, status, cancelled>> /\ uiPc = "idle" /\ uiPc' = "idle"
          /\ \/ timerSyncStatus # None /\ timerSyncStatus' = timerSyncStatus
             \/ timerSyncStatus = None /\ timerSyncStatus' \in Timers
        BY <1>3 DEF ResumePolling, StartTimer, taskVars, uiVars
    <2>2. None \notin Timers
        BY StatusPollingAssumption
    <2>. QED  BY <1>1, <2>1, <2>2 DEF CleanInv, RunInv, StopInv, Crashed, Live, Unresolved
<1>4. ASSUME NEW k \in Connects, UserConnect(k) PROVE CleanInv'
    <2>1. /\ UNCHANGED <<timerSyncStatus, run, syncTask, status>> /\ uiPc' = "timer"
          /\ cancelled \subseteq cancelled' /\ cancelled' \subseteq cancelled \cup Connects
        BY <1>4 DEF UserConnect, CancelAll, EnterCancel, timerVars
    <2>2. \A s \in Syncs : s \notin Connects
        BY StatusPollingAssumption
    <2>. QED  BY <1>1, <2>1, <2>2 DEF CleanInv, RunInv, StopInv, Crashed, Live, Unresolved, TypeOK
<1>. QED  BY <1>2, <1>3, <1>4 DEF UserAction

LEMMA CancelCleanInv ==
    ASSUME TypeOK, TimerInv, CleanInv, CancelStep
    PROVE  CleanInv'
<1>. SUFFICES ASSUME ~overlap' PROVE CleanInv'
    BY DEF CleanInv
<1>1. ~overlap
    BY DEF CancelStep, CancelTimer, CancelTestsTask, CancelTask, CancelThrows, CancelForgets, AfterCancel,
           Crash, histVars
<1>2. None \notin Timers /\ \A s \in Syncs : s \notin Connects /\ s \in Tasks
    BY StatusPollingAssumption DEF Tasks
<1>. USE DEF CleanInv, StopInv, Crashed
<1>3. CASE CancelTimer
    <2>1. /\ UNCHANGED <<syncTask, run, status, cancelled>> /\ uiPc' = "test" /\ timerSyncStatus' = None
          /\ timerSyncStatus # None => run[timerSyncStatus] = "wait"
        BY <1>3 DEF CancelTimer, taskVars
    <2>2. \A t \in Timers : run[t] = "wait"
        BY <1>1, <1>2, <2>1 DEF RunInv
    <2>. QED  BY <1>1, <2>1, <2>2 DEF RunInv, Live, Unresolved
<1>4. CASE CancelTestsTask
    BY <1>1, <1>4 DEF CancelTestsTask, RunInv, Live, Unresolved, taskVars, timerVars
<1>5. CASE CancelTask
    <2>1. /\ UNCHANGED <<syncTask, run, status, timerSyncStatus>> /\ uiPc = "cancel" /\ uiPc' = "null"
          /\ cancelled' = cancelled \cup {t \in {syncTask} : Unresolved(t)}
        BY <1>5 DEF CancelTask, CancelAll, timerVars
    <2>2. \A s \in Syncs : ~Live(s)'
        BY <1>1, <2>1 DEF Live, Unresolved
    <2>3. timerSyncStatus = None /\ \A t \in Timers : run[t] = "wait"
        BY <1>1, <1>2, <2>1 DEF RunInv
    <2>. QED  BY <2>1, <2>2, <2>3 DEF RunInv
<1>6. CASE CancelThrows
    BY <1>1, <1>6 DEF CancelThrows
<1>7. CASE CancelForgets
    <2>1. /\ UNCHANGED <<run, status, timerSyncStatus, cancelled>> /\ uiPc = "null" /\ uiPc' = "done"
          /\ syncTask' = None
        BY <1>7 DEF CancelForgets, taskVars, timerVars
    <2>2. timerSyncStatus = None /\ \A t \in Timers : run[t] = "wait"
        BY <1>1, <1>2, <2>1 DEF RunInv
    <2>. QED  BY <1>1, <2>1, <2>2 DEF RunInv, Live, Unresolved
<1>8. CASE AfterCancel
    <2>1. /\ UNCHANGED <<syncTask, run, timerSyncStatus>> /\ uiPc = "done" /\ uiPc' \in {"timer", "idle"}
          /\ cancelled \subseteq cancelled'
          /\ status' = status \/ \E k \in Connects : status' = [status EXCEPT ![k] = "queued"]
        BY <1>8 DEF AfterCancel, timerVars, taskVars, EnterCancel, CancelAll
    <2>2. timerSyncStatus = None /\ \A t \in Timers : run[t] = "wait"
        BY <1>1, <1>2, <2>1 DEF RunInv
    <2>3. \A s \in Syncs : status'[s] = status[s]
        BY <1>2, <2>1 DEF TypeOK
    <2>. QED  BY <1>1, <2>1, <2>2, <2>3 DEF RunInv, Live, Unresolved
<1>. QED  BY <1>3, <1>4, <1>5, <1>6, <1>7, <1>8 DEF CancelStep
\* A result that is delivered resolves its task, and may start or stop the polling.
LEMMA FinishCleanInv ==
    ASSUME TypeOK, TaskInv, TimerInv, CleanInv, FinishTask
    PROVE  CleanInv'
<1>. SUFFICES ASSUME ~overlap' PROVE CleanInv'
    BY DEF CleanInv
<1>. DEFINE t == Head(uiQueue)
<1>1. t \in Tasks /\ (status[t] = "posted" \/ Waits(t))
    <2>1. t = uiQueue[1] /\ 1 \in 1 .. Len(uiQueue) /\ t \in Tasks
        BY TailOnce DEF FinishTask, TypeOK, TaskInv, QueueInv
    <2>. QED  BY <2>1 DEF TaskInv, QueueInv
<1>. HIDE DEF t
<1>2. /\ status' = [status EXCEPT ![t] = "finished"] /\ cancelled' = cancelled \ {t}
      /\ UNCHANGED <<syncTask, run, overlap>> /\ uiPc = "idle"
      /\ \/ uiPc' = "timer" /\ timerSyncStatus' = timerSyncStatus
         \/ uiPc' = "idle" /\ StartTimer
         \/ uiPc' = "idle" /\ timerSyncStatus' = timerSyncStatus
    BY DEF FinishTask, EnterCancel, uiVars, t
<1>3. status'[t] = "finished" /\ \A u \in Tasks : u # t => status'[u] = status[u]
    BY <1>1, <1>2 DEF TypeOK
<1>4. None \notin Timers /\ None \notin Tasks /\ Syncs \subseteq Tasks
    BY StatusPollingAssumption DEF Tasks
<1>5. \A s \in Syncs : Live(s)' => Live(s)
    BY <1>2, <1>3, <1>4 DEF Live, Unresolved
<1>6. \/ timerSyncStatus' = timerSyncStatus
      \/ /\ timerSyncStatus = None /\ timerSyncStatus' \in Timers
         /\ \A u \in Timers : run[u] = "wait"
    <2>1. timerSyncStatus = None => \A u \in Timers : run[u] = "wait"
        BY <1>2, <1>4 DEF CleanInv, RunInv
    <2>. QED  BY <1>2, <2>1 DEF StartTimer
<1>7. /\ syncTask # None /\ status[syncTask] = "finished" => status'[syncTask] = "finished"
      /\ syncTask # None /\ status[syncTask] = "created" /\ syncTask \notin cancelled =>
            status'[syncTask] = "created" /\ syncTask \notin cancelled'
    BY <1>1, <1>2, <1>3, <1>4 DEF Waits, TypeOK
<1>8. RunInv'
    BY <1>2, <1>6, <1>7 DEF CleanInv, RunInv
<1>9. StopInv'
    BY <1>2, <1>4, <1>6 DEF CleanInv, StopInv
<1>. QED  BY <1>2, <1>5, <1>8, <1>9 DEF CleanInv, Crashed

LEMMA ExecutorCleanInv ==
    ASSUME TypeOK, TaskInv, CleanInv, ExecutorStep
    PROVE  CleanInv'
<1>. SUFFICES ASSUME ~overlap' PROVE CleanInv'
    BY DEF CleanInv
<1>1. /\ UNCHANGED <<syncTask, run, timerSyncStatus, overlap, uiPc, cancelled>>
      /\ \/ UNCHANGED status
         \/ \E t \in Tasks, st \in {"running", "posted"} :
               status[t] \in {"queued", "running"} /\ status' = [status EXCEPT ![t] = st]
    <2>1. CASE StartTask
        <3>1. Head(queue) \in Tasks /\ status[Head(queue)] \in {"queued", "finished"}
            <4>1. /\ Head(queue) = queue[1] /\ 1 \in 1 .. Len(queue) /\ Head(queue) \in Tasks
                BY <2>1, TailOnce DEF StartTask, TypeOK, TaskInv, QueueInv
            <4>. QED  BY <4>1 DEF TaskInv, QueueInv
        <3>. QED  BY <2>1, <3>1 DEF StartTask, timerVars, uiVars, histVars
    <2>2. ASSUME worker \in Tasks, NEW r, Return(r)
          PROVE  /\ UNCHANGED <<syncTask, run, timerSyncStatus, overlap, uiPc, cancelled>>
                 /\ status[worker] = "running" /\ status' = [status EXCEPT ![worker] = "posted"]
        BY <2>2, StatusPollingAssumption DEF Return, timerVars, uiVars, histVars, TaskInv, QueueInv
    <2>3. CASE SyncReturns \/ ConnectReturns
        BY <2>2, <2>3 DEF SyncReturns, ConnectReturns, Tasks
    <2>. QED  BY <2>1, <2>3 DEF ExecutorStep
<1>2. \A s \in Tasks : /\ Unresolved(s)' => Unresolved(s)
                       /\ status[s] \in {"finished", "created"} => status'[s] = status[s]
    BY <1>1 DEF Unresolved, TypeOK
<1>3. Syncs \subseteq Tasks
    BY DEF Tasks
<1>4. \A s \in Syncs : Live(s)' => Live(s)
    BY <1>1, <1>2, <1>3 DEF Live
<1>5. RunInv'
    BY <1>1, <1>2, <1>3 DEF CleanInv, RunInv, TypeOK
<1>6. StopInv'
    BY <1>1, <1>4 DEF CleanInv, StopInv
<1>. QED  BY <1>1, <1>4, <1>5, <1>6 DEF CleanInv, Crashed

LEMMA NextCleanInv == TypeOK /\ TaskInv /\ TimerInv /\ CleanInv /\ [Next]_vars => CleanInv'
<1>. SUFFICES ASSUME TypeOK, TaskInv, TimerInv, CleanInv, [Next]_vars PROVE CleanInv'
    OBVIOUS
<1>1. CASE UNCHANGED vars
    BY <1>1 DEF vars, CleanInv, RunInv, StopInv, Crashed, Live, Unresolved
<1>. QED
    BY <1>1, TimerCleanInv, UserCleanInv, CancelCleanInv, FinishCleanInv, ExecutorCleanInv DEF Next

\* A cancellation that met no run of its timer is complete: no request outlives it, none
\* but the field's can call back, and nobody meets a null syncTask, for any number of
\* timers, requests and connects.
THEOREM CancelIsComplete == Spec => []CleanCancelIsComplete
<1>1. CleanInv => CleanCancelIsComplete
    BY StatusPollingAssumption DEF CleanInv, StopInv, CleanCancelIsComplete, Tasks
<1>. QED
    BY InitTypeOK, InitTaskInv, InitTimerInv, InitCleanInv, NextTypeOK, NextTaskInv, NextTimerInv,
       NextCleanInv, <1>1, PTL DEF Spec
=============================================================================
