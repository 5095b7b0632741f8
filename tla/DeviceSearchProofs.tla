------------------------- MODULE DeviceSearchProofs -------------------------
(***************************************************************************)
(* Proofs about DeviceSearch, for any boxes, any number of timer threads,  *)
(* with and without PingTask, and queues of any length.                    *)
(***************************************************************************)
EXTENDS DeviceSearch, TLAPS

\* TypeOK in four parts, so that a step is asked only about what it changes.
FlagsTyped ==
    /\ isScanning \in BOOLEAN /\ flagAllowConnect \in BOOLEAN /\ serverStatus \in BOOLEAN
    /\ intWifiRemote \in {"SONCA", "KARTROL"}
    /\ visible \in BOOLEAN /\ autoConnect \in BOOLEAN /\ enableConnectDevice \in BOOLEAN
    /\ confirmed \in BOOLEAN
    /\ crashed \in BOOLEAN /\ fruitless \in BOOLEAN /\ refreshed \in BOOLEAN

BoxesTyped ==
    /\ connectedServer \in Servers
    /\ listDeviceCurrent \subseteq Servers /\ deviceStote \subseteq Servers /\ lastIP \in Servers
    /\ clientSocket \in Servers /\ session \in Servers /\ chosen \in Servers

ExecTyped ==
    /\ queue \in Seq(Tasks) /\ running \in Tasks
    /\ pc \in {"idle", "bind", "receive", "last", "current", "test", "get", "ping", "read",
               "call", "connect"}
    /\ target \in Servers /\ index \in Nat /\ found \subseteq Boxes
    /\ uiQueue \in Seq(Messages)

ThreadsTyped ==
    /\ kartrolTimer \in [Timers -> [pc : {"idle", "ping", "disconnect", "connect", "set"},
                                    box : Servers]]
    /\ pingTask \in [pc : {"idle", "ping", "set", "disconnect", "start"}, box : Servers]

LEMMA Parts ==
    /\ TypeOK <=> FlagsTyped /\ BoxesTyped /\ ExecTyped /\ ThreadsTyped
    /\ TypeOK' <=> FlagsTyped' /\ BoxesTyped' /\ ExecTyped' /\ ThreadsTyped'
BY DEF TypeOK, FlagsTyped, BoxesTyped, ExecTyped, ThreadsTyped

LEMMA ServersTyped == None \in Servers /\ Boxes \subseteq Servers /\ Kartrol \subseteq Servers
BY DeviceSearchAssumption DEF Servers

LEMMA TaskTyped ==
    ASSUME NEW k \in TaskKinds, NEW b \in Servers
    PROVE  Task(k, b) \in Tasks
BY DEF Task, Tasks

LEMMA NoTaskTyped == NoTask \in Tasks /\ Search \in Tasks
BY ServersTyped DEF NoTask, Search, Task, Tasks, TaskKinds

LEMMA MessageTyped ==
    ASSUME NEW t \in Tasks, NEW r \in Results, NEW b \in Servers, NEW f \in SUBSET Boxes
    PROVE  Message(t, r, b, f) \in Messages
BY DEF Message, Messages, Tasks

LEMMA NoMessageTyped == NoMessage \in Messages
BY MessageTyped, NoTaskTyped, ServersTyped DEF NoMessage, Results

LEMMA SilenceTasksTyped ==
    ASSUME NEW q \in Seq(Tasks), NEW ks
    PROVE  /\ SilenceTasks(q, ks) \in Seq(Tasks)
           /\ Len(SilenceTasks(q, ks)) = Len(q)
<1> DEFINE S == SilenceTasks(q, ks)
<1>1. DOMAIN S = 1..Len(q) /\ Len(q) \in Nat
  BY DEF SilenceTasks
<1>2. ASSUME NEW i \in 1..Len(q)
      PROVE  S[i] \in Tasks
  BY <1>1, NoTaskTyped DEF SilenceTasks
<1>3. S = [i \in 1..Len(q) |-> S[i]]
  BY <1>1 DEF SilenceTasks
<1>4. S \in [1..Len(q) -> Tasks]
  BY <1>2, <1>3
<1> QED  BY <1>1, <1>4

LEMMA SilenceTyped ==
    ASSUME NEW q \in Seq(Messages), NEW ks
    PROVE  /\ Silence(q, ks) \in Seq(Messages)
           /\ Len(Silence(q, ks)) = Len(q)
<1> DEFINE S == Silence(q, ks)
<1>1. DOMAIN S = 1..Len(q) /\ Len(q) \in Nat
  BY DEF Silence
<1>2. ASSUME NEW i \in 1..Len(q)
      PROVE  S[i] \in Messages
  <2>1. q[i] \in Messages
    OBVIOUS
  <2>2. [q[i] EXCEPT !.live = FALSE] \in Messages
    BY <2>1 DEF Messages
  <2> QED  BY <1>1, <2>1, <2>2, NoMessageTyped DEF Silence
<1>3. S = [i \in 1..Len(q) |-> S[i]]
  BY <1>1 DEF Silence
<1>4. S \in [1..Len(q) -> Messages]
  BY <1>2, <1>3
<1> QED  BY <1>1, <1>4

LEMMA SubmitTyped ==
    ASSUME ExecTyped, NEW ks, NEW ts \in Seq(Tasks), Submit(ks, ts)
    PROVE  queue' \in Seq(Tasks) /\ running' \in Tasks
<1>1. SilenceTasks(queue, ks) \in Seq(Tasks)
  BY SilenceTasksTyped DEF ExecTyped
<1>2. running' \in Tasks
  BY DEF ExecTyped, Submit, Tasks
<1> QED  BY <1>1, <1>2 DEF Submit

LEMMA TailTyped ==
    ASSUME ExecTyped
    PROVE  /\ uiQueue # <<>> => Tail(uiQueue) \in Seq(Messages) /\ Head(uiQueue) \in Messages
           /\ queue # <<>> => Tail(queue) \in Seq(Tasks) /\ Head(queue) \in Tasks
BY DEF ExecTyped

LEMMA OneTaskTyped ==
    ASSUME NEW t \in Tasks
    PROVE  <<t>> \in Seq(Tasks) /\ <<>> \in Seq(Tasks)
OBVIOUS

LEMMA ShowListTyped ==
    ASSUME BoxesTyped, NEW list \in SUBSET Servers, ShowList(list)
    PROVE  /\ deviceStote' \subseteq Servers /\ listDeviceCurrent' \subseteq Servers
           /\ lastIP' \in Servers
BY DEF BoxesTyped, ShowList

LEMMA DefaultViewTyped ==
    ASSUME TypeOK, NEW q \in Seq(Messages), DefaultView(q)
    PROVE  /\ serverStatus' = FALSE /\ intWifiRemote' = "SONCA" /\ isScanning' = FALSE
           /\ connectedServer' = None /\ confirmed' = FALSE /\ chosen' = None
           /\ clientSocket' = None /\ session' = None /\ enableConnectDevice' = TRUE
           /\ queue' \in Seq(Tasks) /\ running' \in Tasks /\ uiQueue' \in Seq(Messages)
<1>1. queue' \in Seq(Tasks) /\ running' \in Tasks
  BY SubmitTyped, Parts, OneTaskTyped, NoTaskTyped DEF DefaultView
<1>2. uiQueue' \in Seq(Messages)
  BY SilenceTyped DEF DefaultView
<1> QED  BY <1>1, <1>2 DEF DefaultView, SetCurrent, Close

LEMMA ConnectToTyped ==
    ASSUME TypeOK, NEW b \in Servers, NEW q \in Seq(Messages), ConnectTo(b, q)
    PROVE  /\ connectedServer' = b /\ confirmed' = FALSE /\ chosen' = b
           /\ clientSocket' = None /\ session' = None /\ enableConnectDevice' = TRUE
           /\ queue' \in Seq(Tasks) /\ running' \in Tasks /\ uiQueue' \in Seq(Messages)
<1>1. Task("connect", b) \in Tasks
  BY TaskTyped DEF TaskKinds
<1>2. queue' \in Seq(Tasks) /\ running' \in Tasks
  BY SubmitTyped, Parts, OneTaskTyped, <1>1 DEF ConnectTo
<1>3. uiQueue' \in Seq(Messages)
  BY SilenceTyped DEF ConnectTo
<1> QED  BY <1>2, <1>3 DEF ConnectTo, SetCurrent, Close

LEMMA BeginSearchTyped ==
    ASSUME TypeOK, BeginSearch
    PROVE  /\ listDeviceCurrent' = deviceStote /\ fruitless' = FALSE
           /\ queue' \in Seq(Tasks) /\ running' \in Tasks /\ uiQueue' \in Seq(Messages)
<1>1. queue' \in Seq(Tasks) /\ running' \in Tasks
  BY SubmitTyped, Parts, OneTaskTyped, NoTaskTyped DEF BeginSearch
<1>2. uiQueue' \in Seq(Messages)
  BY SilenceTyped, Parts DEF BeginSearch, ExecTyped
<1> QED  BY <1>1, <1>2 DEF BeginSearch
LEMMA InitTyped == Init => TypeOK
<1> SUFFICES ASSUME Init PROVE TypeOK
  OBVIOUS
<1>1. Task("start", None) \in Tasks
  BY TaskTyped, ServersTyped DEF TaskKinds
<1>2. ExecTyped
  BY <1>1, ServersTyped, NoTaskTyped DEF Init, ExecTyped
<1>3. FlagsTyped /\ BoxesTyped /\ ThreadsTyped
  BY ServersTyped DEF Init, FlagsTyped, BoxesTyped, ThreadsTyped, Idle
<1> QED  BY <1>2, <1>3, Parts

LEMMA UserTyped == TypeOK /\ User => TypeOK'
<1> SUFFICES ASSUME TypeOK, User PROVE TypeOK'
  OBVIOUS
<1> USE Parts, ServersTyped
<1> USE DEF flagVars, statusVars, currentVars, storeVars, netVars, localVars, threadVars, histVars
<1>1. CASE OnShowConnect
  BY <1>1, BeginSearchTyped
  DEF OnShowConnect, FlagsTyped, BoxesTyped, ExecTyped, ThreadsTyped
<1>2. CASE OnRefrresh
  <2>1. CASE isScanning
    BY <1>2, <2>1 DEF OnRefrresh, FlagsTyped, BoxesTyped, ExecTyped, ThreadsTyped
  <2>2. CASE ~isScanning
    BY <1>2, <2>2, BeginSearchTyped
    DEF OnRefrresh, FlagsTyped, BoxesTyped, ExecTyped, ThreadsTyped
  <2> QED  BY <2>1, <2>2
<1>3. CASE OnYesListener
  BY <1>3, BeginSearchTyped
  DEF OnYesListener, FlagsTyped, BoxesTyped, ExecTyped, ThreadsTyped
<1>4. CASE OnBackList
  BY <1>4 DEF OnBackList, FlagsTyped, BoxesTyped, ExecTyped, ThreadsTyped
<1>5. CASE OnDeviceBackLayout
  <2>1. queue' \in Seq(Tasks) /\ running' \in Tasks
    BY <1>5, SubmitTyped, OneTaskTyped, NoTaskTyped DEF OnDeviceBackLayout
  <2>2. uiQueue' \in Seq(Messages)
    BY <1>5, SilenceTyped DEF OnDeviceBackLayout, ExecTyped
  <2> QED  BY <1>5, <2>1, <2>2
    DEF OnDeviceBackLayout, Close, FlagsTyped, BoxesTyped, ExecTyped, ThreadsTyped
<1>6. CASE OnDisConnect
  <2>1. queue' \in Seq(Tasks) /\ running' \in Tasks
    BY <1>6, SubmitTyped, OneTaskTyped, NoTaskTyped DEF OnDisConnect
  <2>2. uiQueue' \in Seq(Messages)
    BY <1>6, SilenceTyped DEF OnDisConnect, ExecTyped
  <2> QED  BY <1>6, <2>1, <2>2
    DEF OnDisConnect, Close, SetCurrent, FlagsTyped, BoxesTyped, ExecTyped, ThreadsTyped
<1>7. ASSUME NEW b \in Boxes, OnConectIpPass(b) PROVE TypeOK'
  <2>1. ConnectTo(b, uiQueue) /\ uiQueue \in Seq(Messages) /\ b \in Servers
    BY <1>7 DEF OnConectIpPass, ExecTyped
  <2>t1. FlagsTyped'
    BY <1>7, <2>1, ConnectToTyped DEF OnConectIpPass, FlagsTyped
  <2>t2. BoxesTyped'
    BY <1>7, <2>1, ConnectToTyped DEF OnConectIpPass, BoxesTyped
  <2>t3. ExecTyped'
    BY <1>7, <2>1, ConnectToTyped DEF OnConectIpPass, ExecTyped
  <2>t4. ThreadsTyped'
    BY <1>7, <2>1, ConnectToTyped DEF OnConectIpPass, ThreadsTyped
  <2> QED  BY <2>t1, <2>t2, <2>t3, <2>t4
<1>8. ASSUME NEW b \in Servers, OnRemoveDevice(b) PROVE TypeOK'
  BY <1>8 DEF OnRemoveDevice, FlagsTyped, BoxesTyped, ExecTyped, ThreadsTyped
<1>9. CASE OnStart
  <2>1. BoxesTyped'
    BY <1>9, ShowListTyped DEF OnStart, BoxesTyped
  <2> QED  BY <1>9, <2>1 DEF OnStart, FlagsTyped, ExecTyped, ThreadsTyped
<1>10. CASE OnPause
  <2>1. queue' \in Seq(Tasks) /\ running' \in Tasks
    BY <1>10, SubmitTyped, OneTaskTyped, NoTaskTyped DEF OnPause
  <2>2. Silence(uiQueue, {"auto"}) \in Seq(Messages)
    BY SilenceTyped DEF ExecTyped
  <2>3. [Task("auto", None) EXCEPT !.live = FALSE] \in Tasks
    BY DEF Task, Tasks, TaskKinds
  <2>4. Message([Task("auto", None) EXCEPT !.live = FALSE], "none", None, {}) \in Messages
    BY <2>3, MessageTyped DEF Results
  <2> DEFINE m == Message([Task("auto", None) EXCEPT !.live = FALSE], "none", None, {})
             tail == IF \E i \in DOMAIN queue : queue[i].of = "auto" /\ queue[i].live
                       THEN <<m>> ELSE <<>>
  <2>5. tail \in Seq(Messages)
    BY <2>4
  <2>6. uiQueue' = Silence(uiQueue, {"auto"}) \o tail
    BY <1>10 DEF OnPause
  <2> HIDE DEF tail
  <2>7. uiQueue' \in Seq(Messages)
    BY <2>2, <2>5, <2>6
  <2>t1. FlagsTyped'
    BY <1>10, <2>1, <2>7 DEF OnPause, FlagsTyped
  <2>t2. BoxesTyped'
    BY <1>10, <2>1, <2>7 DEF OnPause, BoxesTyped
  <2>t3. ExecTyped'
    BY <1>10, <2>1, <2>7 DEF OnPause, ExecTyped
  <2>t4. ThreadsTyped'
    BY <1>10, <2>1, <2>7 DEF OnPause, ThreadsTyped
  <2> QED  BY <2>t1, <2>t2, <2>t3, <2>t4
<1>11. CASE OnResume
  <2>t1. FlagsTyped'
    BY <1>11 DEF OnResume, FlagsTyped
  <2>t2. BoxesTyped'
    BY <1>11 DEF OnResume, BoxesTyped
  <2>t3. ExecTyped'
    BY <1>11 DEF OnResume, ExecTyped
  <2>t4. ThreadsTyped'
    BY <1>11 DEF OnResume, ThreadsTyped
  <2> QED  BY <2>t1, <2>t2, <2>t3, <2>t4
<1> QED
  BY <1>1, <1>2, <1>3, <1>4, <1>5, <1>6, <1>7, <1>8, <1>9, <1>10, <1>11 DEF User

LEMMA SearchCompletedTyped ==
    ASSUME TypeOK, NEW m \in Messages, uiQueue # <<>>, SearchCompleted(m)
    PROVE  TypeOK'
<1> USE Parts, ServersTyped
<1> USE DEF flagVars, statusVars, currentVars, storeVars, netVars, localVars, threadVars, histVars
<1>1. uiQueue' \in Seq(Messages)
  BY TailTyped DEF SearchCompleted
<1>2. m.boxes \cup deviceStote \in SUBSET Servers
  BY DEF Messages, BoxesTyped
<1>3. SearchEndsScan => FlagsTyped' /\ ExecTyped' /\ ThreadsTyped'
  BY <1>1 DEF SearchEndsScan, SearchCompleted, FlagsTyped, ExecTyped, ThreadsTyped
<1>4. ScheduleKartrol(m.boxes) => FlagsTyped' /\ ExecTyped' /\ ThreadsTyped'
  <2> SUFFICES ASSUME ScheduleKartrol(m.boxes) PROVE FlagsTyped' /\ ExecTyped' /\ ThreadsTyped'
    OBVIOUS
  <2>1. FlagsTyped'
    BY DEF ScheduleKartrol, SearchCompleted, FlagsTyped
  <2>4. ExecTyped'
    BY <1>1 DEF ScheduleKartrol, SearchCompleted, ExecTyped
  <2>2. m.boxes \subseteq Servers
    BY DEF Messages
  <2>3. ThreadsTyped'
    BY <2>2 DEF ScheduleKartrol, SearchCompleted, ThreadsTyped
  <2> QED  BY <2>1, <2>3, <2>4
<1>5. ASSUME NEW list, ChooseBox(list) PROVE FlagsTyped' /\ ExecTyped' /\ ThreadsTyped'
  <2>1. Task("auto", None) \in Tasks
    BY TaskTyped DEF TaskKinds
  <2>2. queue' \in Seq(Tasks)
    BY <1>5, <2>1 DEF ChooseBox, ExecTyped
  <2>3. FlagsTyped'
    BY <1>5 DEF ChooseBox, SearchCompleted, FlagsTyped
  <2> QED  BY <1>1, <1>5, <2>2, <2>3 DEF ChooseBox, SearchCompleted, ExecTyped, ThreadsTyped
<1>6. ASSUME ShowList(m.boxes \cup deviceStote) PROVE BoxesTyped'
  BY <1>2, <1>6, ShowListTyped DEF SearchCompleted, BoxesTyped
<1>7. CASE ~visible
  BY <1>3, <1>7 DEF SearchCompleted, BoxesTyped
<1>8. CASE visible /\ ~(enableConnectDevice /\ ~LoneKartrol(m.boxes) /\ ~serverStatus)
  BY <1>3, <1>4, <1>6, <1>8 DEF SearchCompleted
<1>9. CASE visible /\ enableConnectDevice /\ ~LoneKartrol(m.boxes) /\ ~serverStatus
  <2>1. ChooseBox(m.boxes \cup deviceStote) /\ BoxesTyped'
    BY <1>2, <1>9 DEF SearchCompleted, BoxesTyped
  <2> QED  BY <1>5, <2>1
<1> QED  BY <1>7, <1>8, <1>9

LEMMA AutoConnectedTyped ==
    ASSUME TypeOK, NEW m \in Messages, uiQueue # <<>>, AutoConnected(m)
    PROVE  TypeOK'
<1> USE Parts, ServersTyped
<1> USE DEF flagVars, statusVars, currentVars, storeVars, netVars, localVars, threadVars, histVars
<1>1. Tail(uiQueue) \in Seq(Messages) /\ m.box \in Servers
  BY TailTyped DEF Messages
<1>2. CASE AutoMayConnect(m)
  <2>1. ConnectTo(m.box, Tail(uiQueue))
    BY <1>2 DEF AutoConnected, AutoIsOver
  <2>t1. FlagsTyped'
    BY <1>1, <1>2, <2>1, ConnectToTyped DEF AutoConnected, AutoIsOver, FlagsTyped
  <2>t2. BoxesTyped'
    BY <1>1, <1>2, <2>1, ConnectToTyped DEF AutoConnected, AutoIsOver, BoxesTyped
  <2>t3. ExecTyped'
    BY <1>1, <1>2, <2>1, ConnectToTyped DEF AutoConnected, AutoIsOver, ExecTyped
  <2>t4. ThreadsTyped'
    BY <1>1, <1>2, <2>1, ConnectToTyped DEF AutoConnected, AutoIsOver, ThreadsTyped
  <2> QED  BY <2>t1, <2>t2, <2>t3, <2>t4
<1>3. CASE ~AutoMayConnect(m)
  <2>1. listDeviceCurrent \in SUBSET Servers /\ ShowList(listDeviceCurrent)
    BY <1>3 DEF AutoConnected, AutoIsOver, BoxesTyped
  <2>t1. FlagsTyped'
    BY <1>1, <1>3, <2>1, ShowListTyped DEF AutoConnected, AutoIsOver, FlagsTyped
  <2>t2. BoxesTyped'
    BY <1>1, <1>3, <2>1, ShowListTyped DEF AutoConnected, AutoIsOver, BoxesTyped
  <2>t3. ExecTyped'
    BY <1>1, <1>3, <2>1, ShowListTyped DEF AutoConnected, AutoIsOver, ExecTyped
  <2>t4. ThreadsTyped'
    BY <1>1, <1>3, <2>1, ShowListTyped DEF AutoConnected, AutoIsOver, ThreadsTyped
  <2> QED  BY <2>t1, <2>t2, <2>t3, <2>t4
<1> QED  BY <1>2, <1>3

LEMMA ConnectReportedTyped ==
    ASSUME TypeOK, NEW m \in Messages, uiQueue # <<>>, ConnectReported(m)
    PROVE  TypeOK'
<1> USE Parts, ServersTyped
<1> USE DEF flagVars, statusVars, currentVars, storeVars, netVars, localVars, threadVars, histVars
<1>1. Tail(uiQueue) \in Seq(Messages) /\ m.box \in Servers
  BY TailTyped DEF Messages
<1>2. CASE LoggedIn(m)
  <2>t1. FlagsTyped'
    BY <1>1, <1>2 DEF ConnectReported, LoggedIn, FlagsTyped
  <2>t2. BoxesTyped'
    BY <1>1, <1>2 DEF ConnectReported, LoggedIn, BoxesTyped
  <2>t3. ExecTyped'
    BY <1>1, <1>2 DEF ConnectReported, LoggedIn, ExecTyped
  <2>t4. ThreadsTyped'
    BY <1>1, <1>2 DEF ConnectReported, LoggedIn, ThreadsTyped
  <2> QED  BY <2>t1, <2>t2, <2>t3, <2>t4
<1>3. CASE Refused(m)
  <2>t1. FlagsTyped'
    BY <1>1, <1>3 DEF ConnectReported, Refused, SetCurrent, FlagsTyped
  <2>t2. BoxesTyped'
    BY <1>1, <1>3 DEF ConnectReported, Refused, SetCurrent, BoxesTyped
  <2>t3. ExecTyped'
    BY <1>1, <1>3 DEF ConnectReported, Refused, SetCurrent, ExecTyped
  <2>t4. ThreadsTyped'
    BY <1>1, <1>3 DEF ConnectReported, Refused, SetCurrent, ThreadsTyped
  <2> QED  BY <2>t1, <2>t2, <2>t3, <2>t4
<1>4. CASE Invalid(m)
  BY <1>1, <1>4
  DEF ConnectReported, Invalid, FlagsTyped, BoxesTyped, ExecTyped, ThreadsTyped
<1>5. CASE ConnectFailed(m)
  <2>1. DefaultView(Tail(uiQueue))
    BY <1>5 DEF ConnectFailed
  <2>t1. FlagsTyped'
    BY <1>1, <1>5, <2>1, DefaultViewTyped DEF ConnectReported, ConnectFailed, FlagsTyped
  <2>t2. BoxesTyped'
    BY <1>1, <1>5, <2>1, DefaultViewTyped DEF ConnectReported, ConnectFailed, BoxesTyped
  <2>t3. ExecTyped'
    BY <1>1, <1>5, <2>1, DefaultViewTyped DEF ConnectReported, ConnectFailed, ExecTyped
  <2>t4. ThreadsTyped'
    BY <1>1, <1>5, <2>1, DefaultViewTyped DEF ConnectReported, ConnectFailed, ThreadsTyped
  <2> QED  BY <2>t1, <2>t2, <2>t3, <2>t4
<1> QED  BY <1>2, <1>3, <1>4, <1>5 DEF ConnectReported

LEMMA HandleMessageTyped == TypeOK /\ HandleMessage => TypeOK'
<1> SUFFICES ASSUME TypeOK, HandleMessage PROVE TypeOK'
  OBVIOUS
<1> DEFINE m == Head(uiQueue)
<1>1. uiQueue # <<>> /\ m \in Messages /\ Tail(uiQueue) \in Seq(Messages)
  BY TailTyped, Parts DEF HandleMessage
<1>2. CASE Dropped(m)
  BY <1>1, <1>2, Parts
  DEF Dropped, FlagsTyped, BoxesTyped, ExecTyped, ThreadsTyped, flagVars, statusVars,
      currentVars, storeVars, netVars, localVars, threadVars, histVars
<1> QED
  BY <1>1, <1>2, SearchCompletedTyped, AutoConnectedTyped, ConnectReportedTyped
  DEF HandleMessage

LEMMA SessionTyped == TypeOK /\ Session => TypeOK'
<1> SUFFICES ASSUME TypeOK, Session PROVE TypeOK'
  OBVIOUS
<1> USE Parts, ServersTyped
<1> USE DEF flagVars, statusVars, currentVars, storeVars, netVars, localVars, threadVars, histVars
<1>1. CASE StatusChanges
  BY <1>1 DEF StatusChanges, FlagsTyped, BoxesTyped, ExecTyped, ThreadsTyped
<1>2. CASE RequestFails
  <2>t1. FlagsTyped'
    BY <1>2 DEF RequestFails, FlagsTyped
  <2>t2. BoxesTyped'
    BY <1>2 DEF RequestFails, BoxesTyped
  <2>t3. ExecTyped'
    BY <1>2 DEF RequestFails, ExecTyped
  <2>t4. ThreadsTyped'
    BY <1>2 DEF RequestFails, ThreadsTyped
  <2> QED  BY <2>t1, <2>t2, <2>t3, <2>t4
<1>3. CASE SessionLost
  <2>1. DefaultView(uiQueue) /\ uiQueue \in Seq(Messages)
    BY <1>3 DEF SessionLost, ExecTyped
  <2>t1. FlagsTyped'
    BY <1>3, <2>1, DefaultViewTyped DEF SessionLost, FlagsTyped
  <2>t2. BoxesTyped'
    BY <1>3, <2>1, DefaultViewTyped DEF SessionLost, BoxesTyped
  <2>t3. ExecTyped'
    BY <1>3, <2>1, DefaultViewTyped DEF SessionLost, ExecTyped
  <2>t4. ThreadsTyped'
    BY <1>3, <2>1, DefaultViewTyped DEF SessionLost, ThreadsTyped
  <2> QED  BY <2>t1, <2>t2, <2>t3, <2>t4
<1> QED  BY <1>1, <1>2, <1>3 DEF Session
\* A step of the executor's thread leaves the activity's variables alone.
LEMMA WorkerFrameTyped ==
    ASSUME TypeOK, UIOnly, crashed' \in BOOLEAN,
           connectedServer' \in Servers, confirmed' \in BOOLEAN, chosen' \in Servers,
           clientSocket' \in Servers, session' = session,
           enableConnectDevice' = enableConnectDevice
    PROVE  FlagsTyped' /\ BoxesTyped' /\ ThreadsTyped'
<1> USE Parts
<1>1. FlagsTyped'
  BY DEF UIOnly, FlagsTyped, flagVars, statusVars
<1>2. BoxesTyped'
  BY DEF UIOnly, BoxesTyped, storeVars
<1>3. ThreadsTyped'
  BY DEF UIOnly, ThreadsTyped, threadVars
<1> QED  BY <1>1, <1>2, <1>3

LEMMA ReturnsTyped ==
    ASSUME ExecTyped, NEW r \in Results, NEW b \in Servers, NEW f \in SUBSET Boxes,
           Returns(r, b, f)
    PROVE  ExecTyped'
<1>1. Message(running, r, b, f) \in Messages
  BY MessageTyped DEF ExecTyped
<1> QED  BY <1>1, NoTaskTyped, ServersTyped DEF Returns, Ends, ExecTyped

LEMMA GoesTyped ==
    ASSUME ExecTyped, NEW step \in {"receive", "current", "test", "get", "ping", "read", "call"},
           Goes(step), target' \in Servers, index' \in Nat, found' = found
    PROVE  ExecTyped'
BY DEF Goes, ExecTyped

LEMMA StartTaskTyped == TypeOK /\ StartTask => TypeOK'
<1> SUFFICES ASSUME TypeOK, StartTask PROVE TypeOK'
  OBVIOUS
<1> USE Parts
<1>1. FlagsTyped' /\ BoxesTyped' /\ ThreadsTyped'
  <2>1. UIOnly
    BY DEF StartTask, UIOnly, histVars
  <2> QED  BY <2>1, WorkerFrameTyped
    DEF StartTask, FlagsTyped, BoxesTyped, currentVars, netVars, histVars
<1>2. Head(queue) \in Tasks /\ Tail(queue) \in Seq(Tasks)
  BY TailTyped DEF StartTask
<1>3. FirstStep(Head(queue).of) \in {"idle", "bind", "last", "connect"}
  BY DEF FirstStep
<1>4. Head(queue).box \in Servers
  BY <1>2 DEF Tasks
<1>5. ExecTyped'
  BY <1>2, <1>3, <1>4 DEF StartTask, ExecTyped
<1> QED  BY <1>1, <1>5

LEMMA WorksTyped == TypeOK /\ Works => TypeOK'
<1> SUFFICES ASSUME TypeOK, Works PROVE TypeOK'
  OBVIOUS
<1> USE Parts, ServersTyped
<1> DEFINE Framed == FlagsTyped' /\ BoxesTyped' /\ ThreadsTyped'
<1>a. /\ connectedServer \in Servers /\ confirmed \in BOOLEAN /\ chosen \in Servers
      /\ clientSocket \in Servers /\ crashed \in BOOLEAN /\ lastIP \in Servers
      /\ found \in SUBSET Boxes /\ index \in Nat /\ target \in Servers
      /\ running \in Tasks /\ listDeviceCurrent \subseteq Servers
  BY DEF FlagsTyped, BoxesTyped, ExecTyped
<1>b. {"found", "some", "none"} \subseteq Results /\ ConnectResults \subseteq Results
  BY DEF Results
<1>1. CASE StartTask
  BY <1>1, StartTaskTyped
<1>2. CASE BindFails
  <2>1. Framed
    BY <1>2, <1>a, WorkerFrameTyped DEF BindFails, currentVars, netVars
  <2>2. ExecTyped'
    BY <1>2 DEF BindFails, ExecTyped, localVars
  <2> QED  BY <2>1, <2>2
<1>3. CASE Broadcasts
  <2>1. Framed
    BY <1>3, <1>a, WorkerFrameTyped DEF Broadcasts, currentVars, netVars
  <2>2. ExecTyped'
    BY <1>3, <1>a, <1>b, GoesTyped, ReturnsTyped DEF Broadcasts
  <2> QED  BY <2>1, <2>2
<1>4. ASSUME NEW b \in Boxes, BoxAnswers(b) PROVE TypeOK'
  <2>1. Framed
    BY <1>4, <1>a, WorkerFrameTyped DEF BoxAnswers, currentVars, netVars
  <2>2. ExecTyped'
    BY <1>4 DEF BoxAnswers, ExecTyped
  <2> QED  BY <2>1, <2>2
<1>5. CASE SearchReturns
  <2>1. Framed
    BY <1>5, <1>a, WorkerFrameTyped DEF SearchReturns, currentVars, netVars
  <2>2. ExecTyped'
    BY <1>5, <1>a, <1>b, ReturnsTyped DEF SearchReturns
  <2> QED  BY <2>1, <2>2
<1>6. CASE AutoLast
  <2>1. Framed
    BY <1>6, <1>a, WorkerFrameTyped DEF AutoLast, TakesLast, SetCurrent, currentVars, netVars
  <2>2. ExecTyped'
    BY <1>6, <1>a, GoesTyped DEF AutoLast, TakesLast
  <2> QED  BY <2>1, <2>2
<1>7. CASE AutoTakesCurrent
  <2>1. Framed
    BY <1>7, <1>a, WorkerFrameTyped DEF AutoTakesCurrent, currentVars, netVars
  <2>2. ExecTyped'
    BY <1>7, <1>a, <1>b, ReturnsTyped DEF AutoTakesCurrent
  <2> QED  BY <2>1, <2>2
<1>8. CASE AutoTests
  <2>1. Framed
    BY <1>8, <1>a, WorkerFrameTyped DEF AutoTests, currentVars, netVars
  <2>2. ExecTyped'
    BY <1>8, <1>a, <1>b, GoesTyped, ReturnsTyped DEF AutoTests
  <2> QED  BY <2>1, <2>2
<1>9. CASE AutoGets
  <2>1. Framed
    BY <1>9, <1>a, WorkerFrameTyped DEF AutoGets, currentVars, netVars
  <2>2. ASSUME NEW b \in (listDeviceCurrent \cap deviceStote) \ {None}, Returns("some", b, {})
        PROVE  ExecTyped'
    BY <2>2, <1>a, <1>b, ReturnsTyped
  <2>3. ASSUME Goes("test"), index' = index + 1, UNCHANGED <<target, found>>
        PROVE  ExecTyped'
    BY <2>3, <1>a, GoesTyped
  <2>4. ExecTyped'
    BY <1>9, <2>2, <2>3 DEF AutoGets
  <2> QED  BY <2>1, <2>4
<1>10. CASE AutoOutOfBounds
  <2>1. Framed
    BY <1>10, <1>a, WorkerFrameTyped DEF AutoOutOfBounds, currentVars, netVars
  <2>2. ExecTyped'
    BY <1>10 DEF AutoOutOfBounds, ExecTyped, localVars
  <2> QED  BY <2>1, <2>2
<1>11. CASE StartLast
  <2>1. Framed
    BY <1>11, <1>a, WorkerFrameTyped DEF StartLast, TakesLast, SetCurrent, currentVars, netVars
  <2>2. ExecTyped'
    BY <1>11, <1>a, <1>b, GoesTyped, ReturnsTyped DEF StartLast, TakesLast
  <2> QED  BY <2>1, <2>2
<1>12. CASE StartPings
  <2>1. Framed
    BY <1>12, <1>a, WorkerFrameTyped DEF StartPings, currentVars, netVars
  <2>2. ExecTyped'
    BY <1>12, <1>a, <1>b, GoesTyped, ReturnsTyped DEF StartPings
  <2> QED  BY <2>1, <2>2
<1>13. CASE StartReads
  <2>1. Framed
    BY <1>13, <1>a, WorkerFrameTyped DEF StartReads, currentVars, netVars
  <2>2. ExecTyped'
    BY <1>13, <1>a, GoesTyped DEF StartReads
  <2> QED  BY <2>1, <2>2
<1>14. CASE StartConnects
  <2>1. Framed
    BY <1>14, <1>a, WorkerFrameTyped DEF StartConnects, currentVars, netVars
  <2>2. Task("connect", target) \in Tasks
    BY <1>a, TaskTyped DEF TaskKinds
  <2>3. SilenceTasks(queue, {"connect"}) \in Seq(Tasks)
    BY SilenceTasksTyped DEF ExecTyped
  <2>4. queue' \in Seq(Tasks)
    BY <1>14, <2>2, <2>3 DEF StartConnects
  <2>5. Message(running, "none", None, {}) \in Messages
    BY <1>a, <1>b, MessageTyped
  <2>6. Silence(uiQueue, {"connect"}) \in Seq(Messages)
    BY SilenceTyped DEF ExecTyped
  <2>7. uiQueue' \in Seq(Messages)
    BY <1>14, <2>5, <2>6 DEF StartConnects
  <2>8. ExecTyped'
    BY <1>14, <2>4, <2>7, NoTaskTyped DEF StartConnects, Ends, ExecTyped
  <2> QED  BY <2>1, <2>8
<1>15. CASE Connects
  <2>1. clientSocket' \in Servers
    BY <1>15, <1>a DEF Connects, Opens
  <2>2. Framed
    BY <1>15, <1>a, <2>1, WorkerFrameTyped DEF Connects, currentVars
  <2>3. ASSUME NEW s, NEW r \in ConnectResults, Opens(s, r) PROVE ExecTyped'
    BY <2>3, <1>a, <1>b, ReturnsTyped DEF Opens
  <2>4. ASSUME clientSocket # None PROVE ExecTyped'
    BY <1>15, <2>4, NoTaskTyped DEF Connects, Ends, ExecTyped
  <2>5. ASSUME clientSocket = None PROVE ExecTyped'
    <3>1. {"timedOut", "lost"} \subseteq ConnectResults
      BY DEF ConnectResults
    <3> QED  BY <1>15, <2>3, <2>5, <3>1 DEF Connects
  <2> QED  BY <2>2, <2>4, <2>5
<1> QED
  BY <1>1, <1>2, <1>3, <1>4, <1>5, <1>6, <1>7, <1>8, <1>9, <1>10, <1>11, <1>12, <1>13,
     <1>14, <1>15 DEF Works

LEMMA TimerTyped == TypeOK /\ Timer => TypeOK'
<1> SUFFICES ASSUME TypeOK, Timer PROVE TypeOK'
  OBVIOUS
<1> USE Parts, ServersTyped
<1>a. ASSUME TimerOnly, connectedServer' \in Servers, confirmed' \in BOOLEAN,
             chosen' \in Servers, clientSocket' \in Servers, session' \in Servers,
             enableConnectDevice' \in BOOLEAN
      PROVE  FlagsTyped' /\ BoxesTyped'
  BY <1>a DEF TimerOnly, FlagsTyped, BoxesTyped, flagVars, statusVars, storeVars
<1>b. ASSUME TimerOnly, queue' \in Seq(Tasks), running' \in Tasks, uiQueue' \in Seq(Messages)
      PROVE  ExecTyped'
  BY <1>b DEF TimerOnly, ExecTyped, localVars
<1>c. ASSUME CloseFromTimer
      PROVE  /\ queue' \in Seq(Tasks) /\ running' \in Tasks /\ uiQueue' \in Seq(Messages)
             /\ clientSocket' = None /\ session' = None /\ enableConnectDevice' = TRUE
             /\ UNCHANGED <<currentVars, chosen>>
  <2>1. queue' \in Seq(Tasks) /\ running' \in Tasks
    BY <1>c, SubmitTyped, OneTaskTyped, NoTaskTyped DEF CloseFromTimer
  <2>2. uiQueue' \in Seq(Messages)
    BY <1>c, SilenceTyped DEF CloseFromTimer, ExecTyped
  <2> QED  BY <1>c, <2>1, <2>2 DEF CloseFromTimer, Close
<1>d. ASSUME NEW t \in Timers, NEW from, NEW to \in {"idle", "disconnect", "connect", "set"},
             KartrolStep(t, from, to)
      PROVE  TimerOnly /\ ThreadsTyped'
  BY <1>d DEF KartrolStep, Idle, ThreadsTyped
<1>e. ASSUME NEW from, NEW to \in {"idle", "set", "disconnect", "start"}, PingStep(from, to)
      PROVE  TimerOnly /\ ThreadsTyped'
  BY <1>e DEF PingStep, Idle, ThreadsTyped
<1>f. /\ connectedServer \in Servers /\ confirmed \in BOOLEAN /\ chosen \in Servers
      /\ clientSocket \in Servers /\ session \in Servers /\ enableConnectDevice \in BOOLEAN
      /\ queue \in Seq(Tasks) /\ running \in Tasks /\ uiQueue \in Seq(Messages)
  BY DEF FlagsTyped, BoxesTyped, ExecTyped
<1>1. ASSUME NEW t \in Timers, KartrolPings(t) PROVE TypeOK'
  BY <1>1, <1>a, <1>b, <1>d, <1>f DEF KartrolPings, currentVars, netVars
<1>2. ASSUME NEW t \in Timers, KartrolDisconnects(t) PROVE TypeOK'
  BY <1>2, <1>a, <1>b, <1>c, <1>d, <1>f DEF KartrolDisconnects, currentVars
<1>3. ASSUME NEW t \in Timers, KartrolConnects(t) PROVE TypeOK'
  <2>1. kartrolTimer[t].box \in Servers
    BY DEF ThreadsTyped
  <2>2. Task("connect", kartrolTimer[t].box) \in Tasks
    BY <2>1, TaskTyped DEF TaskKinds
  <2>3. queue' \in Seq(Tasks) /\ running' \in Tasks
    BY <1>3, <2>2, SubmitTyped, OneTaskTyped DEF KartrolConnects
  <2>4. uiQueue' \in Seq(Messages)
    BY <1>3, <1>f, SilenceTyped DEF KartrolConnects
  <2> QED  BY <1>3, <1>a, <1>b, <1>d, <1>f, <2>3, <2>4 DEF KartrolConnects, currentVars, netVars
<1>4. ASSUME NEW t \in Timers, KartrolSetsCurrent(t) PROVE TypeOK'
  <2>1. kartrolTimer[t].box \in Servers
    BY DEF ThreadsTyped
  <2> QED  BY <1>4, <1>a, <1>b, <1>d, <1>f, <2>1 DEF KartrolSetsCurrent, netVars
<1>5. CASE PingBegins
  <2>1. ThreadsTyped'
    BY <1>5 DEF PingBegins, ThreadsTyped, BoxesTyped
  <2> QED  BY <1>5, <1>a, <1>b, <1>f, <2>1 DEF PingBegins, currentVars, netVars
<1>6. CASE PingReturns
  BY <1>6, <1>a, <1>b, <1>e, <1>f DEF PingReturns, currentVars, netVars
<1>7. CASE PingSetsCurrent
  <2>1. pingTask.box \in Servers
    BY DEF ThreadsTyped
  <2> QED  BY <1>7, <1>a, <1>b, <1>e, <1>f, <2>1 DEF PingSetsCurrent, SetCurrent, netVars
<1>8. CASE PingDisconnects
  BY <1>8, <1>a, <1>b, <1>c, <1>e, <1>f DEF PingDisconnects, currentVars
<1>9. CASE PingStarts
  <2>1. Task("start", None) \in Tasks
    BY TaskTyped DEF TaskKinds
  <2>2. queue' \in Seq(Tasks)
    BY <1>9, <1>f, <2>1 DEF PingStarts
  <2> QED  BY <1>9, <1>a, <1>b, <1>e, <1>f, <2>2 DEF PingStarts, currentVars, netVars
<1> QED
  BY <1>1, <1>2, <1>3, <1>4, <1>5, <1>6, <1>7, <1>8, <1>9 DEF Timer

LEMMA StutterTyped == TypeOK /\ UNCHANGED vars => TypeOK'
<1> SUFFICES ASSUME TypeOK, UNCHANGED vars PROVE TypeOK'
  OBVIOUS
<1> QED
  BY DEF TypeOK, vars, flagVars, statusVars, currentVars, storeVars, netVars, localVars,
         threadVars, histVars

\* Every variable keeps its type: the queues hold tasks and messages of known kinds, and
\* what is current, remembered or connected to is a box or the empty address.
THEOREM SearchTypeCorrect == Spec => []TypeOK
<1>1. TypeOK /\ [Next]_vars => TypeOK'
  BY UserTyped, HandleMessageTyped, SessionTyped, WorksTyped, TimerTyped, StutterTyped
  DEF Next
<1> QED  BY InitTyped, <1>1, PTL DEF Spec
-----------------------------------------------------------------------------
(* AutoSparesSession: with a session, flagAllowConnect is FALSE until the  *)
(* user goes back to the list.                                             *)

RefreshInv == session # None /\ flagAllowConnect => refreshed

\* An automatic connection ends in AutoConnected only.
AutoEnds == autoConnect /\ ~autoConnect' => session' = session \/ refreshed

LEMMA UserRefresh == RefreshInv /\ User => RefreshInv' /\ AutoEnds
<1> SUFFICES ASSUME RefreshInv, User PROVE RefreshInv' /\ AutoEnds
  OBVIOUS
<1> USE DEF RefreshInv, AutoEnds, flagVars, netVars, histVars
<1>1. CASE OnShowConnect
  BY <1>1 DEF OnShowConnect
<1>2. CASE OnRefrresh
  BY <1>2 DEF OnRefrresh
<1>3. CASE OnYesListener
  BY <1>3 DEF OnYesListener
<1>4. CASE OnBackList
  BY <1>4 DEF OnBackList
<1>5. CASE OnDeviceBackLayout
  BY <1>5 DEF OnDeviceBackLayout
<1>6. CASE OnDisConnect
  BY <1>6 DEF OnDisConnect
<1>7. ASSUME NEW b \in Boxes, OnConectIpPass(b) PROVE RefreshInv' /\ AutoEnds
  BY <1>7 DEF OnConectIpPass, ConnectTo, Close
<1>8. ASSUME NEW b \in Servers, OnRemoveDevice(b) PROVE RefreshInv' /\ AutoEnds
  BY <1>8 DEF OnRemoveDevice
<1>9. CASE OnStart
  BY <1>9 DEF OnStart
<1>10. CASE OnPause
  BY <1>10 DEF OnPause
<1>11. CASE OnResume
  BY <1>11 DEF OnResume
<1> QED
  BY <1>1, <1>2, <1>3, <1>4, <1>5, <1>6, <1>7, <1>8, <1>9, <1>10, <1>11 DEF User

LEMMA HandleMessageRefresh == RefreshInv /\ HandleMessage => RefreshInv' /\ AutoEnds
<1> SUFFICES ASSUME RefreshInv, HandleMessage PROVE RefreshInv' /\ AutoEnds
  OBVIOUS
<1> DEFINE m == Head(uiQueue)
<1> USE DEF RefreshInv, AutoEnds, flagVars, netVars, histVars
<1>1. CASE SearchCompleted(m)
  <2>1. UNCHANGED <<session, flagAllowConnect, refreshed>>
    BY <1>1 DEF SearchCompleted
  <2>2. autoConnect => autoConnect'
    BY <1>1 DEF SearchCompleted, SearchEndsScan, ScheduleKartrol, ChooseBox
  <2> QED  BY <2>1, <2>2
<1>2. CASE AutoConnected(m)
  <2>1. UNCHANGED <<flagAllowConnect, refreshed>>
    BY <1>2 DEF AutoConnected, AutoIsOver
  <2>2. session' = session \/ (session' = None /\ flagAllowConnect)
    BY <1>2 DEF AutoConnected, AutoIsOver, AutoMayConnect, ConnectTo, Close
  <2> QED  BY <2>1, <2>2
<1>3. CASE ConnectReported(m)
  <2>1. autoConnect' = autoConnect
    BY <1>3 DEF ConnectReported
  <2>2. CASE LoggedIn(m)
    BY <2>1, <2>2 DEF LoggedIn
  <2>3. CASE Refused(m) \/ Invalid(m)
    BY <2>1, <2>3 DEF Refused, Invalid
  <2>4. CASE ConnectFailed(m)
    <3>1. session' = None
      BY <2>4 DEF ConnectFailed, DefaultView, Close
    <3> QED  BY <2>1, <3>1
  <2> QED  BY <1>3, <2>2, <2>3, <2>4 DEF ConnectReported
<1>4. CASE Dropped(m)
  BY <1>4 DEF Dropped
<1> QED  BY <1>1, <1>2, <1>3, <1>4 DEF HandleMessage

LEMMA NextRefresh == RefreshInv /\ [Next]_vars => RefreshInv' /\ AutoEnds
<1> SUFFICES ASSUME RefreshInv, [Next]_vars PROVE RefreshInv' /\ AutoEnds
  OBVIOUS
<1> USE DEF RefreshInv, AutoEnds, flagVars, netVars, histVars
<1>1. CASE Session
  <2>1. CASE StatusChanges
    BY <2>1 DEF StatusChanges
  <2>2. CASE RequestFails
    BY <2>2 DEF RequestFails
  <2>3. CASE SessionLost
    <3>1. session' = None /\ autoConnect' = autoConnect
      BY <2>3 DEF SessionLost, DefaultView, Close
    <3> QED  BY <3>1
  <2> QED  BY <1>1, <2>1, <2>2, <2>3 DEF Session
<1>2. CASE Works
  <2>1. UNCHANGED <<session, flagVars, refreshed>>
    BY <1>2 DEF Works, StartTask, BindFails, Broadcasts, BoxAnswers, SearchReturns, AutoLast,
                AutoTakesCurrent, AutoTests, AutoGets, AutoOutOfBounds, StartLast, StartPings,
                StartReads, StartConnects, Connects, UIOnly
  <2> QED  BY <2>1
<1>3. CASE Timer
  <2>1. UNCHANGED <<flagVars, refreshed>>
    BY <1>3 DEF Timer, KartrolPings, KartrolDisconnects, KartrolConnects, KartrolSetsCurrent,
                KartrolStep, PingBegins, PingReturns, PingSetsCurrent, PingDisconnects,
                PingStarts, PingStep, TimerOnly
  <2>2. session' \in {session, None}
    BY <1>3 DEF Timer, KartrolPings, KartrolDisconnects, KartrolConnects, KartrolSetsCurrent,
                PingBegins, PingReturns, PingSetsCurrent, PingDisconnects, PingStarts,
                CloseFromTimer, Close
  <2> QED  BY <2>1, <2>2
<1>4. CASE UNCHANGED vars
  BY <1>4 DEF vars
<1> QED  BY <1>1, <1>2, <1>3, <1>4, UserRefresh, HandleMessageRefresh DEF Next

\* An automatic connection that ends neither closes nor replaces a session that was
\* reported while it looked for a box, unless the user went back to the list.
THEOREM AutoConnectSparesSession == Spec => AutoSparesSession
<1>1. Init => RefreshInv
  BY DEF Init, RefreshInv
<1>2. RefreshInv /\ [Next]_vars => [autoConnect /\ ~autoConnect' => session' = session \/ refreshed]_vars
  BY NextRefresh DEF AutoEnds
<1> QED  BY <1>1, <1>2, NextRefresh, PTL DEF Spec, AutoSparesSession
-----------------------------------------------------------------------------
(* What waits, runs or is on its way to the UI thread, as a set.           *)

Items(q) == {q[i] : i \in DOMAIN q}
Pending == Items(queue) \cup {running} \cup Items(uiQueue)
IsLive(t, k) == t.of = k /\ t.live

LEMMA ItemsAppend ==
    ASSUME NEW S, NEW q \in Seq(S), NEW x \in S
    PROVE  Items(Append(q, x)) = Items(q) \cup {x}
<1>1. DOMAIN q = 1..Len(q) /\ Len(q) \in Nat
  OBVIOUS
<1>2. DOMAIN Append(q, x) = 1..(Len(q) + 1)
  OBVIOUS
<1>3. \A i \in 1..Len(q) : Append(q, x)[i] = q[i]
  OBVIOUS
<1>4. Append(q, x)[Len(q) + 1] = x
  OBVIOUS
<1> QED  BY <1>1, <1>2, <1>3, <1>4 DEF Items

LEMMA ItemsConcat ==
    ASSUME NEW S, NEW p \in Seq(S), NEW q \in Seq(S)
    PROVE  Items(p \o q) = Items(p) \cup Items(q)
<1>1. /\ DOMAIN p = 1..Len(p) /\ Len(p) \in Nat
      /\ DOMAIN q = 1..Len(q) /\ Len(q) \in Nat
  OBVIOUS
<1>2. DOMAIN (p \o q) = 1..(Len(p) + Len(q))
  OBVIOUS
<1>3. \A i \in 1..Len(p) : (p \o q)[i] = p[i]
  OBVIOUS
<1>4. \A i \in 1..Len(q) : (p \o q)[Len(p) + i] = q[i]
  OBVIOUS
<1>5. ASSUME NEW i \in DOMAIN (p \o q) PROVE (p \o q)[i] \in Items(p) \cup Items(q)
  <2>1. CASE i \in 1..Len(p)
    BY <1>1, <1>3, <2>1 DEF Items
  <2>2. CASE i \notin 1..Len(p)
    <3>1. i - Len(p) \in 1..Len(q) /\ i = Len(p) + (i - Len(p))
      BY <1>1, <1>2, <2>2
    <3> QED  BY <1>1, <1>4, <3>1 DEF Items
  <2> QED  BY <2>1, <2>2
<1>6. ASSUME NEW i \in DOMAIN p PROVE p[i] \in Items(p \o q)
  <2>1. i \in DOMAIN (p \o q) /\ (p \o q)[i] = p[i]
    BY <1>1, <1>2, <1>3
  <2> QED  BY <2>1 DEF Items
<1>7. ASSUME NEW i \in DOMAIN q PROVE q[i] \in Items(p \o q)
  <2>1. Len(p) + i \in DOMAIN (p \o q) /\ (p \o q)[Len(p) + i] = q[i]
    BY <1>1, <1>2, <1>4
  <2> QED  BY <2>1 DEF Items
<1>8. Items(p \o q) \subseteq Items(p) \cup Items(q)
  BY <1>5 DEF Items
<1>9. Items(p) \cup Items(q) \subseteq Items(p \o q)
  BY <1>6, <1>7 DEF Items
<1> QED  BY <1>8, <1>9

LEMMA ItemsTail ==
    ASSUME NEW S, NEW q \in Seq(S), q # <<>>
    PROVE  Items(q) = {Head(q)} \cup Items(Tail(q))
<1>1. DOMAIN q = 1..Len(q) /\ Len(q) \in Nat \ {0}
  OBVIOUS
<1>2. DOMAIN Tail(q) = 1..(Len(q) - 1)
  OBVIOUS
<1>3. \A i \in 1..(Len(q) - 1) : Tail(q)[i] = q[i + 1]
  OBVIOUS
<1>4. Head(q) = q[1]
  OBVIOUS
<1>5. ASSUME NEW i \in DOMAIN q PROVE q[i] \in {Head(q)} \cup Items(Tail(q))
  <2>1. CASE i = 1
    BY <1>4, <2>1
  <2>2. CASE i # 1
    <3>1. i - 1 \in DOMAIN Tail(q) /\ Tail(q)[i - 1] = q[i]
      BY <1>1, <1>2, <1>3, <2>2
    <3> QED  BY <3>1 DEF Items
  <2> QED  BY <2>1, <2>2
<1>6. ASSUME NEW i \in DOMAIN Tail(q) PROVE Tail(q)[i] \in Items(q)
  <2>1. i + 1 \in DOMAIN q /\ Tail(q)[i] = q[i + 1]
    BY <1>1, <1>2, <1>3
  <2> QED  BY <2>1 DEF Items
<1>7. Head(q) \in Items(q)
  BY <1>1, <1>4 DEF Items
<1>8. Items(q) \subseteq {Head(q)} \cup Items(Tail(q))
  BY <1>5 DEF Items
<1>9. Items(Tail(q)) \subseteq Items(q)
  BY <1>6 DEF Items
<1> QED  BY <1>7, <1>8, <1>9

LEMMA ItemsSilenceTasks ==
    ASSUME NEW q \in Seq(Tasks), NEW ks
    PROVE  /\ \A t \in Items(q) : t.of \notin ks => t \in Items(SilenceTasks(q, ks))
           /\ \A t \in Items(SilenceTasks(q, ks)) :
                t = NoTask \/ (t \in Items(q) /\ t.of \notin ks)
<1>1. DOMAIN SilenceTasks(q, ks) = DOMAIN q
  BY DEF SilenceTasks
<1>2. \A i \in DOMAIN q :
        SilenceTasks(q, ks)[i] = IF q[i].of \in ks THEN NoTask ELSE q[i]
  BY DEF SilenceTasks
<1>3. ASSUME NEW i \in DOMAIN q, q[i].of \notin ks
      PROVE  q[i] \in Items(SilenceTasks(q, ks))
  <2>1. SilenceTasks(q, ks)[i] = q[i]
    BY <1>2, <1>3
  <2> QED  BY <1>1, <2>1 DEF Items
<1>4. ASSUME NEW i \in DOMAIN q
      PROVE  \/ SilenceTasks(q, ks)[i] = NoTask
             \/ SilenceTasks(q, ks)[i] \in Items(q) /\ SilenceTasks(q, ks)[i].of \notin ks
  BY <1>2, <1>4 DEF Items
<1>5. \A t \in Items(q) : t.of \notin ks => t \in Items(SilenceTasks(q, ks))
  BY <1>3 DEF Items
<1>6. \A t \in Items(SilenceTasks(q, ks)) :
         t = NoTask \/ (t \in Items(q) /\ t.of \notin ks)
  BY <1>1, <1>4 DEF Items
<1> QED  BY <1>5, <1>6

LEMMA ItemsSilence ==
    ASSUME NEW q \in Seq(Messages), NEW ks
    PROVE  /\ \A m \in Items(q) : m.of \notin ks => m \in Items(Silence(q, ks))
           /\ \A m \in Items(Silence(q, ks)) :
                m.of = "none" \/ ~m.live \/ (m \in Items(q) /\ m.of \notin ks)
<1>1. DOMAIN Silence(q, ks) = DOMAIN q
  BY DEF Silence
<1>2. \A i \in DOMAIN q :
        Silence(q, ks)[i] = IF q[i].of \notin ks THEN q[i]
                            ELSE IF q[i].of = "auto" THEN [q[i] EXCEPT !.live = FALSE]
                            ELSE NoMessage
  BY DEF Silence
<1>3. ASSUME NEW i \in DOMAIN q, q[i].of \notin ks PROVE q[i] \in Items(Silence(q, ks))
  <2>1. Silence(q, ks)[i] = q[i]
    BY <1>2, <1>3
  <2> QED  BY <1>1, <2>1 DEF Items
<1>4. ASSUME NEW i \in DOMAIN q
      PROVE  \/ Silence(q, ks)[i].of = "none" \/ ~Silence(q, ks)[i].live
             \/ Silence(q, ks)[i] \in Items(q) /\ Silence(q, ks)[i].of \notin ks
  <2>1. CASE q[i].of \notin ks
    BY <1>2, <2>1 DEF Items
  <2>2. CASE q[i].of \in ks /\ q[i].of = "auto"
    <3>1. q[i] \in Messages
      BY <1>4
    <3>2. Silence(q, ks)[i] = [q[i] EXCEPT !.live = FALSE]
      BY <1>2, <2>2
    <3> QED  BY <3>1, <3>2 DEF Messages
  <2>3. CASE q[i].of \in ks /\ q[i].of # "auto"
    <3>1. Silence(q, ks)[i] = NoMessage
      BY <1>2, <2>3
    <3>2. NoMessage.of = "none"
      BY DEF NoMessage, Message, NoTask
    <3> QED  BY <3>1, <3>2
  <2> QED  BY <2>1, <2>2, <2>3
<1>5. \A m \in Items(q) : m.of \notin ks => m \in Items(Silence(q, ks))
  BY <1>3 DEF Items
<1>6. \A m \in Items(Silence(q, ks)) :
         m.of = "none" \/ ~m.live \/ (m \in Items(q) /\ m.of \notin ks)
  BY <1>1, <1>4 DEF Items
<1> QED  BY <1>5, <1>6

\* Cancelling the kinds ks leaves the others, and nothing of ks that is live.
LEMMA SubmitItems ==
    ASSUME TypeOK, NEW ks, NEW ts \in Seq(Tasks), Submit(ks, ts)
    PROVE  /\ Items(ts) \subseteq Items(queue')
           /\ \A t \in Items(queue) : t.of \notin ks => t \in Items(queue')
           /\ running.of \notin ks => running' = running
           /\ running'.of = running.of
           /\ \A t \in Items(queue') :
                t = NoTask \/ t \in Items(ts) \/ (t \in Items(queue) /\ t.of \notin ks)
           /\ running'.live => running' = running /\ running.of \notin ks
<1>1. queue \in Seq(Tasks) /\ running \in Tasks
  BY DEF TypeOK
<1>2. SilenceTasks(queue, ks) \in Seq(Tasks)
  BY <1>1, SilenceTasksTyped
<1>3. queue' = SilenceTasks(queue, ks) \o ts
  BY DEF Submit
<1>4. Items(queue') = Items(SilenceTasks(queue, ks)) \cup Items(ts)
  BY <1>2, <1>3, ItemsConcat
<1>5. running' = [running EXCEPT !.live = running.live /\ running.of \notin ks]
  BY DEF Submit
<1>6. /\ running'.of = running.of
      /\ running.of \notin ks => running' = running
      /\ running'.live => running' = running /\ running.of \notin ks
  BY <1>1, <1>5 DEF Tasks
<1> QED  BY <1>1, <1>4, <1>6, ItemsSilenceTasks

LEMMA ItemsTyped ==
    ASSUME TypeOK
    PROVE  /\ Items(queue) \subseteq Tasks /\ Items(uiQueue) \subseteq Messages
           /\ queue \in Seq(Tasks) /\ uiQueue \in Seq(Messages) /\ running \in Tasks
           /\ uiQueue # <<>> =>
                /\ Head(uiQueue) \in Messages /\ Tail(uiQueue) \in Seq(Messages)
                /\ Items(uiQueue) = {Head(uiQueue)} \cup Items(Tail(uiQueue))
           /\ queue # <<>> =>
                /\ Head(queue) \in Tasks /\ Tail(queue) \in Seq(Tasks)
                /\ Items(queue) = {Head(queue)} \cup Items(Tail(queue))
<1>1. queue \in Seq(Tasks) /\ uiQueue \in Seq(Messages) /\ running \in Tasks
  BY DEF TypeOK
<1>2. Items(queue) \subseteq Tasks /\ Items(uiQueue) \subseteq Messages
  BY <1>1 DEF Items
<1> QED  BY <1>1, <1>2, ItemsTail

LEMMA ItemsSingle ==
    ASSUME NEW t
    PROVE  Items(<<t>>) = {t} /\ Items(<<>>) = {}
BY DEF Items
-----------------------------------------------------------------------------
(* The search that is shown.                                               *)

ScanInv == TypeOK /\ ScanFlagHonest
SearchPends == \E t \in Pending : IsLive(t, "search")

LEMMA LiveSearchPends == /\ LiveSearch <=> SearchPends
                         /\ LiveSearch' <=> SearchPends'
BY DEF LiveSearch, SearchPends, Pending, Items, IsLive

\* Cancelling other tasks leaves a live search.
LEMMA SubmitKeepsSearch ==
    ASSUME TypeOK, NEW ks, "search" \notin ks, NEW ts \in Seq(Tasks), Submit(ks, ts),
           \A m \in Items(uiQueue) : IsLive(m, "search") => m \in Items(uiQueue')
    PROVE  LiveSearch => LiveSearch'
<1>1. ASSUME NEW t \in Pending, IsLive(t, "search") PROVE t \in Pending'
  <2>1. CASE t \in Items(queue)
    BY <1>1, <2>1, SubmitItems DEF IsLive, Pending
  <2>2. CASE t = running
    BY <1>1, <2>2, SubmitItems DEF IsLive, Pending
  <2>3. CASE t \in Items(uiQueue)
    BY <2>3, <1>1 DEF Pending
  <2> QED  BY <1>1, <2>1, <2>2, <2>3 DEF Pending
<1> QED  BY <1>1, LiveSearchPends DEF SearchPends

LEMMA SilenceKeepsSearch ==
    ASSUME NEW q \in Seq(Messages), NEW ks, "search" \notin ks
    PROVE  \A m \in Items(q) : IsLive(m, "search") => m \in Items(Silence(q, ks))
BY ItemsSilence DEF IsLive

LEMMA SubmitStartsSearch ==
    ASSUME TypeOK, NEW ks, Submit(ks, <<Search>>)
    PROVE  LiveSearch'
<1>1. Search \in Items(queue')
  <2>1. <<Search>> \in Seq(Tasks)
    BY NoTaskTyped, OneTaskTyped
  <2>2. Items(<<Search>>) \subseteq Items(queue')
    BY <2>1, SubmitItems
  <2> QED  BY <2>2, ItemsSingle
<1> QED  BY <1>1, LiveSearchPends DEF SearchPends, Pending, IsLive, Search, Task

\* A message that is not the result of a live search is handled.
LEMMA TailKeepsSearch ==
    ASSUME TypeOK, uiQueue # <<>>, ~IsLive(Head(uiQueue), "search")
    PROVE  \A m \in Items(uiQueue) : IsLive(m, "search") => m \in Items(Tail(uiQueue))
BY ItemsTyped

LEMMA SameKeepsSearch ==
    ASSUME UNCHANGED <<queue, running>>,
           \A m \in Items(uiQueue) : IsLive(m, "search") => m \in Items(uiQueue')
    PROVE  LiveSearch => LiveSearch'
BY LiveSearchPends DEF SearchPends, Pending

LEMMA ReturnsKeepsSearch ==
    ASSUME TypeOK, NEW r \in Results, NEW b \in Servers, NEW f \in SUBSET Boxes, Returns(r, b, f)
    PROVE  LiveSearch => LiveSearch'
<1> DEFINE n == Message(running, r, b, f)
<1>1. n \in Messages /\ n.of = running.of /\ n.live = running.live
  BY ItemsTyped, MessageTyped DEF Message
<1>2. queue' = queue /\ uiQueue' = Append(uiQueue, n)
  BY DEF Returns
<1>3. Items(uiQueue') = Items(uiQueue) \cup {n}
  BY <1>1, <1>2, ItemsTyped, ItemsAppend
<1>4. ASSUME NEW t \in Pending, IsLive(t, "search") PROVE SearchPends'
  <2>1. CASE t \in Items(queue)
    BY <1>2, <1>4, <2>1 DEF SearchPends, Pending, IsLive
  <2>2. CASE t = running
    <3>1. n \in Pending' /\ IsLive(n, "search")
      BY <1>1, <1>3, <1>4, <2>2 DEF Pending, IsLive
    <3> QED  BY <3>1 DEF SearchPends, IsLive
  <2>3. CASE t \in Items(uiQueue)
    BY <1>3, <1>4, <2>3 DEF SearchPends, Pending, IsLive
  <2> QED  BY <1>4, <2>1, <2>2, <2>3 DEF Pending
<1> QED  BY <1>4, LiveSearchPends DEF SearchPends

LEMMA StartTaskKeepsSearch ==
    ASSUME TypeOK, StartTask
    PROVE  LiveSearch => LiveSearch'
<1>1. ASSUME NEW t \in Pending, IsLive(t, "search") PROVE SearchPends'
  <2>1. queue # <<>> /\ queue' = Tail(queue) /\ uiQueue' = uiQueue /\ running = NoTask
    BY DEF StartTask
  <2>2. CASE t \in Items(uiQueue)
    BY <1>1, <2>1, <2>2 DEF SearchPends, Pending
  <2>3. CASE t = running
    BY <1>1, <2>1, <2>3 DEF IsLive, NoTask
  <2>4. CASE t \in Items(queue) /\ t = Head(queue)
    <3>1. running' = t
      BY <1>1, <2>4 DEF StartTask, IsLive
    <3> QED  BY <1>1, <3>1 DEF SearchPends, Pending
  <2>5. CASE t \in Items(queue) /\ t # Head(queue)
    <3>1. t \in Items(queue')
      BY <2>1, <2>5, ItemsTyped
    <3> QED  BY <1>1, <3>1 DEF SearchPends, Pending
  <2> QED  BY <1>1, <2>2, <2>3, <2>4, <2>5 DEF Pending
<1> QED  BY <1>1, LiveSearchPends DEF SearchPends
LEMMA UserScan == ScanInv /\ User => ScanFlagHonest'
<1> SUFFICES ASSUME ScanInv, User PROVE ScanFlagHonest'
  OBVIOUS
<1>q. TypeOK /\ uiQueue \in Seq(Messages)
  BY ItemsTyped DEF ScanInv
<1>e. <<>> \in Seq(Tasks)
  OBVIOUS
<1>f. isScanning => LiveSearch \/ autoConnect \/ fruitless
  BY DEF ScanInv, ScanFlagHonest
<1>1. CASE OnShowConnect
  BY <1>q, <1>1, SubmitStartsSearch DEF OnShowConnect, BeginSearch, ScanFlagHonest
<1>2. CASE OnRefrresh
  <2>1. CASE isScanning
    <3>1. UNCHANGED <<isScanning, autoConnect, fruitless, queue, running, uiQueue>>
      BY <1>2, <2>1 DEF OnRefrresh
    <3>2. LiveSearch => LiveSearch'
      BY <3>1, SameKeepsSearch
    <3> QED  BY <1>f, <3>1, <3>2 DEF ScanFlagHonest
  <2>2. CASE ~isScanning
    BY <1>q, <1>2, <2>2, SubmitStartsSearch DEF OnRefrresh, BeginSearch, ScanFlagHonest
  <2> QED  BY <2>1, <2>2
<1>3. CASE OnYesListener
  BY <1>q, <1>3, SubmitStartsSearch DEF OnYesListener, BeginSearch, ScanFlagHonest
<1>4. CASE OnBackList
  <2>1. UNCHANGED <<isScanning, autoConnect, fruitless, queue, running, uiQueue>>
    BY <1>4 DEF OnBackList, localVars
  <2>2. LiveSearch => LiveSearch'
    BY <2>1, SameKeepsSearch
  <2> QED  BY <1>f, <2>1, <2>2 DEF ScanFlagHonest
<1>5. CASE OnDeviceBackLayout
  <2>1. LiveSearch => LiveSearch'
    BY <1>q, <1>e, <1>5, SubmitKeepsSearch, SilenceKeepsSearch DEF OnDeviceBackLayout
  <2>2. UNCHANGED <<isScanning, autoConnect, fruitless>>
    BY <1>5 DEF OnDeviceBackLayout
  <2> QED  BY <1>f, <2>1, <2>2 DEF ScanFlagHonest
<1>6. CASE OnDisConnect
  BY <1>q, <1>6, SubmitStartsSearch DEF OnDisConnect, ScanFlagHonest
<1>7. CASE OnStart \/ OnResume \/ \E b \in Servers : OnRemoveDevice(b)
  <2>1. UNCHANGED <<autoConnect, fruitless, queue, running, uiQueue>>
    BY <1>7 DEF OnStart, OnResume, OnRemoveDevice, flagVars, histVars
  <2>2. LiveSearch => LiveSearch'
    BY <2>1, SameKeepsSearch
  <2>3. isScanning' => isScanning
    BY <1>7 DEF OnStart, OnResume, OnRemoveDevice, flagVars
  <2> QED  BY <1>f, <2>1, <2>2, <2>3 DEF ScanFlagHonest
<1>8. CASE OnPause
  <2> DEFINE end == IF \E i \in DOMAIN queue : queue[i].of = "auto" /\ queue[i].live
                      THEN <<Message([Task("auto", None) EXCEPT !.live = FALSE], "none", None, {})>>
                      ELSE <<>>
  <2>1. end \in Seq(Messages)
    <3>1. [Task("auto", None) EXCEPT !.live = FALSE] \in Tasks
      <4>1. Task("auto", None) \in Tasks
        BY TaskTyped, ServersTyped DEF TaskKinds
      <4> QED  BY <4>1 DEF Tasks
    <3>2. Message([Task("auto", None) EXCEPT !.live = FALSE], "none", None, {}) \in Messages
      BY <3>1, MessageTyped, ServersTyped DEF Results
    <3> QED  BY <3>2
  <2>2. Submit({"auto"}, <<>>) /\ uiQueue' = Silence(uiQueue, {"auto"}) \o end
    BY <1>8 DEF OnPause
  <2>3. \A m \in Items(uiQueue) : IsLive(m, "search") => m \in Items(uiQueue')
    <3> HIDE DEF end
    <3>1. Silence(uiQueue, {"auto"}) \in Seq(Messages)
      BY <1>q, SilenceTyped
    <3>2. Items(uiQueue') = Items(Silence(uiQueue, {"auto"})) \cup Items(end)
      BY <2>1, <2>2, <3>1, ItemsConcat
    <3> QED  BY <1>q, <3>2, SilenceKeepsSearch
  <2>4. LiveSearch => LiveSearch'
    BY <1>q, <1>e, <2>2, <2>3, SubmitKeepsSearch
  <2>5. UNCHANGED <<isScanning, autoConnect, fruitless>>
    BY <1>8 DEF OnPause, histVars
  <2> QED  BY <1>f, <2>4, <2>5 DEF ScanFlagHonest
<1>9. CASE \E b \in Boxes : OnConectIpPass(b)
  <2>1. PICK b \in Boxes : OnConectIpPass(b)
    BY <1>9
  <2>2. <<Task("connect", b)>> \in Seq(Tasks)
    BY TaskTyped, ServersTyped, OneTaskTyped DEF TaskKinds
  <2>3. LiveSearch => LiveSearch'
    BY <1>q, <2>1, <2>2, SubmitKeepsSearch, SilenceKeepsSearch DEF OnConectIpPass, ConnectTo
  <2>4. UNCHANGED <<isScanning, autoConnect, fruitless>>
    BY <2>1 DEF OnConectIpPass, flagVars
  <2> QED  BY <1>f, <2>3, <2>4 DEF ScanFlagHonest
<1> QED
  BY <1>1, <1>2, <1>3, <1>4, <1>5, <1>6, <1>7, <1>8, <1>9 DEF User

LEMMA HandleMessageScan == ScanInv /\ HandleMessage => ScanFlagHonest'
<1> SUFFICES ASSUME ScanInv, uiQueue # <<>>, NEW m, m = Head(uiQueue),
                    SearchCompleted(m) \/ AutoConnected(m) \/ ConnectReported(m) \/ Dropped(m)
             PROVE  ScanFlagHonest'
  BY DEF HandleMessage
<1>q. TypeOK
  BY DEF ScanInv
<1>f. isScanning => LiveSearch \/ autoConnect \/ fruitless
  BY DEF ScanInv, ScanFlagHonest
<1>1. CASE SearchCompleted(m)
  <2>1. ~isScanning' \/ autoConnect' \/ fruitless'
    <3>1. \A list : ChooseBox(list) => autoConnect' \/ fruitless'
      BY <1>q DEF ChooseBox, TypeOK
    <3> QED
      BY <1>1, <3>1 DEF SearchCompleted, SearchEndsScan, ScheduleKartrol
  <2> QED  BY <2>1 DEF ScanFlagHonest
<1>2. CASE AutoConnected(m)
  BY <1>2 DEF AutoConnected, AutoIsOver, ScanFlagHonest
<1>3. CASE ConnectReported(m)
  <2>1. CASE ConnectFailed(m)
    BY <2>1 DEF ConnectFailed, DefaultView, ScanFlagHonest
  <2>2. CASE LoggedIn(m) \/ Refused(m) \/ Invalid(m)
    <3>1. UNCHANGED <<isScanning, autoConnect, fruitless, queue, running>>
          /\ uiQueue' = Tail(uiQueue) /\ ~IsLive(m, "search")
      BY <1>3, <2>2 DEF ConnectReported, LoggedIn, Refused, Invalid, IsLive
    <3>2. LiveSearch => LiveSearch'
      BY <1>q, <3>1, TailKeepsSearch, SameKeepsSearch
    <3> QED  BY <1>f, <3>1, <3>2 DEF ScanFlagHonest
  <2> QED  BY <1>3, <2>1, <2>2 DEF ConnectReported
<1>4. CASE Dropped(m)
  <2>1. UNCHANGED <<isScanning, autoConnect, fruitless, queue, running>>
        /\ uiQueue' = Tail(uiQueue) /\ ~IsLive(m, "search")
    BY <1>4 DEF Dropped, IsLive, flagVars, histVars
  <2>2. LiveSearch => LiveSearch'
    BY <1>q, <2>1, TailKeepsSearch, SameKeepsSearch
  <2> QED  BY <1>f, <2>1, <2>2 DEF ScanFlagHonest
<1> QED  BY <1>1, <1>2, <1>3, <1>4
LEMMA SessionScan == ScanInv /\ Session => ScanFlagHonest'
<1> SUFFICES ASSUME ScanInv, Session PROVE ScanFlagHonest'
  OBVIOUS
<1>1. CASE StatusChanges
  <2>1. UNCHANGED <<isScanning, autoConnect, fruitless, queue, running, uiQueue>>
    BY <1>1 DEF StatusChanges, flagVars, histVars
  <2>2. LiveSearch => LiveSearch'
    BY <2>1, SameKeepsSearch
  <2> QED  BY <2>1, <2>2 DEF ScanInv, ScanFlagHonest
<1>2. CASE RequestFails \/ SessionLost
  BY <1>2 DEF RequestFails, SessionLost, DefaultView, ScanFlagHonest
<1> QED  BY <1>1, <1>2 DEF Session

LEMMA WorksScan == ScanInv /\ Works => ScanFlagHonest'
<1> SUFFICES ASSUME ScanInv, Works PROVE ScanFlagHonest'
  OBVIOUS
<1>q. TypeOK /\ uiQueue \in Seq(Messages) /\ running \in Tasks /\ queue \in Seq(Tasks)
  BY ItemsTyped DEF ScanInv
<1>n. None \in Servers /\ {} \in SUBSET Boxes /\ {"found", "some", "none"} \subseteq Results
      /\ ConnectResults \subseteq Results
  BY ServersTyped DEF Results
<1>f. isScanning => LiveSearch \/ autoConnect \/ fruitless
  BY DEF ScanInv, ScanFlagHonest
<1>s. UNCHANGED <<isScanning, autoConnect, fruitless>>
  <2>1. UIOnly => UNCHANGED <<isScanning, autoConnect, fruitless>>
    BY DEF UIOnly, flagVars
  <2>2. StartTask => UNCHANGED <<isScanning, autoConnect, fruitless>>
    BY DEF StartTask, flagVars, histVars
  <2> QED
    BY <2>1, <2>2 DEF Works, BindFails, Broadcasts, BoxAnswers, SearchReturns, AutoLast,
       AutoTakesCurrent, AutoTests, AutoGets, AutoOutOfBounds, StartLast, StartPings,
       StartReads, StartConnects, Connects
<1>g. \A step : Goes(step) => (LiveSearch => LiveSearch')
  BY SameKeepsSearch DEF Goes
<1>u. UNCHANGED <<queue, running, uiQueue>> => (LiveSearch => LiveSearch')
  BY SameKeepsSearch
<1>r. ASSUME NEW r \in Results, NEW b \in Servers, NEW f \in SUBSET Boxes, Returns(r, b, f)
      PROVE  LiveSearch => LiveSearch'
  BY <1>q, <1>r, ReturnsKeepsSearch
<1>w. LiveSearch => LiveSearch'
  <2>1. CASE StartTask
    BY <1>q, <2>1, StartTaskKeepsSearch
  <2>2. CASE BindFails \/ (\E b \in Boxes : BoxAnswers(b)) \/ AutoOutOfBounds
    BY <1>u, <2>2 DEF BindFails, BoxAnswers, AutoOutOfBounds
  <2>3. CASE Broadcasts
    BY <1>g, <1>r, <1>n, <2>3 DEF Broadcasts
  <2>4. CASE SearchReturns
    BY <1>q, <1>r, <1>n, <2>4 DEF SearchReturns, TypeOK
  <2>5. CASE AutoLast
    BY <1>g, <2>5 DEF AutoLast, TakesLast
  <2>6. CASE AutoTakesCurrent
    BY <1>q, <1>r, <1>n, <2>6 DEF AutoTakesCurrent, TypeOK
  <2>7. CASE AutoTests
    BY <1>g, <1>r, <1>n, <2>7 DEF AutoTests
  <2>8. CASE AutoGets
    <3>1. listDeviceCurrent \subseteq Servers
      BY <1>q DEF TypeOK
    <3> QED  BY <1>g, <1>r, <1>n, <2>8, <3>1 DEF AutoGets
  <2>9. CASE StartLast
    BY <1>g, <1>r, <1>n, <2>9 DEF StartLast, TakesLast
  <2>10. CASE StartPings
    BY <1>g, <1>r, <1>n, <2>10 DEF StartPings
  <2>11. CASE StartReads
    <3>1. Goes("call")
      BY <2>11 DEF StartReads
    <3> QED  BY <1>g, <3>1
  <2>12. CASE StartConnects
    <3> DEFINE n == Message(running, "none", None, {})
    <3>1. /\ running.of = "start"
          /\ queue' = Append(SilenceTasks(queue, {"connect"}), Task("connect", target))
          /\ uiQueue' = Append(Silence(uiQueue, {"connect"}), n)
      BY <2>12 DEF StartConnects, Busy
    <3>2. n \in Messages
      BY <1>q, <1>n, MessageTyped
    <3>3. Task("connect", target) \in Tasks
      BY <1>q, TaskTyped DEF TypeOK, TaskKinds
    <3>4. SilenceTasks(queue, {"connect"}) \in Seq(Tasks) /\ Silence(uiQueue, {"connect"}) \in Seq(Messages)
      BY <1>q, SilenceTasksTyped, SilenceTyped
    <3>5. Items(queue') = Items(SilenceTasks(queue, {"connect"})) \cup {Task("connect", target)}
      BY <3>1, <3>3, <3>4, ItemsAppend
    <3>6. Items(uiQueue') = Items(Silence(uiQueue, {"connect"})) \cup {n}
      BY <3>1, <3>2, <3>4, ItemsAppend
    <3>7. ASSUME NEW t \in Pending, IsLive(t, "search") PROVE t \in Pending'
      <4>1. t # running
        BY <3>1, <3>7 DEF IsLive
      <4>2. CASE t \in Items(queue)
        BY <1>q, <3>5, <3>7, <4>2, ItemsSilenceTasks DEF IsLive, Pending
      <4>3. CASE t \in Items(uiQueue)
        BY <1>q, <3>6, <3>7, <4>3, ItemsSilence DEF IsLive, Pending
      <4> QED  BY <3>7, <4>1, <4>2, <4>3 DEF Pending
    <3> QED  BY <3>7, LiveSearchPends DEF SearchPends
  <2>13. CASE Connects
    <3>1. running.of = "connect" /\ target \in Servers
      BY <1>q, <2>13 DEF Connects, Busy, TypeOK
    <3>2. CASE clientSocket # None
      <4>1. UNCHANGED <<queue, uiQueue>>
        BY <2>13, <3>2 DEF Connects
      <4> QED  BY <3>1, <4>1, LiveSearchPends DEF SearchPends, Pending, IsLive
    <3>3. CASE clientSocket = None
      <4>1. \E r \in Results : Returns(r, target, {})
        BY <1>n, <2>13, <3>3 DEF Connects, Opens, ConnectResults
      <4> QED  BY <1>n, <1>r, <3>1, <4>1
    <3> QED  BY <3>2, <3>3
  <2> QED
    BY <2>1, <2>2, <2>3, <2>4, <2>5, <2>6, <2>7, <2>8, <2>9, <2>10, <2>11, <2>12, <2>13
    DEF Works
<1> QED  BY <1>f, <1>s, <1>w DEF ScanFlagHonest

LEMMA TimerScan == ScanInv /\ Timer => ScanFlagHonest'
<1> SUFFICES ASSUME ScanInv, Timer PROVE ScanFlagHonest'
  OBVIOUS
<1>q. TypeOK /\ uiQueue \in Seq(Messages) /\ queue \in Seq(Tasks)
  BY ItemsTyped DEF ScanInv
<1>e. <<>> \in Seq(Tasks)
  OBVIOUS
<1>s. UNCHANGED <<isScanning, autoConnect, fruitless>>
  BY DEF Timer, KartrolPings, KartrolDisconnects, KartrolConnects, KartrolSetsCurrent, KartrolStep,
     PingBegins, PingReturns, PingSetsCurrent, PingDisconnects, PingStarts, PingStep, TimerOnly,
     flagVars
<1>c. CloseFromTimer => (LiveSearch => LiveSearch')
  BY <1>q, <1>e, SubmitKeepsSearch, SilenceKeepsSearch DEF CloseFromTimer
<1>u. UNCHANGED <<queue, running, uiQueue>> => (LiveSearch => LiveSearch')
  BY SameKeepsSearch
<1>w. LiveSearch => LiveSearch'
  <2>1. CASE \E t \in Timers : KartrolPings(t) \/ KartrolSetsCurrent(t)
    BY <1>u, <2>1 DEF KartrolPings, KartrolSetsCurrent
  <2>2. CASE \E t \in Timers : KartrolDisconnects(t)
    BY <1>c, <2>2 DEF KartrolDisconnects
  <2>3. CASE \E t \in Timers : KartrolConnects(t)
    <3>1. PICK t \in Timers : KartrolConnects(t)
      BY <2>3
    <3>2. <<Task("connect", kartrolTimer[t].box)>> \in Seq(Tasks)
      <4>1. kartrolTimer[t].box \in Servers
        BY <1>q DEF TypeOK
      <4> QED  BY <4>1, TaskTyped, OneTaskTyped DEF TaskKinds
    <3> QED  BY <1>q, <3>1, <3>2, SubmitKeepsSearch, SilenceKeepsSearch DEF KartrolConnects
  <2>4. CASE PingBegins \/ PingReturns \/ PingSetsCurrent
    BY <1>u, <2>4 DEF PingBegins, PingReturns, PingSetsCurrent
  <2>5. CASE PingDisconnects
    BY <1>c, <2>5 DEF PingDisconnects
  <2>6. CASE PingStarts
    <3>1. /\ queue' = queue \/ queue' = Append(queue, Task("start", None))
          /\ UNCHANGED <<running, uiQueue>>
      BY <2>6 DEF PingStarts
    <3>2. Items(queue) \subseteq Items(queue')
      <4>1. Task("start", None) \in Tasks
        BY TaskTyped, ServersTyped DEF TaskKinds
      <4>2. Items(Append(queue, Task("start", None))) = Items(queue) \cup {Task("start", None)}
        BY <1>q, <4>1, ItemsAppend
      <4> QED  BY <3>1, <4>2
    <3> QED  BY <3>1, <3>2, LiveSearchPends DEF SearchPends, Pending
  <2> QED  BY <2>1, <2>2, <2>3, <2>4, <2>5, <2>6 DEF Timer
<1> QED  BY <1>s, <1>w DEF ScanInv, ScanFlagHonest

\* While the list shows a search in progress there is one whose result will be handled,
\* or an automatic connection that will reset the flag, or the last one found no box.
THEOREM ScanFlagIsHonest == Spec => []ScanFlagHonest
<1>1. Init => ScanFlagHonest
  BY DEF Init, ScanFlagHonest
<1>2. ScanInv /\ [Next]_vars => ScanFlagHonest'
  <2>1. UNCHANGED vars /\ ScanInv => ScanFlagHonest'
    <3>1. UNCHANGED vars => UNCHANGED <<isScanning, autoConnect, fruitless, queue, running, uiQueue>>
      BY DEF vars, flagVars, histVars
    <3> QED  BY <3>1, SameKeepsSearch DEF ScanInv, ScanFlagHonest
  <2> QED
    BY <2>1, UserScan, HandleMessageScan, SessionScan, WorksScan, TimerScan DEF Next
<1> QED  BY <1>1, <1>2, SearchTypeCorrect, PTL DEF Spec, ScanInv
-----------------------------------------------------------------------------
(* The box chosen last on the UI thread.                                   *)

ChosenHolds == chosen # None =>
    /\ connectedServer = chosen
    /\ \A t \in Pending : IsLive(t, "connect") => t.box = chosen
TargetHolds == running.of = "connect" => target = running.box
ChosenInv == TypeOK /\ ChosenHolds /\ TargetHolds

\* No live connect appears, whatever else the step does.
NoNewConnect ==
    \A t \in Pending' : IsLive(t, "connect") =>
        \E u \in Pending : IsLive(u, "connect") /\ u.box = t.box
LoginReported == Reported /\ chosen # None => session' = chosen /\ lastIP' = chosen

LEMMA ChosenKept ==
    ASSUME ChosenInv, NoNewConnect, UNCHANGED <<chosen, connectedServer>>
    PROVE  ChosenHolds'
BY DEF ChosenInv, ChosenHolds, NoNewConnect

LEMMA ChosenForgotten == chosen' = None => ChosenHolds'
BY DEF ChosenHolds

LEMMA SubmitNoConnect ==
    ASSUME TypeOK, NEW ks, NEW ts \in Seq(Tasks), Submit(ks, ts),
           \A t \in Items(ts) : t.of # "connect",
           \A m \in Items(uiQueue') : IsLive(m, "connect") => m \in Items(uiQueue)
    PROVE  NoNewConnect
<1>1. ASSUME NEW t \in Pending', IsLive(t, "connect") PROVE t \in Pending
  <2>1. CASE t \in Items(queue')
    <3>1. t # NoTask
      BY <1>1 DEF IsLive, NoTask
    <3> QED  BY <1>1, <2>1, <3>1, SubmitItems DEF IsLive, Pending
  <2>2. CASE t = running'
    BY <1>1, <2>2, SubmitItems DEF IsLive, Pending
  <2>3. CASE t \in Items(uiQueue')
    BY <2>3, <1>1 DEF Pending
  <2> QED  BY <1>1, <2>1, <2>2, <2>3 DEF Pending
<1> QED  BY <1>1 DEF NoNewConnect

LEMMA SilenceNoConnect ==
    ASSUME NEW q \in Seq(Messages), NEW ks
    PROVE  \A m \in Items(Silence(q, ks)) : IsLive(m, "connect") => m \in Items(q)
BY ItemsSilence DEF IsLive

LEMMA SubmitTarget ==
    ASSUME ChosenInv, NEW ks, NEW ts, Submit(ks, ts), target' = target
    PROVE  TargetHolds'
<1>1. running \in Tasks
  BY DEF ChosenInv, TypeOK
<1> QED  BY <1>1 DEF ChosenInv, TargetHolds, Submit, Tasks

LEMMA SameNoConnect ==
    ASSUME UNCHANGED <<queue, running>>,
           \A m \in Items(uiQueue') : IsLive(m, "connect") => m \in Items(uiQueue)
    PROVE  NoNewConnect
BY DEF NoNewConnect, Pending

LEMMA StillTarget ==
    ASSUME ChosenInv, UNCHANGED <<running, target>>
    PROVE  TargetHolds'
BY DEF ChosenInv, TargetHolds

\* A connect begun on the UI thread is the only one that is live.
LEMMA ConnectToChosen ==
    ASSUME ChosenInv, NEW b \in Servers, NEW q \in Seq(Messages), ConnectTo(b, q), target' = target
    PROVE  ChosenHolds' /\ TargetHolds'
<1>1. /\ connectedServer' = b /\ chosen' = b
      /\ Submit({"connect"}, <<Task("connect", b)>>) /\ uiQueue' = Silence(q, {"connect"})
  BY DEF ConnectTo, SetCurrent
<1>2. Task("connect", b) \in Tasks /\ Task("connect", b).box = b
  BY TaskTyped DEF TaskKinds, Task
<1>3. <<Task("connect", b)>> \in Seq(Tasks) /\ Items(<<Task("connect", b)>>) = {Task("connect", b)}
  BY <1>2, ItemsSingle, OneTaskTyped
<1>4. ASSUME NEW t \in Pending', IsLive(t, "connect") PROVE t.box = b
  <2>1. CASE t \in Items(queue')
    <3>1. t # NoTask
      BY <1>4 DEF IsLive, NoTask
    <3>2. t = NoTask \/ t \in Items(<<Task("connect", b)>>) \/ t.of # "connect"
      BY <1>1, <1>3, <2>1, SubmitItems DEF ChosenInv
    <3> QED  BY <1>2, <1>3, <1>4, <3>1, <3>2 DEF IsLive
  <2>2. CASE t = running'
    BY <1>1, <1>3, <1>4, <2>2, SubmitItems DEF IsLive, ChosenInv
  <2>3. CASE t \in Items(uiQueue')
    BY <1>1, <1>4, <2>3, ItemsSilence DEF IsLive
  <2> QED  BY <1>4, <2>1, <2>2, <2>3 DEF Pending
<1> QED  BY <1>1, <1>4, SubmitTarget DEF ChosenHolds

LEMMA ReturnsNoConnect ==
    ASSUME ChosenInv, NEW r \in Results, NEW b \in Servers, NEW f \in SUBSET Boxes,
           Returns(r, b, f), running.of = "connect" => b = target
    PROVE  NoNewConnect /\ TargetHolds'
<1> DEFINE n == Message(running, r, b, f)
<1>1. n \in Messages /\ n.of = running.of /\ n.live = running.live /\ n.box = b
  BY ItemsTyped, MessageTyped DEF Message, ChosenInv
<1>2. queue' = queue /\ uiQueue' = Append(uiQueue, n) /\ running' = NoTask
  BY DEF Returns, Ends
<1>3. Items(uiQueue') = Items(uiQueue) \cup {n}
  BY <1>1, <1>2, ItemsTyped, ItemsAppend DEF ChosenInv
<1>4. ASSUME NEW t \in Pending', IsLive(t, "connect")
      PROVE  \E u \in Pending : IsLive(u, "connect") /\ u.box = t.box
  <2>1. CASE t \in Items(queue)
    BY <1>4, <2>1 DEF Pending
  <2>2. CASE t = running'
    BY <1>2, <1>4, <2>2 DEF IsLive, NoTask
  <2>3. CASE t \in Items(uiQueue)
    BY <1>4, <2>3 DEF Pending
  <2>4. CASE t = n
    <3>1. IsLive(running, "connect") /\ running.box = t.box
      BY <1>1, <1>4, <2>4 DEF IsLive, ChosenInv, TargetHolds
    <3> QED  BY <3>1 DEF Pending
  <2> QED  BY <1>2, <1>3, <1>4, <2>1, <2>2, <2>3, <2>4 DEF Pending
<1>5. TargetHolds'
  BY <1>2 DEF TargetHolds, NoTask
<1> QED  BY <1>4, <1>5 DEF NoNewConnect

LEMMA UserChosen == ChosenInv /\ User => ChosenHolds' /\ TargetHolds' /\ LoginReported
<1> SUFFICES ASSUME ChosenInv, User PROVE ChosenHolds' /\ TargetHolds' /\ LoginReported
  OBVIOUS
<1>q. TypeOK /\ uiQueue \in Seq(Messages)
  BY ItemsTyped DEF ChosenInv
<1>e. <<>> \in Seq(Tasks) /\ Items(<<>>) = {}
  <2>1. Items(<<>>) = {}
    BY ItemsSingle
  <2> QED  BY <2>1
<1>s. LoginReported
  BY DEF User, OnShowConnect, OnRefrresh, OnYesListener, OnBackList, OnDeviceBackLayout, OnDisConnect,
     OnStart, OnPause, OnResume, OnConectIpPass, OnRemoveDevice, ConnectTo, Close, netVars,
     LoginReported, Reported
<1> SUFFICES ChosenHolds' /\ TargetHolds'
  BY <1>s
<1>b. ASSUME BeginSearch, UNCHANGED <<chosen, connectedServer, target>>
      PROVE  ChosenHolds' /\ TargetHolds'
  <2>1. <<Search>> \in Seq(Tasks) /\ \A t \in Items(<<Search>>) : t.of # "connect"
    BY NoTaskTyped, OneTaskTyped, ItemsSingle DEF Search, Task
  <2>2. Submit({"search"}, <<Search>>)
        /\ \A m \in Items(uiQueue') : IsLive(m, "connect") => m \in Items(uiQueue)
    BY <1>q, <1>b, SilenceNoConnect DEF BeginSearch
  <2>3. NoNewConnect
    BY <1>q, <2>1, <2>2, SubmitNoConnect
  <2> QED  BY <1>b, <2>2, <2>3, SubmitTarget, ChosenKept
<1>u. ASSUME UNCHANGED <<queue, running, uiQueue, chosen, connectedServer, target>>
      PROVE  ChosenHolds' /\ TargetHolds'
  BY <1>u, SameNoConnect, ChosenKept, StillTarget
<1>1. CASE OnShowConnect
  BY <1>1, <1>b DEF OnShowConnect, currentVars, localVars
<1>2. CASE OnRefrresh
  <2>1. UNCHANGED <<chosen, connectedServer, target>>
    BY <1>2 DEF OnRefrresh, currentVars, localVars
  <2> QED  BY <1>2, <1>b, <1>u, <2>1 DEF OnRefrresh
<1>3. CASE OnYesListener
  BY <1>3, <1>b DEF OnYesListener, currentVars, localVars
<1>4. CASE OnBackList
  BY <1>4, <1>u DEF OnBackList, currentVars, localVars
<1>5. CASE OnDeviceBackLayout
  <2>1. Submit({"connect"}, <<>>) /\ UNCHANGED <<chosen, connectedServer, target>>
        /\ uiQueue' = Silence(uiQueue, {"connect"})
    BY <1>5 DEF OnDeviceBackLayout, currentVars, localVars
  <2>2. NoNewConnect
    BY <1>q, <1>e, <2>1, SubmitNoConnect, SilenceNoConnect
  <2> QED  BY <2>1, <2>2, SubmitTarget, ChosenKept
<1>6. CASE OnDisConnect
  <2>1. Submit({"connect", "search"}, <<Search>>) /\ chosen' = None /\ target' = target
    BY <1>6 DEF OnDisConnect, localVars
  <2> QED  BY <2>1, SubmitTarget, ChosenForgotten
<1>7. CASE OnStart \/ OnResume \/ \E b \in Servers : OnRemoveDevice(b)
  BY <1>7, <1>u DEF OnStart, OnResume, OnRemoveDevice, currentVars, localVars, histVars
<1>8. CASE OnPause
  <2> DEFINE end == IF \E i \in DOMAIN queue : queue[i].of = "auto" /\ queue[i].live
                      THEN <<Message([Task("auto", None) EXCEPT !.live = FALSE], "none", None, {})>>
                      ELSE <<>>
  <2>1. end \in Seq(Messages) /\ \A m \in Items(end) : m.of # "connect"
    <3> DEFINE n == Message([Task("auto", None) EXCEPT !.live = FALSE], "none", None, {})
    <3>1. [Task("auto", None) EXCEPT !.live = FALSE] \in Tasks
      <4>1. Task("auto", None) \in Tasks
        BY TaskTyped, ServersTyped DEF TaskKinds
      <4> QED  BY <4>1 DEF Tasks
    <3>2. n \in Messages
      BY <3>1, MessageTyped, ServersTyped DEF Results
    <3>3. n.of = "auto"
      BY DEF Message, Task
    <3>4. Items(<<n>>) = {n}
      BY ItemsSingle
    <3> HIDE DEF n
    <3>5. end = <<n>> \/ end = <<>>
      BY DEF n
    <3> HIDE DEF end
    <3>6. <<n>> \in Seq(Messages) /\ <<>> \in Seq(Messages)
      BY <3>2
    <3> QED  BY <1>e, <3>3, <3>4, <3>5, <3>6
  <2>2. Submit({"auto"}, <<>>) /\ uiQueue' = Silence(uiQueue, {"auto"}) \o end
        /\ UNCHANGED <<chosen, connectedServer, target>>
    BY <1>8 DEF OnPause, currentVars, localVars, histVars
  <2>3. \A m \in Items(uiQueue') : IsLive(m, "connect") => m \in Items(uiQueue)
    <3> HIDE DEF end
    <3>1. Silence(uiQueue, {"auto"}) \in Seq(Messages)
      BY <1>q, SilenceTyped
    <3>2. Items(uiQueue') = Items(Silence(uiQueue, {"auto"})) \cup Items(end)
      BY <2>1, <2>2, <3>1, ItemsConcat
    <3> QED  BY <1>q, <2>1, <3>2, SilenceNoConnect DEF IsLive
  <2>4. NoNewConnect
    BY <1>q, <1>e, <2>2, <2>3, SubmitNoConnect
  <2> QED  BY <2>2, <2>4, SubmitTarget, ChosenKept
<1>9. CASE \E b \in Boxes : OnConectIpPass(b)
  <2>1. PICK b \in Boxes : OnConectIpPass(b)
    BY <1>9
  <2>2. ConnectTo(b, uiQueue) /\ target' = target /\ b \in Servers
    BY <2>1, ServersTyped DEF OnConectIpPass, localVars
  <2> QED  BY <1>q, <2>2, ConnectToChosen
<1> QED
  BY <1>1, <1>2, <1>3, <1>4, <1>5, <1>6, <1>7, <1>8, <1>9 DEF User
LEMMA HandleMessageChosen ==
    ChosenInv /\ HandleMessage => ChosenHolds' /\ TargetHolds' /\ LoginReported
<1> SUFFICES ASSUME ChosenInv, uiQueue # <<>>, NEW m, m = Head(uiQueue),
                    SearchCompleted(m) \/ AutoConnected(m) \/ ConnectReported(m) \/ Dropped(m)
             PROVE  ChosenHolds' /\ TargetHolds' /\ LoginReported
  BY DEF HandleMessage
<1>q. TypeOK /\ m \in Messages /\ m \in Items(uiQueue) /\ Tail(uiQueue) \in Seq(Messages)
      /\ queue \in Seq(Tasks)
  BY ItemsTyped DEF ChosenInv
<1>t. \A n \in Items(Tail(uiQueue)) : n \in Items(uiQueue)
  BY <1>q, ItemsTyped
<1>k. ASSUME UNCHANGED <<queue, running, chosen, connectedServer, target>>, uiQueue' = Tail(uiQueue)
      PROVE  ChosenHolds' /\ TargetHolds'
  BY <1>k, <1>t, SameNoConnect, ChosenKept, StillTarget
<1>n. session' = session \/ session' = None => LoginReported
  BY DEF LoginReported, Reported
<1>1. CASE SearchCompleted(m)
  <2>1. /\ UNCHANGED <<running, chosen, connectedServer, target, session>>
        /\ uiQueue' = Tail(uiQueue)
    BY <1>1 DEF SearchCompleted, currentVars, netVars, localVars
  <2>2. queue' = queue \/ queue' = Append(queue, Task("auto", None))
    BY <1>1 DEF SearchCompleted, SearchEndsScan, ScheduleKartrol, ChooseBox
  <2>3. CASE queue' = queue
    BY <1>k, <1>n, <2>1, <2>3
  <2>4. CASE queue' = Append(queue, Task("auto", None))
    <3>1. Task("auto", None) \in Tasks /\ Task("auto", None).of # "connect"
      BY TaskTyped, ServersTyped DEF TaskKinds, Task
    <3>2. Items(queue') = Items(queue) \cup {Task("auto", None)}
      BY <1>q, <2>4, <3>1, ItemsAppend
    <3>3. NoNewConnect
      BY <1>t, <2>1, <3>1, <3>2 DEF NoNewConnect, Pending, IsLive
    <3> QED  BY <1>n, <2>1, <3>3, ChosenKept, StillTarget
  <2> QED  BY <2>2, <2>3, <2>4
<1>2. CASE AutoConnected(m)
  <2>1. target' = target
    BY <1>2 DEF AutoConnected, AutoIsOver, localVars
  <2>2. CASE AutoMayConnect(m)
    <3>1. ConnectTo(m.box, Tail(uiQueue)) /\ m.box \in Servers
      BY <1>2, <1>q, <2>2 DEF AutoConnected, AutoIsOver, Messages
    <3>2. session' = None
      BY <3>1 DEF ConnectTo, Close
    <3> QED  BY <1>n, <1>q, <2>1, <3>1, <3>2, ConnectToChosen
  <2>3. CASE ~AutoMayConnect(m)
    <3>1. UNCHANGED <<queue, running, chosen, connectedServer, target, session>>
          /\ uiQueue' = Tail(uiQueue)
      BY <1>2, <2>1, <2>3 DEF AutoConnected, AutoIsOver, currentVars, netVars
    <3> QED  BY <1>k, <1>n, <3>1
  <2> QED  BY <2>2, <2>3
<1>3. CASE ConnectReported(m)
  <2>1. m.of = "connect" /\ m.live /\ target' = target
    BY <1>3 DEF ConnectReported, localVars
  <2>2. CASE LoggedIn(m)
    <3>1. /\ UNCHANGED <<queue, running, chosen, connectedServer>> /\ uiQueue' = Tail(uiQueue)
          /\ session' = m.box /\ lastIP' = connectedServer
      BY <2>2 DEF LoggedIn
    <3>2. chosen # None => m.box = chosen /\ connectedServer = chosen
      BY <1>q, <2>1 DEF ChosenInv, ChosenHolds, Pending, IsLive
    <3>3. LoginReported
      BY <3>1, <3>2 DEF LoginReported
    <3> QED  BY <1>k, <2>1, <3>1, <3>3
  <2>3. CASE Refused(m)
    <3>1. chosen' = None /\ UNCHANGED <<running, session>>
      BY <2>3 DEF Refused
    <3> QED  BY <1>n, <2>1, <3>1, ChosenForgotten, StillTarget
  <2>4. CASE Invalid(m)
    <3>1. UNCHANGED <<queue, running, chosen, connectedServer, session>> /\ uiQueue' = Tail(uiQueue)
      BY <2>4 DEF Invalid, currentVars
    <3> QED  BY <1>k, <1>n, <2>1, <3>1
  <2>5. CASE ConnectFailed(m)
    <3>1. chosen' = None /\ session' = None /\ Submit({"connect"}, <<>>)
      BY <2>5 DEF ConnectFailed, DefaultView, Close
    <3> QED  BY <1>n, <2>1, <3>1, ChosenForgotten, SubmitTarget
  <2> QED  BY <1>3, <2>2, <2>3, <2>4, <2>5 DEF ConnectReported
<1>4. CASE Dropped(m)
  <2>1. UNCHANGED <<queue, running, chosen, connectedServer, target, session>>
        /\ uiQueue' = Tail(uiQueue)
    BY <1>4 DEF Dropped, currentVars, netVars, localVars, histVars
  <2> QED  BY <1>k, <1>n, <2>1
<1> QED  BY <1>1, <1>2, <1>3, <1>4

LEMMA SessionChosen == ChosenInv /\ Session => ChosenHolds' /\ TargetHolds' /\ LoginReported
<1> SUFFICES ASSUME ChosenInv, Session PROVE ChosenHolds' /\ TargetHolds' /\ LoginReported
  OBVIOUS
<1>1. CASE StatusChanges \/ RequestFails
  <2>1. UNCHANGED <<queue, running, uiQueue, chosen, connectedServer, target, session>>
    BY <1>1 DEF StatusChanges, RequestFails, currentVars, netVars, localVars, histVars
  <2>2. LoginReported
    BY <2>1 DEF LoginReported, Reported
  <2> QED  BY <2>1, <2>2, SameNoConnect, ChosenKept, StillTarget
<1>2. CASE SessionLost
  <2>1. chosen' = None /\ session' = None /\ target' = target /\ Submit({"connect"}, <<>>)
    BY <1>2 DEF SessionLost, DefaultView, Close, localVars
  <2>2. LoginReported
    BY <2>1 DEF LoginReported, Reported
  <2> QED  BY <2>1, <2>2, ChosenForgotten, SubmitTarget
<1> QED  BY <1>1, <1>2 DEF Session

LEMMA StartTaskChosen ==
    ASSUME ChosenInv, StartTask
    PROVE  ChosenHolds' /\ TargetHolds'
<1>1. /\ queue # <<>> /\ queue' = Tail(queue) /\ running = NoTask
      /\ UNCHANGED <<uiQueue, chosen, connectedServer>>
      /\ \/ running' = Head(queue) /\ target' = Head(queue).box
         \/ UNCHANGED <<running, target>>
  BY DEF StartTask, currentVars, histVars
<1>2. Items(queue) = {Head(queue)} \cup Items(Tail(queue))
  BY <1>1, ItemsTyped DEF ChosenInv
<1>3. NoNewConnect
  BY <1>1, <1>2 DEF NoNewConnect, Pending
<1>4. TargetHolds'
  BY <1>1, StillTarget DEF TargetHolds
<1> QED  BY <1>1, <1>3, <1>4, ChosenKept

LEMMA WorksChosen == ChosenInv /\ Works => ChosenHolds' /\ TargetHolds' /\ LoginReported
<1> SUFFICES ASSUME ChosenInv, Works PROVE ChosenHolds' /\ TargetHolds' /\ LoginReported
  OBVIOUS
<1>q. TypeOK /\ uiQueue \in Seq(Messages) /\ running \in Tasks /\ queue \in Seq(Tasks)
  BY ItemsTyped DEF ChosenInv
<1>n. None \in Servers /\ {} \in SUBSET Boxes /\ {"found", "some", "none"} \subseteq Results
      /\ ConnectResults \subseteq Results
  BY ServersTyped DEF Results
<1>s. LoginReported
  <2>1. session' = session
    BY DEF Works, StartTask, BindFails, Broadcasts, BoxAnswers, SearchReturns, AutoLast,
       AutoTakesCurrent, AutoTests, AutoGets, AutoOutOfBounds, StartLast, StartPings,
       StartReads, StartConnects, Connects, netVars
  <2> QED  BY <2>1 DEF LoginReported, Reported
<1>r. ASSUME NEW r \in Results, NEW b \in Servers, NEW f \in SUBSET Boxes, Returns(r, b, f),
             UNCHANGED <<chosen, connectedServer>>, running.of = "connect" => b = target
      PROVE  ChosenHolds' /\ TargetHolds'
  BY <1>r, ReturnsNoConnect, ChosenKept
<1>u. ASSUME UNCHANGED <<queue, running, uiQueue, chosen, connectedServer, target>>
      PROVE  ChosenHolds' /\ TargetHolds'
  BY <1>u, SameNoConnect, ChosenKept, StillTarget
<1>g. ASSUME NEW step, Goes(step), UNCHANGED <<chosen, connectedServer, target>>
      PROVE  ChosenHolds' /\ TargetHolds'
  BY <1>g, <1>u DEF Goes
<1>l. ASSUME NEW step, TakesLast(step)
      PROVE  ChosenHolds' /\ TargetHolds'
  BY <1>l, ChosenForgotten, StillTarget DEF TakesLast, Goes
<1> SUFFICES ChosenHolds' /\ TargetHolds'
  BY <1>s
<1>1. CASE StartTask
  BY <1>1, StartTaskChosen
<1>2. CASE BindFails \/ (\E b \in Boxes : BoxAnswers(b)) \/ AutoOutOfBounds
  BY <1>u, <1>2 DEF BindFails, BoxAnswers, AutoOutOfBounds, currentVars, localVars
<1>3. CASE Broadcasts
  <2>1. running.of = "search" /\ UNCHANGED <<chosen, connectedServer>>
    BY <1>3 DEF Broadcasts, Busy, currentVars
  <2>2. CASE Goes("receive") /\ UNCHANGED target
    BY <1>g, <2>1, <2>2
  <2>3. CASE Returns("found", None, {})
    BY <1>r, <1>n, <2>1, <2>3
  <2> QED  BY <1>3, <2>2, <2>3 DEF Broadcasts
<1>4. CASE SearchReturns
  <2>1. /\ running.of = "search" /\ UNCHANGED <<chosen, connectedServer>>
        /\ Returns("found", None, found) /\ found \in SUBSET Boxes
    BY <1>q, <1>4 DEF SearchReturns, Busy, currentVars, TypeOK
  <2> QED  BY <1>r, <1>n, <2>1
<1>5. CASE AutoLast
  <2>1. CASE TakesLast("current")
    BY <1>l, <2>1
  <2>2. CASE Goes("test") /\ UNCHANGED <<target, chosen, connectedServer>>
    BY <1>g, <2>2
  <2> QED  BY <1>5, <2>1, <2>2 DEF AutoLast, currentVars
<1>6. CASE AutoTakesCurrent
  <2>1. /\ running.of = "auto" /\ UNCHANGED <<chosen, connectedServer>>
        /\ Returns("some", connectedServer, {}) /\ connectedServer \in Servers
    BY <1>q, <1>6 DEF AutoTakesCurrent, Busy, currentVars, TypeOK
  <2> QED  BY <1>r, <1>n, <2>1
<1>7. CASE AutoTests
  <2>1. running.of = "auto" /\ UNCHANGED <<chosen, connectedServer>>
    BY <1>7 DEF AutoTests, Busy, currentVars
  <2>2. CASE Goes("get") /\ UNCHANGED target
    BY <1>g, <2>1, <2>2
  <2>3. CASE Returns("none", None, {})
    BY <1>r, <1>n, <2>1, <2>3
  <2> QED  BY <1>7, <2>2, <2>3 DEF AutoTests
<1>8. CASE AutoGets
  <2>1. /\ running.of = "auto" /\ UNCHANGED <<chosen, connectedServer>>
        /\ listDeviceCurrent \subseteq Servers
    BY <1>q, <1>8 DEF AutoGets, Busy, currentVars, TypeOK
  <2>2. CASE Goes("test") /\ UNCHANGED target
    BY <1>g, <2>1, <2>2
  <2>3. CASE \E b \in listDeviceCurrent : Returns("some", b, {})
    BY <1>r, <1>n, <2>1, <2>3
  <2> QED  BY <1>8, <2>2, <2>3 DEF AutoGets
<1>9. CASE StartLast
  <2>1. running.of = "start"
    BY <1>9 DEF StartLast, Busy
  <2>2. CASE TakesLast("ping")
    BY <1>l, <2>2
  <2>3. CASE Returns("none", None, {}) /\ UNCHANGED <<chosen, connectedServer>>
    BY <1>r, <1>n, <2>1, <2>3
  <2> QED  BY <1>9, <2>2, <2>3 DEF StartLast, currentVars
<1>10. CASE StartPings
  <2>1. running.of = "start" /\ UNCHANGED <<chosen, connectedServer>>
    BY <1>10 DEF StartPings, Busy, currentVars
  <2>2. CASE Goes("read") /\ UNCHANGED target
    BY <1>g, <2>1, <2>2
  <2>3. CASE Returns("none", None, {})
    BY <1>r, <1>n, <2>1, <2>3
  <2> QED  BY <1>10, <2>2, <2>3 DEF StartPings
<1>11. CASE StartReads
  <2>1. running.of = "start" /\ UNCHANGED <<queue, running, uiQueue, chosen, connectedServer>>
    BY <1>11 DEF StartReads, Busy, Goes, currentVars
  <2> QED  BY <2>1, SameNoConnect, ChosenKept DEF TargetHolds
<1>12. CASE StartConnects
  <2>1. running' = NoTask /\ chosen' = None
    BY <1>12 DEF StartConnects, Ends
  <2> QED  BY <2>1, ChosenForgotten DEF TargetHolds, NoTask
<1>13. CASE Connects
  <2>1. target \in Servers /\ UNCHANGED <<chosen, connectedServer>>
    BY <1>q, <1>13 DEF Connects, TypeOK, currentVars
  <2>2. CASE clientSocket # None
    <3>1. running' = NoTask /\ UNCHANGED <<queue, uiQueue>>
      BY <1>13, <2>2 DEF Connects, Ends
    <3>2. NoNewConnect /\ TargetHolds'
      BY <3>1 DEF NoNewConnect, Pending, IsLive, NoTask, TargetHolds
    <3> QED  BY <2>1, <3>2, ChosenKept
  <2>3. CASE clientSocket = None
    <3>1. \E r \in Results : Returns(r, target, {})
      BY <1>n, <1>13, <2>3 DEF Connects, Opens, ConnectResults
    <3> QED  BY <1>n, <1>r, <2>1, <3>1
  <2> QED  BY <2>2, <2>3
<1> QED
  BY <1>1, <1>2, <1>3, <1>4, <1>5, <1>6, <1>7, <1>8, <1>9, <1>10, <1>11, <1>12, <1>13
  DEF Works

LEMMA TimerChosen == ChosenInv /\ Timer => ChosenHolds' /\ TargetHolds' /\ LoginReported
<1> SUFFICES ASSUME ChosenInv, Timer PROVE ChosenHolds' /\ TargetHolds' /\ LoginReported
  OBVIOUS
<1>q. TypeOK /\ uiQueue \in Seq(Messages) /\ queue \in Seq(Tasks)
  BY ItemsTyped DEF ChosenInv
<1>e. <<>> \in Seq(Tasks) /\ Items(<<>>) = {}
  <2>1. Items(<<>>) = {}
    BY ItemsSingle
  <2> QED  BY <2>1
<1>t. target' = target /\ (session' = session \/ session' = None)
  BY DEF Timer, KartrolPings, KartrolDisconnects, KartrolConnects, KartrolSetsCurrent, KartrolStep,
     PingBegins, PingReturns, PingSetsCurrent, PingDisconnects, PingStarts, PingStep, TimerOnly,
     CloseFromTimer, Close, netVars, localVars
<1> SUFFICES ChosenHolds' /\ TargetHolds'
  BY <1>t DEF LoginReported, Reported
<1>c. ASSUME CloseFromTimer PROVE ChosenHolds' /\ TargetHolds'
  <2>1. Submit({"connect"}, <<>>) /\ UNCHANGED <<chosen, connectedServer>>
        /\ uiQueue' = Silence(uiQueue, {"connect"})
    BY <1>c DEF CloseFromTimer, currentVars
  <2>2. NoNewConnect
    BY <1>q, <1>e, <2>1, SubmitNoConnect, SilenceNoConnect
  <2> QED  BY <1>t, <2>1, <2>2, SubmitTarget, ChosenKept
<1>1. CASE \E t \in Timers : KartrolPings(t)
  <2>1. UNCHANGED <<queue, running, uiQueue, chosen, connectedServer>>
    BY <1>1 DEF KartrolPings, currentVars
  <2> QED  BY <1>t, <2>1, SameNoConnect, ChosenKept, StillTarget
<1>2. CASE \E t \in Timers : KartrolDisconnects(t)
  BY <1>c, <1>2 DEF KartrolDisconnects
<1>3. CASE \E t \in Timers : KartrolConnects(t)
  <2>1. PICK t \in Timers : KartrolConnects(t)
    BY <1>3
  <2>2. chosen' = None /\ Submit({"connect"}, <<Task("connect", kartrolTimer[t].box)>>)
    BY <2>1 DEF KartrolConnects
  <2> QED  BY <1>t, <2>2, SubmitTarget, ChosenForgotten
<1>4. CASE (\E t \in Timers : KartrolSetsCurrent(t)) \/ PingSetsCurrent
  <2>1. chosen' = None /\ UNCHANGED running
    BY <1>4 DEF KartrolSetsCurrent, PingSetsCurrent
  <2> QED  BY <1>t, <2>1, StillTarget, ChosenForgotten
<1>5. CASE PingBegins \/ PingReturns
  <2>1. UNCHANGED <<queue, running, uiQueue, chosen, connectedServer>>
    BY <1>5 DEF PingBegins, PingReturns, currentVars
  <2> QED  BY <1>t, <2>1, SameNoConnect, ChosenKept, StillTarget
<1>6. CASE PingDisconnects
  BY <1>c, <1>6 DEF PingDisconnects
<1>7. CASE PingStarts
  <2>1. /\ queue' = queue \/ queue' = Append(queue, Task("start", None))
        /\ UNCHANGED <<running, uiQueue, chosen, connectedServer>>
    BY <1>7 DEF PingStarts, currentVars
  <2>2. Task("start", None) \in Tasks /\ Task("start", None).of # "connect"
    BY TaskTyped, ServersTyped DEF TaskKinds, Task
  <2>3. Items(Append(queue, Task("start", None))) = Items(queue) \cup {Task("start", None)}
    BY <1>q, <2>2, ItemsAppend
  <2>4. NoNewConnect
    BY <2>1, <2>2, <2>3 DEF NoNewConnect, Pending, IsLive
  <2> QED  BY <1>t, <2>1, <2>4, ChosenKept, StillTarget
<1> QED  BY <1>1, <1>2, <1>3, <1>4, <1>5, <1>6, <1>7 DEF Timer

\* The login that is reported is remembered as that of the box chosen last on the UI
\* thread, however many connects were replaced, cancelled or under way, as long as no
\* worker and no timer has connected or changed the box meanwhile.
THEOREM LoginsRememberTheChosen == Spec => LoginRemembersChosen
<1>1. Init => ChosenHolds /\ TargetHolds
  BY DEF Init, ChosenHolds, TargetHolds, NoTask
<1>2. ChosenInv /\ [Next]_vars => ChosenHolds' /\ TargetHolds' /\ LoginReported
  <2>1. ChosenInv /\ UNCHANGED vars => ChosenHolds' /\ TargetHolds' /\ LoginReported
    <3> SUFFICES ASSUME ChosenInv, UNCHANGED vars
                 PROVE  ChosenHolds' /\ TargetHolds' /\ LoginReported
      OBVIOUS
    <3>1. UNCHANGED <<queue, running, uiQueue, chosen, connectedServer, target, session>>
      BY DEF vars, currentVars, netVars, localVars, histVars
    <3> QED
      BY <3>1, SameNoConnect, ChosenKept, StillTarget DEF LoginReported, Reported
  <2> QED
    BY <2>1, UserChosen, HandleMessageChosen, SessionChosen, WorksChosen, TimerChosen DEF Next
<1>3. LoginReported => [Reported /\ chosen # None => session' = chosen /\ lastIP' = chosen]_vars
  BY DEF LoginReported
<1> QED
  BY <1>1, <1>2, <1>3, SearchTypeCorrect, PTL DEF Spec, ChosenInv, LoginRemembersChosen
=============================================================================
