---------------------------- MODULE DeviceSearch ----------------------------
(***************************************************************************)
(* How the app finds a box and connects to it by itself.  The user opens   *)
(* the list of boxes and a search begins: one broadcast, answers until     *)
(* there is silence.  From what was found and what is remembered the       *)
(* activity chooses a box and connects (AutoConnect), or a timer thread    *)
(* does (a lone KARTROL box), or the timer that looks for the last box     *)
(* every ten seconds (PingTask with MyApplication's ConnectDevice).        *)
(*                                                                         *)
(* All of them, and the user, write the same field connectedServer and     *)
(* use the same NetworkSocket, from the UI thread, the pool thread of      *)
(* AsyncTask's serial executor, and two kinds of timer threads; what a     *)
(* login remembers is what that field says when the login is reported.     *)
(*                                                                         *)
(* A handler of the UI thread is one step, and so are the teardown of a    *)
(* disconnect and the handshake of a connect: CommandSession has them in   *)
(* detail.  When PingTask is allowed to look is DownloadChain's subject.   *)
(***************************************************************************)
EXTENDS Naturals, Sequences, FiniteSets

CONSTANTS
    Boxes,      \* the boxes of the network
    Kartrol,    \* those of the models KARTROL and KM1
    None,       \* the empty address of a new SKServer
    Timers,     \* bound: the timer threads made for a lone KARTROL box
    Pinging,    \* bound: whether PingTask looks for the last box
    MaxPending  \* bound: tasks and messages that a click of the user finds

ASSUME DeviceSearchAssumption ==
    /\ IsFiniteSet(Boxes) /\ Kartrol \subseteq Boxes /\ None \notin Boxes
    /\ Pinging \in BOOLEAN /\ MaxPending \in Nat

Servers == Boxes \cup {None}

VARIABLES
    isScanning, flagAllowConnect, serverStatus, intWifiRemote, \* TouchMainActivity
    visible,             \* its field isDestroyMainActivity, TRUE from resume to pause
    autoConnect,         \* its field: an AutoConnect task is under way
    enableConnectDevice, \* MyApplication's field
    connectedServer,     \* MyApplication's field: the address of the current box
    confirmed,           \* that SKServer's state is CONNECTED
    listDeviceCurrent,   \* MyApplication's field: the boxes in the list
    deviceStote,         \* remembered boxes, kept on disk
    lastIP,              \* the last box logged in to, kept on disk
    clientSocket,        \* NetworkSocket's field: the box it is connected to
    session,             \* the box whose login was reported last, until a disconnect
    queue,               \* the tasks that wait for the serial executor
    running,             \* the task it runs
    pc,                  \* where that task is
    target, index, found, \* its locals: a box, the place in the list, boxes that answered
    uiQueue,             \* results on their way to the UI thread
    kartrolTimer,        \* the threads of deviceSearchCompleted
    pingTask,            \* the thread of PingTask
    crashed,             \* an exception ended the process
    fruitless,           \* history: the last search to be reported found no box
    refreshed,           \* history: flagAllowConnect was set again since the last login
    chosen               \* history: the box the UI thread is connecting to, None when
                         \* another thread has connected or changed the current box since

flagVars == <<isScanning, flagAllowConnect, autoConnect, visible>>
statusVars == <<serverStatus, intWifiRemote>>
currentVars == <<connectedServer, confirmed>>
storeVars == <<deviceStote, lastIP>>
netVars == <<clientSocket, session, enableConnectDevice>>
localVars == <<pc, target, index, found>>
threadVars == <<kartrolTimer, pingTask>>
histVars == <<fruitless, refreshed, chosen>>
vars == <<flagVars, statusVars, currentVars, storeVars, netVars, listDeviceCurrent,
          queue, running, localVars, uiQueue, threadVars, crashed, histVars>>

-----------------------------------------------------------------------------
(* The serial executor and the message queue.  A task and the message with *)
(* its result are live until the task is cancelled.                        *)

Task(k, b) == [of |-> k, box |-> b, live |-> TRUE]
Search == Task("search", None)
NoTask == [of |-> "none", box |-> None, live |-> FALSE]
TaskKinds == {"search", "auto", "start", "connect", "none"}
Tasks == [of : TaskKinds, box : Servers, live : BOOLEAN]

Message(t, r, b, f) == [of |-> t.of, result |-> r, box |-> b, boxes |-> f, live |-> t.live]
ConnectResults == {"login", "refused", "invalid", "timedOut", "lost"}
Results == {"found", "some", "none"} \cup ConnectResults
Messages == [of : TaskKinds, result : Results, box : Servers, boxes : SUBSET Boxes, live : BOOLEAN]

\* A cancelled search or connect tells nobody; the result of a cancelled AutoConnect
\* still goes to its onCancelled.
NoMessage == Message(NoTask, "none", None, {})
SilenceTasks(q, ks) == [i \in DOMAIN q |-> IF q[i].of \in ks THEN NoTask ELSE q[i]]
Silence(q, ks) ==
    [i \in DOMAIN q |-> IF q[i].of \notin ks THEN q[i]
                       ELSE IF q[i].of = "auto" THEN [q[i] EXCEPT !.live = FALSE]
                       ELSE NoMessage]

\* Cancels the tasks of kinds ks and executes the tasks ts.
Submit(ks, ts) ==
    /\ queue' = SilenceTasks(queue, ks) \o ts
    /\ running' = [running EXCEPT !.live = @ /\ running.of \notin ks]

Idle == [pc |-> "idle", box |-> None]

\* The app has been started: MyApplication.onStart has executed ConnectDevice.
Init ==
    /\ isScanning = FALSE /\ flagAllowConnect = TRUE /\ autoConnect = FALSE /\ visible = TRUE
    /\ serverStatus = FALSE /\ intWifiRemote = "SONCA"
    /\ connectedServer = None /\ confirmed = FALSE
    /\ listDeviceCurrent = {}
    /\ deviceStote \in SUBSET Boxes /\ lastIP \in deviceStote \cup {None}
    /\ clientSocket = None /\ session = None /\ enableConnectDevice = TRUE
    /\ queue = <<Task("start", None)>> /\ running = NoTask
    /\ pc = "idle" /\ target = None /\ index = 0 /\ found = {}
    /\ uiQueue = <<>>
    /\ kartrolTimer = [t \in Timers |-> Idle] /\ pingTask = Idle
    /\ crashed = FALSE
    /\ fruitless = FALSE /\ refreshed = FALSE /\ chosen = None

-----------------------------------------------------------------------------
(* What handlers are made of                                               *)

\* setListServers(null) and searchNearbyDevice.
BeginSearch ==
    /\ listDeviceCurrent' = deviceStote
    /\ Submit({"search"}, <<Search>>)
    /\ uiQueue' = Silence(uiQueue, {"search"})
    /\ fruitless' = FALSE

\* MyApplication.disconnectFromRemoteHost, as far as the connection goes; connectTask
\* is silenced by its caller.
Close == clientSocket' = None /\ session' = None /\ enableConnectDevice' = TRUE

SetCurrent_Null(b) == connectedServer' = (IF b = None THEN "null" ELSE b) /\ confirmed' = FALSE

\* setDeviceCurrent of a new SKServer.
SetCurrent(b) == connectedServer' = b /\ confirmed' = FALSE

ConnectTo_NoCancel(b, q) ==
    /\ SetCurrent(b)
    /\ Close
    /\ Submit({}, <<Task("connect", b)>>)
    /\ uiQueue' = q
    /\ chosen' = b

\* setDeviceCurrent, disconnectFromRemoteHost, connectToRemoteHost on the UI thread.
ConnectTo(b, q) ==
    /\ SetCurrent(b)
    /\ Close
    /\ Submit({"connect"}, <<Task("connect", b)>>)
    /\ uiQueue' = Silence(q, {"connect"})
    /\ chosen' = b

\* OnShowListDevice saves the current box if its state is CONNECTED, provided that the
\* list is on the screen.
ShowList(list) ==
    \E saved \in {{}, IF confirmed /\ connectedServer # None THEN {connectedServer} ELSE {}} :
        /\ deviceStote' = deviceStote \cup saved
        /\ listDeviceCurrent' = list \cup saved
        /\ UNCHANGED lastIP

\* DefaultViewWhenDisConect, with what is left of the message queue.
DefaultView(q) ==
    /\ serverStatus' = FALSE /\ intWifiRemote' = "SONCA"
    /\ isScanning' = FALSE
    /\ SetCurrent(None) /\ chosen' = None
    /\ Close /\ Submit({"connect"}, <<>>)
    /\ uiQueue' = Silence(q, {"connect"})

-----------------------------------------------------------------------------
(* The user                                                                *)

CanClick == visible /\ ~crashed /\ Len(queue) + Len(uiQueue) <= MaxPending

\* Also the searches that follow the administrator's password.
OnShowConnect ==
    /\ CanClick /\ ~isScanning
    /\ isScanning' = TRUE /\ BeginSearch
    /\ UNCHANGED <<flagAllowConnect, autoConnect, visible, statusVars, currentVars, storeVars,
                   netVars, localVars, threadVars, crashed, refreshed, chosen>>

\* The button of the list, and the list's onResume.
OnRefrresh ==
    /\ CanClick
    /\ flagAllowConnect' = TRUE /\ refreshed' = TRUE
    /\ IF isScanning
         THEN UNCHANGED <<isScanning, listDeviceCurrent, queue, running, uiQueue, fruitless>>
         ELSE isScanning' = TRUE /\ BeginSearch
    /\ UNCHANGED <<autoConnect, visible, statusVars, currentVars, storeVars, netVars,
                   localVars, threadVars, crashed, chosen>>

\* The dialog for a user without a box searches whether or not a search is under way,
\* and does not set isScanning.
OnYesListener ==
    /\ CanClick /\ ~serverStatus
    /\ flagAllowConnect' = TRUE /\ refreshed' = TRUE
    /\ BeginSearch
    /\ UNCHANGED <<isScanning, autoConnect, visible, statusVars, currentVars, storeVars,
                   netVars, localVars, threadVars, crashed, chosen>>

OnBackList ==
    /\ CanClick
    /\ flagAllowConnect' = TRUE /\ refreshed' = TRUE
    /\ UNCHANGED <<isScanning, autoConnect, visible, statusVars, currentVars, storeVars, netVars,
                   listDeviceCurrent, queue, running, localVars, uiQueue, threadVars, crashed,
                   fruitless, chosen>>

OnDeviceBackLayout ==
    /\ CanClick /\ ~serverStatus
    /\ flagAllowConnect' = TRUE /\ refreshed' = TRUE
    /\ Close /\ Submit({"connect"}, <<>>) /\ uiQueue' = Silence(uiQueue, {"connect"})
    /\ UNCHANGED <<isScanning, autoConnect, visible, statusVars, currentVars, storeVars,
                   listDeviceCurrent, localVars, threadVars, crashed, fruitless, chosen>>

OnDisConnect ==
    /\ CanClick
    /\ flagAllowConnect' = FALSE
    /\ serverStatus' = FALSE /\ intWifiRemote' = "SONCA"
    /\ SetCurrent(None) /\ chosen' = None
    /\ Close
    /\ isScanning' = TRUE
    /\ listDeviceCurrent' = deviceStote
    /\ Submit({"connect", "search"}, <<Search>>)
    /\ uiQueue' = Silence(uiQueue, {"connect", "search"})
    /\ fruitless' = FALSE
    /\ UNCHANGED <<autoConnect, visible, storeVars, localVars, threadVars, crashed, refreshed>>

\* What OnConectIpPass posts half a second after the click.
OnConectIpPass(b) ==
    /\ CanClick
    /\ ConnectTo(b, uiQueue)
    /\ UNCHANGED <<flagVars, statusVars, storeVars, listDeviceCurrent, localVars, threadVars,
                   crashed, fruitless, refreshed>>

OnRemoveDevice(b) ==
    /\ CanClick /\ b \in listDeviceCurrent
    /\ listDeviceCurrent' = listDeviceCurrent \ {b}
    /\ deviceStote' = deviceStote \ {b}
    /\ lastIP' = IF lastIP = b THEN None ELSE lastIP
    /\ UNCHANGED <<flagVars, statusVars, currentVars, netVars, queue, running, localVars,
                   uiQueue, threadVars, crashed, histVars>>

\* The list's onStart.
OnStart ==
    /\ CanClick
    /\ ShowList(listDeviceCurrent)
    /\ UNCHANGED <<flagVars, statusVars, currentVars, netVars, queue, running, localVars,
                   uiQueue, threadVars, crashed, histVars>>

\* AsyncTask.cancel of an AutoConnect that has not begun posts onCancelled at once; one
\* that runs does so when it returns, and a result that waits becomes onCancelled.
OnPause ==
    /\ CanClick
    /\ visible' = FALSE
    /\ Submit({"auto"}, <<>>)
    /\ uiQueue' = Silence(uiQueue, {"auto"}) \o
                  IF \E i \in DOMAIN queue : queue[i].of = "auto" /\ queue[i].live
                    THEN <<Message([Task("auto", None) EXCEPT !.live = FALSE], "none", None, {})>>
                    ELSE <<>>
    /\ UNCHANGED <<isScanning, flagAllowConnect, autoConnect, statusVars, currentVars, storeVars,
                   netVars, listDeviceCurrent, localVars, threadVars, crashed, histVars>>

OnResume ==
    /\ ~visible /\ ~crashed
    /\ visible' = TRUE
    /\ isScanning' = FALSE
    /\ serverStatus' = (intWifiRemote # "SONCA")
    /\ confirmed' = (connectedServer # None)
    /\ UNCHANGED <<flagAllowConnect, autoConnect, intWifiRemote, connectedServer, storeVars,
                   netVars, listDeviceCurrent, queue, running, localVars, uiQueue, threadVars,
                   crashed, histVars>>

User ==
    \/ OnShowConnect \/ OnRefrresh \/ OnYesListener \/ OnBackList \/ OnDeviceBackLayout
    \/ OnDisConnect \/ OnStart \/ OnPause \/ OnResume
    \/ \E b \in Boxes : OnConectIpPass(b)
    \/ \E b \in Servers : OnRemoveDevice(b)

-----------------------------------------------------------------------------
(* The UI thread takes a message: deviceSearchCompleted                    *)

\* A box that connects without being asked for a password.
LoneKartrol(boxes) == \E b \in Kartrol : boxes = {b}

SearchEndsScan_Keeps == UNCHANGED <<isScanning, autoConnect, queue, kartrolTimer, fruitless>>

SearchEndsScan ==
    /\ isScanning' = FALSE
    /\ UNCHANGED <<autoConnect, queue, kartrolTimer, fruitless>>

\* Connect to a lone KARTROL from a timer thread, if it is allowed now.
ScheduleKartrol(boxes) ==
    /\ isScanning' = FALSE
    /\ IF ~serverStatus /\ flagAllowConnect
         THEN \E t \in Timers, b \in boxes :
                 /\ kartrolTimer[t].pc = "idle"
                 /\ kartrolTimer' = [kartrolTimer EXCEPT ![t] = [pc |-> "ping", box |-> b]]
         ELSE UNCHANGED kartrolTimer
    /\ UNCHANGED <<autoConnect, queue, fruitless>>

\* autoConnectDevice, unless there is no box at all or one is under way.
ChooseBox(list) ==
    /\ IF list # {} /\ ~autoConnect
         THEN autoConnect' = TRUE /\ queue' = Append(queue, Task("auto", None))
         ELSE UNCHANGED <<autoConnect, queue>>
    /\ fruitless' = (list = {})
    /\ UNCHANGED <<isScanning, kartrolTimer>>

SearchCompleted(m) ==
    /\ m.of = "search" /\ m.live
    /\ IF ~visible
         THEN SearchEndsScan /\ UNCHANGED <<storeVars, listDeviceCurrent>>
         ELSE LET list == m.boxes \cup deviceStote IN
              \/ /\ ~enableConnectDevice
                 /\ SearchEndsScan /\ ShowList(list)
              \/ /\ enableConnectDevice /\ LoneKartrol(m.boxes)
                 /\ ScheduleKartrol(m.boxes) /\ ShowList(list)
              \/ /\ enableConnectDevice /\ ~LoneKartrol(m.boxes) /\ serverStatus
                 /\ SearchEndsScan /\ ShowList(list)
              \/ /\ enableConnectDevice /\ ~LoneKartrol(m.boxes) /\ ~serverStatus
                 /\ ChooseBox(list) /\ listDeviceCurrent' = list /\ UNCHANGED storeVars
    /\ uiQueue' = Tail(uiQueue)
    /\ UNCHANGED <<flagAllowConnect, visible, statusVars, currentVars, netVars, running,
                   localVars, pingTask, crashed, refreshed, chosen>>

(* OnConnectListener and OnFinishAutoConnect                               *)

AutoMayConnect_AfterLogin(m) == m.live /\ m.result = "some" /\ ~serverStatus

AutoMayConnect(m) == m.live /\ m.result = "some" /\ ~serverStatus /\ flagAllowConnect

AutoIsOver_OnlyDisplay == isScanning' = FALSE /\ UNCHANGED autoConnect

\* Every end of an AutoConnect, cancelled or not, also clears the field.
AutoIsOver == autoConnect' = FALSE /\ isScanning' = FALSE

AutoConnected(m) ==
    /\ m.of = "auto"
    /\ AutoIsOver
    /\ IF AutoMayConnect(m)
         THEN /\ ConnectTo(m.box, Tail(uiQueue))
              /\ UNCHANGED <<storeVars, listDeviceCurrent>>
         ELSE /\ ShowList(listDeviceCurrent)
              /\ uiQueue' = Tail(uiQueue)
              /\ UNCHANGED <<currentVars, netVars, queue, running, chosen>>
    /\ UNCHANGED <<flagAllowConnect, visible, statusVars, localVars, threadVars, crashed,
                   fruitless, refreshed>>

(* The results of a connect                                                *)

\* deviceDidAuthenWithServer: what connectedServer says is remembered.
LoggedIn(m) ==
    /\ m.result = "login"
    /\ enableConnectDevice' = FALSE /\ flagAllowConnect' = FALSE /\ refreshed' = FALSE
    /\ session' = m.box
    /\ deviceStote' = deviceStote \cup {connectedServer}
    /\ listDeviceCurrent' = listDeviceCurrent \cup {connectedServer}
    /\ lastIP' = connectedServer /\ confirmed' = TRUE
    /\ IF m.box \in Kartrol
         THEN serverStatus' = TRUE /\ intWifiRemote' = "KARTROL"
         ELSE serverStatus' \in {FALSE, serverStatus} /\ intWifiRemote' = "SONCA"
    /\ uiQueue' = Tail(uiQueue)
    /\ UNCHANGED <<isScanning, connectedServer, clientSocket, queue, running, chosen>>

\* The box did not accept the password; the socket stays open.
Refused(m) ==
    /\ m.result = "refused"
    /\ enableConnectDevice' = TRUE
    /\ SetCurrent(None) /\ chosen' = None
    /\ uiQueue' = Tail(uiQueue)
    /\ UNCHANGED <<isScanning, flagAllowConnect, statusVars, storeVars, clientSocket, session,
                   listDeviceCurrent, queue, running, refreshed>>

\* deviceSendRequestDidFailedWithError("invalid response"): the view stays as it is.
Invalid(m) ==
    /\ m.result = "invalid"
    /\ enableConnectDevice' = TRUE
    /\ uiQueue' = Tail(uiQueue)
    /\ UNCHANGED <<isScanning, flagAllowConnect, statusVars, currentVars, storeVars,
                   clientSocket, session, listDeviceCurrent, queue, running, refreshed, chosen>>

\* deviceDidTimedout and deviceDidDisconnected.
ConnectFailed(m) ==
    /\ m.result \in {"timedOut", "lost"}
    /\ flagAllowConnect' = IF m.result = "lost" THEN FALSE ELSE flagAllowConnect
    /\ DefaultView(Tail(uiQueue))
    /\ UNCHANGED <<storeVars, listDeviceCurrent, refreshed>>

ConnectReported(m) ==
    /\ m.of = "connect" /\ m.live
    /\ LoggedIn(m) \/ Refused(m) \/ Invalid(m) \/ ConnectFailed(m)
    /\ UNCHANGED <<autoConnect, visible, localVars, threadVars, crashed, fruitless>>

\* The result of ConnectDevice is of no interest here; one of a cancelled search or
\* connect goes to AsyncTask's empty onCancelled.
Dropped(m) ==
    /\ m.of \in {"start", "none"} \/ (m.of # "auto" /\ ~m.live)
    /\ uiQueue' = Tail(uiQueue)
    /\ UNCHANGED <<flagVars, statusVars, currentVars, storeVars, netVars, listDeviceCurrent,
                   queue, running, localVars, threadVars, crashed, histVars>>

HandleMessage ==
    /\ ~crashed /\ uiQueue # <<>>
    /\ LET m == Head(uiQueue) IN
       SearchCompleted(m) \/ AutoConnected(m) \/ ConnectReported(m) \/ Dropped(m)

-----------------------------------------------------------------------------
(* What a session brings to the UI thread                                  *)

\* A status arrives, or a chain of downloads ends and the polling starts without one.
StatusChanges ==
    /\ ~crashed /\ session # None /\ session \notin Kartrol
    /\ serverStatus' = ~serverStatus
    /\ UNCHANGED <<flagVars, intWifiRemote, currentVars, storeVars, netVars, listDeviceCurrent,
                   queue, running, localVars, uiQueue, threadVars, crashed, histVars>>

\* A request finds the lock taken, or fails to read ("busy socket", "read socket").
RequestFails ==
    /\ ~crashed /\ session # None
    /\ enableConnectDevice' = TRUE /\ isScanning' = FALSE
    /\ UNCHANGED <<flagAllowConnect, autoConnect, visible, statusVars, currentVars, storeVars,
                   clientSocket, session, listDeviceCurrent, queue, running, localVars, uiQueue,
                   threadVars, crashed, histVars>>

\* A request finds the connection gone or times out.
SessionLost ==
    /\ ~crashed /\ session # None
    /\ flagAllowConnect' \in {FALSE, flagAllowConnect}
    /\ DefaultView(uiQueue)
    /\ UNCHANGED <<autoConnect, visible, storeVars, listDeviceCurrent, localVars, threadVars,
                   crashed, fruitless, refreshed>>

Session == StatusChanges \/ RequestFails \/ SessionLost

-----------------------------------------------------------------------------
(* The executor's thread                                                   *)

FirstStep(k) ==
    CASE k = "search" -> "bind" [] k = "auto" -> "last" [] k = "start" -> "last"
      [] k = "connect" -> "connect" [] OTHER -> "idle"

\* A task that was cancelled while it waited does not run.
StartTask ==
    /\ ~crashed /\ running = NoTask /\ queue # <<>>
    /\ queue' = Tail(queue)
    /\ IF Head(queue).live
         THEN /\ running' = Head(queue) /\ pc' = FirstStep(Head(queue).of)
              /\ target' = Head(queue).box
         ELSE UNCHANGED <<running, pc, target>>
    /\ UNCHANGED <<index, found>>
    /\ UNCHANGED <<flagVars, statusVars, currentVars, storeVars, netVars, listDeviceCurrent,
                   uiQueue, threadVars, crashed, histVars>>

\* doInBackground returns; the result is posted.
Ends ==
    /\ running' = NoTask /\ pc' = "idle"
    /\ target' = None /\ index' = 0 /\ found' = {}

Returns(result, b, boxes) ==
    /\ uiQueue' = Append(uiQueue, Message(running, result, b, boxes))
    /\ Ends
    /\ UNCHANGED queue

Goes(step) == pc' = step /\ UNCHANGED <<queue, running, uiQueue>>

\* What a step of the executor's thread never touches.
UIOnly == UNCHANGED <<flagVars, statusVars, storeVars, listDeviceCurrent, threadVars,
                      fruitless, refreshed>>

Busy(k, step) == ~crashed /\ running.of = k /\ pc = step

\* Nothing binds the port: the handler of the exception dereferences null.
BindFails ==
    /\ Busy("search", "bind")
    /\ crashed' = TRUE
    /\ UIOnly /\ UNCHANGED <<currentVars, netVars, queue, running, localVars, uiQueue, chosen>>

Broadcasts ==
    /\ Busy("search", "bind")
    /\ \/ Goes("receive") /\ UNCHANGED <<target, index, found>>
       \/ Returns("found", None, {})
    /\ UIOnly /\ UNCHANGED <<currentVars, netVars, crashed, chosen>>

BoxAnswers(b) ==
    /\ Busy("search", "receive") /\ running.live
    /\ found' = found \cup {b}
    /\ UIOnly
    /\ UNCHANGED <<currentVars, netVars, queue, running, pc, target, index, uiQueue, crashed,
                   chosen>>

SearchReturns ==
    /\ Busy("search", "receive")
    /\ Returns("found", None, found)
    /\ UIOnly /\ UNCHANGED <<currentVars, netVars, crashed, chosen>>

\* getLastConnectedServer: the last box, if it answers a ping, becomes the current one.
TakesLast(next) ==
    /\ lastIP # None
    /\ SetCurrent(lastIP) /\ chosen' = None
    /\ Goes(next) /\ UNCHANGED <<target, index, found>>

AutoLast ==
    /\ Busy("auto", "last")
    /\ \/ TakesLast("current")
       \/ Goes("test") /\ UNCHANGED <<target, index, found, currentVars, chosen>>
    /\ UIOnly /\ UNCHANGED <<netVars, crashed>>

AutoTakesCurrent ==
    /\ Busy("auto", "current")
    /\ Returns("some", connectedServer, {})
    /\ UIOnly /\ UNCHANGED <<currentVars, netVars, crashed, chosen>>

\* The loop over the list, which the UI thread may replace meanwhile.
AutoTests ==
    /\ Busy("auto", "test")
    /\ IF index < Cardinality(listDeviceCurrent) /\ running.live
         THEN Goes("get") /\ UNCHANGED <<target, index, found>>
         ELSE Returns("none", None, {})
    /\ UIOnly /\ UNCHANGED <<currentVars, netVars, crashed, chosen>>

AutoGets ==
    /\ Busy("auto", "get") /\ index < Cardinality(listDeviceCurrent)
    /\ \/ Goes("test") /\ index' = index + 1 /\ UNCHANGED <<target, found>>
       \/ \E b \in (listDeviceCurrent \cap deviceStote) \ {None} : Returns("some", b, {})
    /\ UIOnly /\ UNCHANGED <<currentVars, netVars, crashed, chosen>>

AutoOutOfBounds ==
    /\ Busy("auto", "get") /\ index >= Cardinality(listDeviceCurrent)
    /\ crashed' = TRUE
    /\ UIOnly /\ UNCHANGED <<currentVars, netVars, queue, running, localVars, uiQueue, chosen>>

\* ConnectDevice reads connectedServer again for its own ping and for the connect.
StartLast ==
    /\ Busy("start", "last")
    /\ \/ TakesLast("ping")
       \/ Returns("none", None, {}) /\ UNCHANGED <<currentVars, chosen>>
    /\ UIOnly /\ UNCHANGED <<netVars, crashed>>

StartPings ==
    /\ Busy("start", "ping")
    /\ \/ connectedServer # None /\ Goes("read") /\ UNCHANGED <<target, index, found>>
       \/ Returns("none", None, {})
    /\ UIOnly /\ UNCHANGED <<currentVars, netVars, crashed, chosen>>

StartReads ==
    /\ Busy("start", "read")
    /\ target' = connectedServer /\ Goes("call")
    /\ UIOnly /\ UNCHANGED <<currentVars, netVars, index, found, crashed, chosen>>

StartConnects ==
    /\ Busy("start", "call")
    /\ queue' = Append(SilenceTasks(queue, {"connect"}), Task("connect", target))
    /\ uiQueue' = Append(Silence(uiQueue, {"connect"}), Message(running, "none", None, {}))
    /\ Ends /\ chosen' = None
    /\ UIOnly /\ UNCHANGED <<currentVars, netVars, crashed>>

\* AsynTaskConnectHost: an open socket makes it return a status that sendEvent tells
\* nobody; the empty address is refused; a handshake may fail and leave the socket.
Opens(socket, result) ==
    /\ clientSocket' = socket
    /\ Returns(result, target, {})

Connects ==
    /\ Busy("connect", "connect")
    /\ IF clientSocket # None
         THEN Ends /\ UNCHANGED <<clientSocket, queue, uiQueue>>
         ELSE \/ \E r \in {"timedOut", "lost"} : Opens(None, r)
              \/ \E r \in ConnectResults : target # None /\ Opens(target, r)
    /\ UIOnly /\ UNCHANGED <<currentVars, session, enableConnectDevice, crashed, chosen>>

Works ==
    \/ StartTask \/ BindFails \/ Broadcasts \/ (\E b \in Boxes : BoxAnswers(b)) \/ SearchReturns
    \/ AutoLast \/ AutoTakesCurrent \/ AutoTests \/ AutoGets \/ AutoOutOfBounds
    \/ StartLast \/ StartPings \/ StartReads \/ StartConnects \/ Connects

-----------------------------------------------------------------------------
(* The timer threads                                                       *)

CloseFromTimer_EndsSearch ==
    /\ Close /\ Submit({"connect", "search"}, <<>>)
    /\ uiQueue' = Silence(uiQueue, {"connect", "search"})
    /\ UNCHANGED <<currentVars, chosen>>

CloseFromTimer ==
    /\ Close /\ Submit({"connect"}, <<>>)
    /\ uiQueue' = Silence(uiQueue, {"connect"})
    /\ UNCHANGED <<currentVars, chosen>>

\* What a step of a timer thread never touches.
TimerOnly == UNCHANGED <<flagVars, statusVars, storeVars, listDeviceCurrent, localVars,
                         crashed, fruitless, refreshed>>

KartrolStep(t, from, to) ==
    /\ ~crashed /\ kartrolTimer[t].pc = from
    /\ kartrolTimer' = [kartrolTimer EXCEPT ![t] = IF to = "idle" THEN Idle
                                                    ELSE [@ EXCEPT !.pc = to]]
    /\ UNCHANGED pingTask /\ TimerOnly

\* The box answers the ping, or not; the activity is paused, or not.
KartrolPings(t) ==
    /\ \/ visible /\ KartrolStep(t, "ping", "disconnect")
       \/ KartrolStep(t, "ping", "idle")
    /\ UNCHANGED <<currentVars, netVars, queue, running, uiQueue, chosen>>

KartrolDisconnects(t) == KartrolStep(t, "disconnect", "connect") /\ CloseFromTimer

KartrolConnects(t) ==
    /\ KartrolStep(t, "connect", "set")
    /\ Submit({"connect"}, <<Task("connect", kartrolTimer[t].box)>>)
    /\ uiQueue' = Silence(uiQueue, {"connect"})
    /\ chosen' = None
    /\ UNCHANGED <<currentVars, netVars>>

KartrolSetsCurrent(t) ==
    /\ KartrolStep(t, "set", "idle")
    /\ connectedServer' = kartrolTimer[t].box /\ confirmed' = TRUE /\ chosen' = None
    /\ UNCHANGED <<netVars, queue, running, uiQueue>>

\* PingTask tests whether there is a status and a last box, and pings it.
PingBegins ==
    /\ Pinging /\ ~crashed /\ pingTask.pc = "idle" /\ visible /\ ~serverStatus /\ lastIP # None
    /\ pingTask' = [pc |-> "ping", box |-> lastIP]
    /\ UNCHANGED kartrolTimer /\ TimerOnly
    /\ UNCHANGED <<currentVars, netVars, queue, running, uiQueue, chosen>>

PingStep(from, to) ==
    /\ ~crashed /\ pingTask.pc = from
    /\ pingTask' = IF to = "idle" THEN Idle ELSE [pingTask EXCEPT !.pc = to]
    /\ UNCHANGED kartrolTimer /\ TimerOnly

PingReturns ==
    /\ \/ ~serverStatus /\ PingStep("ping", "set")
       \/ PingStep("ping", "idle")
    /\ UNCHANGED <<currentVars, netVars, queue, running, uiQueue, chosen>>

PingSetsCurrent ==
    /\ PingStep("set", "disconnect")
    /\ SetCurrent(pingTask.box) /\ chosen' = None
    /\ UNCHANGED <<netVars, queue, running, uiQueue>>

PingDisconnects == PingStep("disconnect", "start") /\ CloseFromTimer

\* MyApplication.onStart: one ConnectDevice at a time.
StartPending ==
    \/ running.of = "start"
    \/ \E i \in DOMAIN queue : queue[i].of = "start"
    \/ \E i \in DOMAIN uiQueue : uiQueue[i].of = "start"

PingStarts ==
    /\ PingStep("start", "idle")
    /\ queue' = IF StartPending THEN queue ELSE Append(queue, Task("start", None))
    /\ UNCHANGED <<currentVars, netVars, running, uiQueue, chosen>>

Timer ==
    \/ \E t \in Timers : \/ KartrolPings(t) \/ KartrolDisconnects(t)
                         \/ KartrolConnects(t) \/ KartrolSetsCurrent(t)
    \/ PingBegins \/ PingReturns \/ PingSetsCurrent \/ PingDisconnects \/ PingStarts

-----------------------------------------------------------------------------
Next == User \/ HandleMessage \/ Session \/ Works \/ Timer
Spec == Init /\ [][Next]_vars

\* The looper serves messages, the executor its tasks: a search ends when the network
\* has been silent for SEARCH_TIMEOUT, pings and connects have timeouts.
Fairness == WF_vars(HandleMessage) /\ WF_vars(Works)
FairSpec == Spec /\ Fairness

-----------------------------------------------------------------------------
\* Every variable has its type, the queues hold tasks and messages of known kinds, and
\* what is remembered is a box or the empty address.
TypeOK ==
    /\ isScanning \in BOOLEAN /\ flagAllowConnect \in BOOLEAN /\ serverStatus \in BOOLEAN
    /\ intWifiRemote \in {"SONCA", "KARTROL"}
    /\ visible \in BOOLEAN /\ autoConnect \in BOOLEAN /\ enableConnectDevice \in BOOLEAN
    /\ connectedServer \in Servers /\ confirmed \in BOOLEAN
    /\ listDeviceCurrent \subseteq Servers /\ deviceStote \subseteq Servers /\ lastIP \in Servers
    /\ clientSocket \in Servers /\ session \in Servers
    /\ queue \in Seq(Tasks) /\ running \in Tasks
    /\ pc \in {"idle", "bind", "receive", "last", "current", "test", "get", "ping", "read",
               "call", "connect"}
    /\ target \in Servers /\ index \in Nat /\ found \subseteq Boxes
    /\ uiQueue \in Seq(Messages)
    /\ kartrolTimer \in [Timers -> [pc : {"idle", "ping", "disconnect", "connect", "set"},
                                    box : Servers]]
    /\ pingTask \in [pc : {"idle", "ping", "set", "disconnect", "start"}, box : Servers]
    /\ crashed \in BOOLEAN /\ fruitless \in BOOLEAN /\ refreshed \in BOOLEAN
    /\ chosen \in Servers

LiveSearch ==
    \/ running.of = "search" /\ running.live
    \/ \E i \in DOMAIN queue : queue[i].of = "search" /\ queue[i].live
    \/ \E i \in DOMAIN uiQueue : uiQueue[i].of = "search" /\ uiQueue[i].live

\* While the list shows a search in progress (isScanning), there is one whose result will
\* be handled, or an automatic connection that will reset the flag; the only exception is
\* a search that came back with no box at all.  Cancelled searches never report, so each
\* path that cancels one must start another or reset the flag.  deviceSearchCompleted
\* itself leaves the flag set, and "searching" on the screen, when it has no box to show.
ScanFlagHonest == isScanning => LiveSearch \/ autoConnect \/ fruitless

Reported == session' # session /\ session' # None

\* The login that is reported is remembered as that of the box chosen last on the UI
\* thread (by the user or by AutoConnect), however many connects were replaced, cancelled
\* or under way; unless a worker or a timer has connected or changed the box meanwhile.
LoginRemembersChosen ==
    [][Reported /\ chosen # None => session' = chosen /\ lastIP' = chosen]_vars

\* The end of an automatic connection neither closes nor replaces a session that was
\* reported while the task looked for a box, unless the user has gone back to the list
\* since (OnRefrresh, OnBackList and others set flagAllowConnect again).
AutoSparesSession ==
    [][autoConnect /\ ~autoConnect' => session' = session \/ refreshed]_vars

\* A search that is shown comes to an end: a result, an automatic connection that ended,
\* or an empty result.  Only a user who starts it anew again and again can prevent that.
Restarts == OnYesListener \/ OnDisConnect
ScanEnds ==
    <>[][~Restarts]_vars => (isScanning ~> (~isScanning \/ fruitless \/ crashed))
=============================================================================
