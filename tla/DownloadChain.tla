---------------------------- MODULE DownloadChain ----------------------------
(***************************************************************************)
(* The files the app fetches from a box once it has logged in: side lists  *)
(* (online songs, offline list, lucky wheel, hidden songs, network shares) *)
(* and the catalogue.  TouchMainActivity chains them one after another,    *)
(* each started by the report of the one before; a single field,           *)
(* DownloadState, says which download a report is about.  Status polling   *)
(* starts when the chain ends.  Meanwhile a timer thread (PingTask) looks  *)
(* for a lost session every ten seconds: it disconnects and reconnects     *)
(* whenever no status has come and allowTimerPing lets it.                 *)
(*                                                                         *)
(* Four threads interleave: the UI thread with its message queue, the      *)
(* serial executor that runs AsynTaskDownloadFileUpdate, the import thread *)
(* and the timer.  There is one box of each model; its files have versions *)
(* that grow.  The connection itself is CommandSession's, the polling      *)
(* timer StatusPolling's, and the import CatalogueUpdate's subject.        *)
(***************************************************************************)
EXTENDS Naturals, Sequences

CONSTANTS
    FilesOf,      \* FilesOf[m]: the side lists of the box of model m
    MaxVersion,   \* bound: the versions a list may reach
    Changing,     \* the lists that may change on their box while the app runs
    MaxPending,   \* bound: messages the user's clicks may find in the queue
    MaxLogins,    \* bound: the sessions that are logged in to
    MaxCatalogues \* bound: the first of them that may find the catalogue changed

Models == DOMAIN FilesOf
Rank == [yt |-> 1, offline |-> 2, luckyData |-> 3, luckyImage |-> 4,
         hidden |-> 5, samba |-> 6]
Lists == DOMAIN Rank
Files == UNION {FilesOf[m] : m \in Models}

\* The online and offline lists exist on both models, in files of their own:
\* an instance gives each name to one of the models.
ASSUME DownloadChainAssumption ==
    /\ FilesOf \in [Models -> SUBSET Lists] /\ Models \subseteq {"SONCA", "SMARTK"}
    /\ \A m, n \in Models : m # n => FilesOf[m] \cap FilesOf[n] = {}
    /\ \A m \in Models :
          IF m = "SONCA" THEN FilesOf[m] \subseteq {"yt", "offline", "hidden"}
                         ELSE "hidden" \notin FilesOf[m]
    /\ Changing \subseteq Files
    /\ MaxVersion \in Nat \ {0}
    /\ MaxPending \in Nat /\ MaxLogins \in Nat /\ MaxCatalogues \in Nat

\* What a download is for: -1 and -3 to -7 of DownloadState, then MEGIDX (1),
\* LYRICS (2), update_t.xml (4), the added songs (-2) and a melody (-10).
Steps == Files \cup {"toc", "lyrics", "info", "add", "midi"}

\* The hidden list is fetched into a .tmp file; files that are no lists are
\* not followed.
PathOf(s) == IF s = "hidden" THEN "tmp" ELSE IF s \in Lists THEN s ELSE "none"
Paths == Files \cup {"tmp"}

\* What a path holds: nothing, the start of a file, or version v of list f.
NoFile == <<"none", 0>>
Part == <<"part", 0>>
Contents == {NoFile, Part} \cup (Steps \X (0 .. MaxVersion))

VARIABLES
    session,         \* "off", "connecting" or "up": logged in
    intSvrModel,     \* the field: the model of the box logged in to
    boxVersion,      \* the versions of the boxes' lists, 0 for none
    serverStatus,    \* the field: TRUE when a status is known, else null
    polling,         \* the status timer runs
    allowTimerPing,  \* the field: the timer thread may reconnect
    DownloadState,   \* the field: the step of the last download, or "idle"
    need,            \* the fields isNeedupdate... and isMainNeedUpdate
    toSave,          \* the fields save...Version
    flagDownloadingHidden, flagDownloadingDD,  \* lists fetched outside a chain
    listed,          \* intVersionDownloaded: the offline list in memory
    saved,           \* the versions kept in AppSettings
    disk,            \* the contents of the paths
    importing,       \* processTocDauMay's thread runs
    asking,          \* the dialog ShowBusyDownloadTOC: what failed, or "none"
    waiting,         \* the task in downloadTask, not started: [step, path]
    running,         \* the task on the executor: [step, path, live]
    pc,              \* where it is: "idle", "exchange", "body", ...
    uiQueue,         \* messages for the UI thread
    pinging,         \* 0, or PingTask has passed its tests, after that many logins,
                     \* and pings the box
    suspect,         \* history: lists that a slip of the app has damaged, or for
                     \* which it took another answer's bytes
    attempted,       \* history: what this login has started
    inherited,       \* history: of "hidden" (the flag), "status" and "dialog",
                     \* what was set already at the login
    orphaned,        \* history: a report of a cancelled download was handled
                     \* since the last disconnection
    logins           \* history: how many logins there were

sessionVars == <<session, intSvrModel>>
pingVars == <<serverStatus, polling, allowTimerPing, pinging>>
flagVars == <<flagDownloadingHidden, flagDownloadingDD>>
planVars == <<need, toSave, inherited>>
fileVars == <<listed, saved, disk, suspect>>
dialogVars == <<importing, asking>>
execVars == <<waiting, running, pc>>
taskVars == <<DownloadState, attempted, execVars>>
histVars == <<orphaned, logins>>
vars == <<sessionVars, histVars, boxVersion, pingVars, DownloadState, planVars, flagVars,
          fileVars, dialogVars, execVars, uiQueue, attempted>>

Inheritable == {"hidden", "status", "dialog"}

NoTask == [step |-> "none", path |-> "none", live |-> FALSE]
Task(s, p) == [step |-> s, path |-> p, live |-> TRUE]

Init ==
    /\ session = "off" /\ intSvrModel = "none"
    /\ boxVersion = [f \in Files |-> 1]
    /\ serverStatus = FALSE /\ polling = FALSE
    /\ allowTimerPing = TRUE /\ pinging = 0
    /\ DownloadState = "idle" /\ attempted = {}
    /\ need = {} /\ toSave = [f \in Files |-> 0] /\ inherited = {} /\ orphaned = FALSE /\ logins = 0
    /\ flagDownloadingHidden = FALSE /\ flagDownloadingDD = FALSE
    /\ listed = 0
    /\ saved = [f \in Files |-> 0]
    /\ disk = [p \in Paths |-> NoFile] /\ suspect = {}
    /\ importing = FALSE /\ asking = "none"
    /\ waiting = NoTask /\ running = NoTask /\ pc = "idle"
    /\ uiQueue = <<>>

-----------------------------------------------------------------------------
(* Starting a download                                                     *)

\* The result of a task cancelled before it is delivered goes to onCancelled, which
\* tells nobody; a progress message that it posted before ("failed") is delivered
\* all the same, for live only tells here whose it is.
ResultKinds == {"success", "refused", "invalid", "disconnected"}
StatusKinds == {"status", "statusLost"}
Silenced(q, kinds) ==
    [i \in DOMAIN q |->
        IF q[i].kind \in kinds THEN [kind |-> "cancelled", task |-> NoTask]
                               ELSE [q[i] EXCEPT !.task.live = FALSE]]

Start_NoCancel(s, p, q) ==
    /\ DownloadState' = s
    /\ waiting' = Task(s, p)
    /\ uiQueue' = q
    /\ UNCHANGED <<running, pc>>

\* NetworkSocket's download methods: the task in downloadTask is cancelled and
\* replaced; q is the message queue that the caller leaves.
Start(s, p, q) ==
    /\ DownloadState' = s
    /\ waiting' = Task(s, p)
    /\ running' = [running EXCEPT !.live = FALSE]
    /\ uiQueue' = Silenced(q, ResultKinds)
    /\ UNCHANGED pc

HoldPing_GoesOn == UNCHANGED allowTimerPing

\* allowTimerPing = false precedes every download but LYRICS and update_t.xml.
HoldPing == allowTimerPing' = FALSE

\* Side lists that are deleted before they are fetched again.
Replaced == {"yt", "offline", "luckyData", "luckyImage"}
Without(d, paths) == [p \in Paths |-> IF p \in paths THEN NoFile ELSE d[p]]

Later(plan, r) == {f \in plan \cap Lists : Rank[f] > r}

NextStep_SkipsSamba(plan, r) ==
    IF Later(plan, r) \ {"samba"} # {}
    THEN CHOOSE f \in Later(plan, r) : \A g \in Later(plan, r) : Rank[f] <= Rank[g]
    ELSE IF "main" \in plan THEN "toc" ELSE "none"

\* The next list of the login's plan after rank r, then the catalogue.
NextStep(plan, r) ==
    IF Later(plan, r) # {}
    THEN CHOOSE f \in Later(plan, r) : \A g \in Later(plan, r) : Rank[f] <= Rank[g]
    ELSE IF "main" \in plan THEN "toc" ELSE "none"

\* cancelSyncServerStatus and disconnectFromRemoteHost.
Disconnect(then) ==
    /\ session' = then
    /\ polling' = FALSE
    /\ waiting' = NoTask
    /\ running' = [running EXCEPT !.live = FALSE]
    /\ attempted' = {} /\ orphaned' = FALSE
    /\ UNCHANGED <<pc, DownloadState, logins>>

\* DefaultViewWhenDisConect: allowTimerPing, DownloadState and the flags of the
\* downloads keep their values.
DefaultView(then) ==
    /\ Disconnect(then)
    /\ serverStatus' = FALSE
    /\ intSvrModel' = "none"
    /\ UNCHANGED <<allowTimerPing, pinging>>

-----------------------------------------------------------------------------
(* Logging in                                                              *)

\* OnConnect, OnConnectManual: a session that is up is left just like that, with
\* its serverStatus.  The dialog of a failed catalogue covers the screen.
UserConnect ==
    /\ asking = "none" /\ ~importing /\ Len(uiQueue) < MaxPending
    /\ Disconnect("connecting")
    /\ uiQueue' = Silenced(uiQueue, ResultKinds \cup StatusKinds)
    /\ UNCHANGED <<intSvrModel, boxVersion, serverStatus, allowTimerPing, pinging,
                   planVars, flagVars, fileVars, dialogVars>>

UserDisconnect ==
    /\ asking = "none" /\ session # "off" /\ ~importing /\ Len(uiQueue) < MaxPending
    /\ DefaultView("off")
    /\ uiQueue' = Silenced(uiQueue, ResultKinds \cup StatusKinds)
    /\ UNCHANGED <<boxVersion, planVars, flagVars, fileVars, dialogVars>>

ConnectFails ==
    /\ session = "connecting"
    /\ DefaultView("off")
    /\ uiQueue' = Silenced(uiQueue, ResultKinds \cup StatusKinds)
    /\ UNCHANGED <<boxVersion, planVars, flagVars, fileVars, dialogVars>>

\* What the box no longer has is deleted; what is not on disk has version 0.
Gone(m) == {f \in FilesOf[m] : boxVersion[f] = 0}
AppVersion_Missing(m, f) ==
    IF f \in Gone(m) \/ disk[f] = NoFile THEN 0 - 1 ELSE saved[f]

AppVersion(m, f) ==
    IF f \in Gone(m) \/ disk[f] = NoFile THEN 0 ELSE saved[f]
Differs(m) == {f \in FilesOf[m] : AppVersion(m, f) # boxVersion[f]}

\* deviceDidAuthenWithServer.  Whether the catalogue differs is CatalogueUpdate's
\* subject.  With nothing to fetch the polling starts at once.
Login(m, plan) ==
    /\ session = "connecting" /\ running = NoTask /\ ~importing /\ logins < MaxLogins
    /\ plan \ {"main"} = Differs(m)
    /\ "main" \in plan => logins < MaxCatalogues
    /\ session' = "up" /\ intSvrModel' = m
    /\ need' = plan /\ attempted' = {NextStep(plan, 0)}
    /\ toSave' = [f \in Files |-> IF f \in Differs(m) THEN boxVersion[f] ELSE 0]
    /\ flagDownloadingDD' = FALSE
    /\ inherited' = {x \in Inheritable :
                        \/ x = "hidden" /\ flagDownloadingHidden
                        \/ x = "status" /\ serverStatus
                        \/ x = "dialog" /\ asking # "none"}
    /\ logins' = logins + 1
    /\ listed' = IF "offline" \in FilesOf[m] THEN AppVersion(m, "offline") ELSE 0
    /\ saved' = [f \in Files |-> IF f \in Gone(m) THEN 0 ELSE saved[f]]
    /\ LET s == NextStep(plan, 0)
           d == Without(disk, Gone(m))
       IN \/ /\ s = "none"
             /\ polling' = TRUE /\ serverStatus' = FALSE
             /\ disk' = d
             /\ UNCHANGED <<allowTimerPing, DownloadState, execVars, uiQueue>>
          \/ /\ s # "none"
             /\ Start(s, PathOf(s), uiQueue) /\ HoldPing
             /\ disk' = Without(d, {s} \cap (Replaced \cup {"samba"}))
             /\ UNCHANGED <<serverStatus, polling>>
    /\ UNCHANGED <<boxVersion, pinging, flagDownloadingHidden, suspect, dialogVars,
                   orphaned>>

\* A list changes on its box: a new version, or it is removed for good.
BoxUpdates(f) ==
    /\ boxVersion[f] > 0
    /\ boxVersion' = [boxVersion EXCEPT ![f] = IF @ < MaxVersion THEN @ + 1 ELSE 0]
    /\ UNCHANGED <<sessionVars, pingVars, taskVars, planVars, flagVars, fileVars,
                   dialogVars, histVars, uiQueue>>

-----------------------------------------------------------------------------
(* The task: AsynTaskDownloadFileUpdate on the serial executor             *)

workerFrame == <<sessionVars, boxVersion, pingVars, DownloadState, planVars, flagVars,
                 listed, saved, dialogVars, histVars, attempted, waiting>>

\* The connect that was queued first runs first.
StartDownload ==
    /\ waiting # NoTask /\ running = NoTask /\ session # "connecting"
    /\ running' = waiting /\ waiting' = NoTask /\ pc' = "exchange"
    /\ UNCHANGED <<sessionVars, boxVersion, pingVars, DownloadState, planVars, flagVars,
                   fileVars, dialogVars, histVars, attempted, uiQueue>>

Report(k) ==
    uiQueue' = IF running.live THEN Append(uiQueue, [kind |-> k, task |-> running])
                               ELSE uiQueue
Ends(k) == Report(k) /\ running' = NoTask /\ pc' = "idle" /\ UNCHANGED workerFrame

\* No socket, or the exchange throws: ERROR_DISCONNECTED.
ExchangeLost ==
    /\ pc = "exchange"
    /\ Ends("disconnected")
    /\ UNCHANGED <<disk, suspect>>

\* A status other than CMD_SUCCESS.
Refused ==
    /\ pc = "exchange" /\ session = "up"
    /\ Ends("refused")
    /\ UNCHANGED <<disk, suspect>>

\* contentLength <= 0 is an invalid response.
Empty ==
    /\ pc = "exchange" /\ session = "up"
    /\ Ends("invalid")
    /\ UNCHANGED <<disk, suspect>>

\* FileOutputStream empties the file.  The header may be another answer's, of any
\* length: nothing drops what a resent request's second answer, or a body whose read
\* timed out, has left in the stream, and the header's command is not compared.
HeaderArrives ==
    /\ pc = "exchange" /\ session = "up"
    /\ pc' = "body"
    /\ disk' = [p \in Paths |-> IF p = running.path THEN Part ELSE disk[p]]
    /\ UNCHANGED <<workerFrame, suspect, running, uiQueue>>

\* The bytes are the box's file.  One that was deleted meanwhile is written to no name.
BodyComplete ==
    /\ pc = "body" /\ session = "up"
    /\ running.step \in Files => boxVersion[running.step] > 0
    /\ disk' = [p \in Paths |->
         IF p = running.path /\ disk[p] = Part
         THEN <<running.step, boxVersion[running.step]>> ELSE disk[p]]
    /\ Ends("success")
    /\ UNCHANGED suspect

\* As many bytes as the header says, but other ones: no list, and a success all the same.
StrayComplete ==
    /\ pc = "body" /\ session = "up"
    /\ Ends("success")
    /\ suspect' = IF running.live THEN suspect \cup ({running.step} \cap Files) ELSE suspect
    /\ UNCHANGED disk

BodyShort_Success ==
    /\ pc = "body" /\ session = "up"
    /\ Ends("success")
    /\ UNCHANGED <<disk, suspect>>

\* The stream ends before contentLength bytes.
BodyShort ==
    /\ pc = "body" /\ session = "up"
    /\ Ends("invalid")
    /\ UNCHANGED <<disk, suspect>>

\* read() or write() throws: publishProgress(2) reports the failure, and the
\* result will report it once more.
BodyThrows ==
    /\ pc = "body"
    /\ Report("failed")
    /\ pc' = "failed"
    /\ UNCHANGED <<workerFrame, disk, suspect, running>>

ReturnsInvalid ==
    /\ pc = "failed"
    /\ Ends("invalid")
    /\ UNCHANGED <<disk, suspect>>

\* The status timer's task runs on the same executor, one at a time.
StatusAsked ==
    /\ polling /\ running = NoTask /\ waiting = NoTask
    /\ \A i \in DOMAIN uiQueue : uiQueue[i].kind \notin StatusKinds
    /\ \E k \in StatusKinds :
         /\ k = "status" => session = "up"
         /\ uiQueue' = Append(uiQueue, [kind |-> k, task |-> NoTask])
    /\ UNCHANGED <<workerFrame, running, pc, disk, suspect>>

-----------------------------------------------------------------------------
(* The UI thread: what follows a report                                    *)

Handled == Tail(uiQueue)
Delivers(kinds) == uiQueue # <<>> /\ Head(uiQueue).kind \in kinds
Quiet == uiQueue' = Handled /\ UNCHANGED taskVars

\* The handlers delete the file they are about to replace, except before the
\* shares (samba): there they delete savePath, the file the report is about.
\* The offline list after a failed online list is fetched into savePath, too; its
\* version will be saved all the same.
\* d and spoilt are the disk and the suspect lists so far.
Continue(s, d, spoilt, savePath, failed) ==
    IF s \in {"luckyData", "luckyImage"} /\ intSvrModel # "SMARTK"
    THEN Quiet /\ disk' = d /\ suspect' = spoilt /\ UNCHANGED allowTimerPing
    ELSE LET wrong == failed /\ DownloadState = "yt" /\ s = "offline"
             dropped == IF s = "samba" THEN {savePath} ELSE {s} \cap Replaced
         IN /\ Start(s, IF wrong THEN savePath ELSE PathOf(s), Handled)
            /\ HoldPing
            /\ attempted' = attempted \cup {s}
            /\ disk' = Without(d, dropped)
            /\ suspect' = spoilt \cup
                  ((IF s = "samba" THEN {savePath} ELSE IF wrong THEN {savePath, s} ELSE {})
                     \cap Files)

ProcessHinh_OnlyPictures == UNCHANGED polling

\* processHinhDauMay(false), whose thread has nothing to unpack.
ProcessHinh == polling' = TRUE

\* deviceDidDownloadFile(false): a list fetched on its own is given up, a chain
\* goes on with the next list, a failed catalogue asks the user.
DownloadFailed ==
    /\ Delivers({"failed", "refused"})
    /\ LET savePath == Head(uiQueue).task.path
           list == DownloadState \in Lists
           single == \/ DownloadState = "hidden" /\ flagDownloadingHidden
                     \/ DownloadState = "offline" /\ flagDownloadingDD
           s == IF list THEN NextStep(need, Rank[DownloadState]) ELSE "none"
       IN \/ /\ DownloadState = "midi"
             /\ DownloadState' = "idle" /\ uiQueue' = Handled
             /\ UNCHANGED <<execVars, attempted, polling, allowTimerPing, flagVars, disk,
                            suspect, asking>>
          \/ /\ single
             /\ flagDownloadingHidden' = (flagDownloadingHidden /\ DownloadState # "hidden")
             /\ flagDownloadingDD' = (flagDownloadingDD /\ DownloadState # "offline")
             /\ Quiet
             /\ UNCHANGED <<polling, allowTimerPing, disk, suspect, asking>>
          \/ /\ list /\ ~single /\ s # "none"
             /\ Continue(s, disk, suspect, savePath, TRUE)
             /\ UNCHANGED <<polling, flagVars, asking>>
          \/ /\ (list /\ ~single /\ s = "none") \/ DownloadState = "add"
             /\ ProcessHinh /\ Quiet
             /\ UNCHANGED <<allowTimerPing, flagVars, disk, suspect, asking>>
          \/ /\ DownloadState \in {"toc", "lyrics", "idle"}
             /\ asking' = IF asking = "none" THEN "toc" ELSE asking
             /\ Quiet
             /\ UNCHANGED <<polling, allowTimerPing, flagVars, disk, suspect>>
          \/ /\ DownloadState = "info"
             /\ asking' = IF asking = "none" THEN "info" ELSE asking
             /\ ProcessHinh /\ Quiet
             /\ UNCHANGED <<allowTimerPing, flagVars, disk, suspect>>
    /\ orphaned' = (orphaned \/ ~Head(uiQueue).task.live)
    /\ UNCHANGED <<sessionVars, boxVersion, serverStatus, pinging, planVars, listed,
                   saved, importing, logins>>

Save(f) == saved' = [saved EXCEPT ![f] = toSave[f]]

\* A list that was fetched to its own path and is there is whole again.
Spoilt(d, f) ==
    IF d[f][1] = f /\ Head(uiQueue).task.path = PathOf(f) THEN suspect \ {f} ELSE suspect

\* After a list that was fetched: the next one, or the end of the chain.
ListDone(d, spoilt) ==
    LET s == NextStep(need, Rank[DownloadState]) IN
    \/ /\ s # "none"
       /\ Continue(s, d, spoilt, Head(uiQueue).task.path, FALSE)
       /\ UNCHANGED <<polling, serverStatus>>
    \/ /\ s = "none"
       /\ polling' = TRUE /\ serverStatus' = FALSE
       /\ disk' = d /\ suspect' = spoilt /\ Quiet
       /\ UNCHANGED allowTimerPing

\* The hidden list is in force when its .tmp file is copied, which may fail; its
\* version is saved first.
HiddenDownloaded ==
    /\ Delivers({"success"}) /\ DownloadState = "hidden"
    /\ Save("hidden")
    /\ \E content \in {disk["tmp"], disk["hidden"], Part} :
         LET d == [disk EXCEPT !["hidden"] = content]
             spoilt == IF content = disk["tmp"] THEN Spoilt(d, "hidden")
                                                ELSE suspect \cup {"hidden"}
         IN \/ /\ flagDownloadingHidden
               /\ disk' = d /\ suspect' = spoilt /\ Quiet
               /\ UNCHANGED <<allowTimerPing, polling, serverStatus>>
            \/ ~flagDownloadingHidden /\ ListDone(d, spoilt)
    /\ flagDownloadingHidden' = FALSE
    /\ UNCHANGED <<sessionVars, boxVersion, pinging, planVars, flagDownloadingDD, listed,
                   dialogVars, histVars>>

\* On a SONCA box the offline list in memory has a version of its own, and a list
\* that a status asked for is noted there only.
ListDownloaded ==
    /\ Delivers({"success"}) /\ DownloadState \in Lists \ {"hidden"}
    /\ LET f == DownloadState
           inMemory == f = "offline" /\ intSvrModel = "SONCA"
       IN /\ listed' = IF inMemory THEN toSave[f] ELSE listed
          /\ \/ /\ inMemory /\ flagDownloadingDD
                /\ flagDownloadingDD' = FALSE
                /\ Quiet
                /\ UNCHANGED <<saved, disk, suspect, allowTimerPing, polling, serverStatus>>
             \/ /\ ~(inMemory /\ flagDownloadingDD)
                /\ Save(f) /\ ListDone(disk, Spoilt(disk, f))
                /\ UNCHANGED flagDownloadingDD
    /\ UNCHANGED <<sessionVars, boxVersion, pinging, planVars, flagDownloadingHidden,
                   dialogVars, histVars>>

\* MEGIDX, then LYRICS, then the import; a melody and the added songs concern
\* nobody here.  After update_t.xml the polling starts, no picture being new; so
\* it does for a melody when another report has reset DownloadState.
OtherDownloaded ==
    /\ Delivers({"success"})
    /\ \/ /\ DownloadState = "toc"
          /\ Start("lyrics", "none", Handled)
          /\ UNCHANGED <<attempted, pingVars, importing>>
       \/ /\ DownloadState = "lyrics"
          /\ importing' = TRUE
          /\ polling' = FALSE /\ serverStatus' = FALSE
          /\ uiQueue' = Silenced(Handled, StatusKinds)
          /\ UNCHANGED <<taskVars, allowTimerPing, pinging>>
       \/ /\ DownloadState \in {"info", "idle"}
          /\ ProcessHinh /\ Quiet
          /\ UNCHANGED <<serverStatus, allowTimerPing, pinging, importing>>
       \/ /\ DownloadState = "add"
          /\ allowTimerPing' = TRUE /\ Quiet
          /\ UNCHANGED <<serverStatus, polling, pinging, importing>>
       \/ /\ DownloadState = "midi"
          /\ DownloadState' = "idle" /\ uiQueue' = Handled
          /\ UNCHANGED <<attempted, execVars, pingVars, importing>>
    /\ UNCHANGED <<sessionVars, boxVersion, planVars, flagVars, fileVars, asking, histVars>>

InvalidResponse_PingHeld ==
    /\ Delivers({"invalid"})
    /\ Quiet
    /\ UNCHANGED <<sessionVars, boxVersion, pingVars, planVars, flagVars, fileVars,
                   dialogVars, histVars>>

\* deviceSendRequestDidFailedWithError("invalid response"): the chain ends here.
InvalidResponse ==
    /\ Delivers({"invalid"})
    /\ allowTimerPing' = TRUE
    /\ Quiet
    /\ UNCHANGED <<sessionVars, boxVersion, serverStatus, polling, pinging, planVars,
                   flagVars, fileVars, dialogVars, histVars>>

Cancelled ==
    /\ Delivers({"cancelled"})
    /\ Quiet
    /\ UNCHANGED <<sessionVars, boxVersion, pingVars, planVars, flagVars, fileVars,
                   dialogVars, histVars>>

\* deviceDidDisconnected, for a download or for a status.
Disconnected ==
    /\ Delivers({"disconnected", "statusLost"})
    /\ DefaultView("off")
    /\ uiQueue' = Silenced(Handled, ResultKinds \cup StatusKinds)
    /\ UNCHANGED <<boxVersion, planVars, flagVars, fileVars, dialogVars>>

\* ImportEnds: a SONCA box then tells what pictures are new.
ImportEnds ==
    /\ importing /\ importing' = FALSE
    /\ \/ /\ intSvrModel = "SONCA"
          /\ polling' = FALSE
          /\ Start("info", "none", Silenced(uiQueue, StatusKinds))
       \/ /\ intSvrModel # "SONCA"
          /\ ProcessHinh
          /\ UNCHANGED <<DownloadState, execVars, uiQueue>>
    /\ UNCHANGED <<sessionVars, boxVersion, serverStatus, allowTimerPing, pinging, planVars,
                   flagVars, fileVars, asking, attempted, histVars>>

\* The user's answer: retry disconnects and connects again, going on without the
\* catalogue disconnects, going on without the pictures changes nothing here.
AnswerBusy ==
    /\ asking # "none" /\ asking' = "none" /\ ~importing /\ Len(uiQueue) < MaxPending
    /\ \/ /\ \E then \in {"connecting", "off"} :
               (then = "off" => asking = "toc") /\ DefaultView(then)
          /\ uiQueue' = Silenced(uiQueue, ResultKinds \cup StatusKinds)
       \/ /\ asking = "info"
          /\ UNCHANGED <<sessionVars, pingVars, taskVars, histVars, uiQueue>>
    /\ UNCHANGED <<boxVersion, planVars, flagVars, fileVars, importing>>

-----------------------------------------------------------------------------
(* The UI thread: a status                                                 *)

\* deviceDidReceiveSyncStatus.  The first one of a session only notes that it
\* came.  A later one of a SONCA box fetches the hidden and the offline list
\* when their versions differ: the second start cancels the first.
StatusArrives ==
    /\ Delivers({"status"})
    /\ serverStatus' = TRUE
    /\ LET later == serverStatus /\ intSvrModel = "SONCA"
           hidden == /\ later /\ ~flagDownloadingHidden /\ "hidden" \in Files
                     /\ saved["hidden"] # boxVersion["hidden"]
           removed == hidden /\ boxVersion["hidden"] = 0
           offline == /\ later /\ ~flagDownloadingDD /\ "offline" \in FilesOf[intSvrModel]
                      /\ listed # boxVersion["offline"]
           fetched == (IF hidden /\ ~removed THEN {"hidden"} ELSE {}) \cup
                      (IF offline THEN {"offline"} ELSE {})
       IN /\ flagDownloadingHidden' = (flagDownloadingHidden \/ "hidden" \in fetched)
          /\ flagDownloadingDD' = (flagDownloadingDD \/ offline)
          /\ toSave' = [f \in Files |-> IF f \in fetched THEN boxVersion[f] ELSE toSave[f]]
          /\ saved' = [f \in Files |-> IF removed /\ f = "hidden" THEN 0 ELSE saved[f]]
          /\ disk' = Without(disk, (IF removed THEN {"hidden"} ELSE {}) \cup
                                   (fetched \cap {"offline"}))
          /\ \/ \E s \in {"hidden", "offline"} :
                  /\ s \in fetched /\ (s = "hidden" => ~offline)
                  /\ Start(s, PathOf(s), Handled) /\ HoldPing
             \/ /\ fetched = {}
                /\ allowTimerPing' = TRUE
                /\ uiQueue' = Handled
                /\ UNCHANGED <<DownloadState, execVars>>
             \/ /\ serverStatus /\ intSvrModel = "SMARTK"
                /\ Start("add", "none", Handled) /\ HoldPing
    /\ UNCHANGED <<sessionVars, boxVersion, polling, pinging, need, inherited, listed,
                   suspect, dialogVars, histVars, attempted>>

\* callDownloadFileMidiFromPlayer: the player shows the lyrics of a SMARTK box.
UserMidi ==
    /\ serverStatus /\ intSvrModel = "SMARTK" /\ Len(uiQueue) < MaxPending
    /\ Start("midi", "none", uiQueue) /\ HoldPing
    /\ UNCHANGED <<sessionVars, boxVersion, serverStatus, polling, pinging, planVars,
                   flagVars, fileVars, dialogVars, histVars, attempted>>

-----------------------------------------------------------------------------
(* The timer thread: PingTask                                              *)

pingFrame == <<boxVersion, allowTimerPing, planVars, flagVars, fileVars, dialogVars>>

PingBegins ==
    /\ pinging = 0 /\ allowTimerPing /\ ~serverStatus /\ logins > 0
    /\ pinging' = logins
    /\ UNCHANGED <<pingFrame, sessionVars, serverStatus, polling, taskVars, histVars, uiQueue>>

\* executeCommandPing takes up to a second; serverStatus is tested again after
\* it, allowTimerPing is not.  A catalogue takes longer to get to its import.
PingAnswers ==
    /\ pinging > 0 /\ pinging' = 0
    /\ ~serverStatus /\ ~importing
    /\ Disconnect("connecting")
    /\ uiQueue' = Silenced(uiQueue, ResultKinds \cup StatusKinds)
    /\ UNCHANGED <<pingFrame, intSvrModel, serverStatus>>

PingInVain ==
    /\ pinging > 0 /\ pinging' = 0
    /\ UNCHANGED <<pingFrame, sessionVars, serverStatus, polling, taskVars, histVars, uiQueue>>

-----------------------------------------------------------------------------
Worker ==
    \/ StartDownload \/ ExchangeLost \/ Refused \/ Empty \/ HeaderArrives
    \/ BodyComplete \/ StrayComplete \/ BodyShort \/ BodyThrows \/ ReturnsInvalid

Deliver ==
    \/ DownloadFailed \/ HiddenDownloaded \/ ListDownloaded \/ OtherDownloaded
    \/ InvalidResponse \/ Cancelled \/ Disconnected \/ StatusArrives

User == UserConnect \/ UserDisconnect \/ UserMidi \/ AnswerBusy

Next ==
    \/ User \/ Worker \/ Deliver \/ StatusAsked \/ ImportEnds
    \/ PingBegins \/ PingAnswers \/ PingInVain \/ ConnectFails
    \/ \E f \in Changing : BoxUpdates(f)
    \/ \E m \in Models, plan \in SUBSET (Lists \cup {"main"}) : Login(m, plan)

Spec == Init /\ [][Next]_vars

\* Every thread is scheduled, sockets time out, and a box that is looked for often
\* enough answers a ping.  The user, the box and the connects are not fair, but
\* the user does not leave the drawer of the boxes open for ever, which stops PingTask.
FairSpec ==
    /\ Spec
    /\ WF_vars(Worker) /\ WF_vars(Deliver) /\ WF_vars(StatusAsked) /\ WF_vars(ImportEnds)
    /\ WF_vars(PingBegins) /\ SF_vars(PingAnswers)

-----------------------------------------------------------------------------
(* Properties                                                              *)

\* Only lists have a path that is followed.
Tasks ==
    {t \in [step : Steps \cup {"none"}, path : Paths \cup {"none"}, live : BOOLEAN] :
        t.path # "none" => t.step \in Files}

Messages ==
    [kind : ResultKinds \cup StatusKinds \cup {"failed", "cancelled"}, task : Tasks]

\* The values the variables take.
TypeOK ==
    /\ session \in {"off", "connecting", "up"} /\ intSvrModel \in Models \cup {"none"}
    /\ boxVersion \in [Files -> 0 .. MaxVersion]
    /\ serverStatus \in BOOLEAN /\ polling \in BOOLEAN
    /\ allowTimerPing \in BOOLEAN /\ pinging \in 0 .. MaxLogins
    /\ DownloadState \in Steps \cup {"idle"}
    /\ need \subseteq Files \cup {"main"} /\ inherited \subseteq Inheritable
    /\ orphaned \in BOOLEAN /\ logins \in 0 .. MaxLogins
    /\ toSave \in [Files -> 0 .. MaxVersion]
    /\ flagDownloadingHidden \in BOOLEAN /\ flagDownloadingDD \in BOOLEAN
    /\ listed \in 0 .. MaxVersion /\ saved \in [Files -> 0 .. MaxVersion]
    /\ disk \in [Paths -> Contents] /\ suspect \subseteq Files
    /\ importing \in BOOLEAN /\ asking \in {"none", "toc", "info"}
    /\ waiting \in Tasks /\ running \in Tasks
    /\ pc \in {"idle", "exchange", "body", "failed"}
    /\ uiQueue \in Seq(Messages)
    /\ attempted \subseteq Steps \cup {"none"}

Chain == Lists \cup {"toc", "lyrics", "info"}
Pending(t) == t.live /\ t.step \in Chain

\* PingTask disconnects without asking what the session is doing; only allowTimerPing
\* and serverStatus, tested before it pings the box, keep it away from a chain.  They do:
\* a ping that would cut a session short has begun before that session's login or finds
\* no step of its chain waiting or under way.  (One that has begun before the login does
\* cut the chain, for allowTimerPing is not tested again.)
PingSparesItsSession ==
    session = "up" /\ pinging = logins /\ ~serverStatus /\ ~orphaned
        => ~Pending(waiting) /\ ~Pending(running)

\* DownloadState tells what a success is about: it is written at each start and
\* read in another message, with clicks, statuses and failures between the two.
SuccessNamesState ==
    Delivers({"success"}) /\ ~orphaned => DownloadState = Head(uiQueue).task.step

\* A list that the next login would call up to date is the box's, whole; a
\* broken or given-up download is never remembered as done.  (A list for which another
\* answer's bytes were taken is: nothing tells it from a download that went well.)
UpToDateMeansWhole ==
    \A f \in Files \ suspect :
        saved[f] = boxVersion[f] /\ saved[f] # 0 /\ disk[f] # NoFile
            => disk[f] = <<f, boxVersion[f]>>

\* A session polls when all that its login found to fetch has been tried,
\* whichever lists failed on the way.  (The failure of a download that was
\* cancelled may start the polling in the middle of another session's chain.)
PollingMeansAttempted ==
    session = "up" /\ polling /\ ~orphaned =>
        /\ need \cap Lists \subseteq attempted
        /\ "main" \in need => "toc" \in attempted

\* What will move the session on by itself: a download that is queued, that runs or
\* whose report is still to be handled.
Underway ==
    \/ waiting # NoTask \/ running.live
    \/ \E i \in DOMAIN uiQueue :
          uiQueue[i].task.live /\ uiQueue[i].kind \in ResultKinds \cup {"failed"}

\* A session that neither polls nor asks the user anything is never abandoned: a
\* download is under way, or the import runs, or the timer thread is let in and will
\* find no status.  No report, however late or doubled, is the last thing to happen.
\* (A session that inherited a flag, a status or a dialog may well be abandoned.)
ChainNeverStuck ==
    session = "up" /\ ~polling /\ asking = "none" /\ inherited = {}
        => Underway \/ importing \/ (allowTimerPing /\ ~serverStatus)

\* A session never hangs between login and polling: the chain ends in polling, in
\* a reconnection or in a question to the user, whatever fails.  Excepted are the
\* sessions that inherit flagDownloadingHidden, serverStatus or a dialog that is
\* still shown from the one before.
ChainSettles ==
    session = "up" /\ ~polling
        ~> polling \/ session # "up" \/ asking # "none" \/ inherited # {}
=============================================================================
