# Verification of the Sonca karaoke remote control

The repository is an Android remote control (KaraokeConnect_ST) for Sonca karaoke
boxes, with the library that talks to the box (LibSmart) and one for network shares
(LibSamba). This directory holds TLA+ modules of the part in which behaviour is hard
to test: one TCP socket to the box, used by many asynchronous tasks, timers and the
user interface at once; and what that socket brings: the files fetched after a login and the
song catalogue that a native importer puts into the database. Paths below are relative to
`src/`; "NetworkSocket" is `LibSmart/src/vn/com/sonca/smartkaraoke/NetworkSocket.java`,
"TouchMainActivity" is
`KaraokeConnect_ST/src/vn/com/sonca/Touch/touchcontrol/TouchMainActivity.java`.

## 1. Inventory

| Component | State it keeps | Operations | Talks to |
|---|---|---|---|
| Command session (NetworkSocket) | `clientSocket`, `isProcessingData`, `authenID`, one field per kind of task (`commandTask`, `playlistTask`, `connectTask`, ...) | `sendCommand`, playlist operations, `connectToRemoteHost`, `disconnectFromRemoteHost`; in the background `doInBackground` of each task and `processSocket_SendReceive` | the box over TCP; the receiver through callbacks |
| Status polling (NetworkSocket) | `timerSyncStatus`, `syncTask` | `startSyncServerStatusThread`, `cancelSyncServerStatus`, `TimerTask.run` | the session's socket and executor |
| Connect handshake and encryption (NetworkSocket) | `svrModel`, `codeVersion`, `flagEncrypt`, `authenID` | `AsynTaskConnectHost`, `AsynTaskAuthenHost` | the box |
| Downloads (NetworkSocket, TouchMainActivity) | `downloadTask`, the files, `DownloadState`, `need...` and `save...` fields, the versions in the settings | `download...File`, `AsynTaskDownloadFileUpdate`, `deviceDidDownloadFile`, the plan made at the login | the box, without the exchange lock; the polling, which waits for the end of the chain |
| Native catalogue import (SmartKaraoke.cpp, libsqlite.h) | `database.db`, one connection and its transaction | `importTocToDatabase` | the downloads, the readers of the database |
| Catalogue update (TouchMainActivity) | `lastUpdate1..4`, `saveSkipUpdate1..4`, `flagParseDB`, `skipDownload`, the saved versions | `processTocDauMay`, `revertDB`, `processResetToPackageDB`, the first status | the importer, the login |
| Discovery (NetworkSocket, TouchMainActivity) | `searchTask`, `isScanning`, the list of boxes | `searchNearbyDevice`, `deviceSearchCompleted`, the buttons of the list | UDP broadcast; the automatic reconnection |
| Application object (MyApplication) | `enableConnectDevice`, `flagDisplayTimeout`, `connectedServer`, `listDeviceCurrent`, the listener | forwards every call and callback; connects to the last device at start (`ConnectDevice`) | NetworkSocket, the activity |
| Touch and KTV activities | the view of the connection, `serverStatus`, `flagAllowConnect` | clicks, callbacks of the receiver | MyApplication |
| Automatic reconnection (AutoConnect, a timer for a lone KARTROL box, PingTask, DeviceStote) | `autoConnectDevice`, `flagAllowConnect`, `allowTimerPing`; remembered devices | choice among the devices found; every ten seconds: ping the last box, disconnect, connect | the session and `connectedServer`, from the executor's and from timer threads |
| Package and status codec (ServerPackage, ByteUtils) | none | parse and build packages | NetworkSocket |
| Catalogue merge and edit (jni/parse_toc, natives) | sorted song tables | insert, update, delete, merge | nobody: no Java of the application calls them |
| Database, loaders, MIDI, samba, firmware server | query state, files | reading and writing | the activities |

How they interact: the activity calls MyApplication, which forwards to NetworkSocket
on the UI thread. NetworkSocket makes an `AsyncTask`, keeps it in a field and executes
it. Android runs the `doInBackground` bodies one after another on a pool thread and
posts each result to the main looper, where `onPostExecute` calls the receiver. The
receiver is the activity, which may call back into NetworkSocket: on
`deviceDidDisconnected` it shows its disconnected view and disconnects. A
`java.util.Timer` issues status requests from a thread of its own. There is no
`synchronized`, `volatile` or lock object in the session: the boolean
`isProcessingData` and the null tests on fields are all there is.

What is hard here: a disconnect on the UI thread between any two statements of a task;
a timer run that outlives its cancellation; five sends of one request with a timeout
each; answers that arrive after the phone gave up; a box that closes its end; a failure
delivered after the session it belongs to is gone; one `DownloadState` for reports of
downloads that were started by four different handlers; a timer thread that disconnects
long after it tested that it may; an import that empties tables before it fills them and
does not hear of half of its failures; a version saved by a later session; one field
`connectedServer` that the user, two tasks and two timers write, and that a login remembers
as its box; a search that is cancelled, replaced, or overtaken by a connect. The complete
list, with the line
each one bites at and the properties that cover it, is under `hazards` in
`PROJECT.json`.

What makes each component correct:

* session: an exchange touches only its own socket; the lock is held while bytes travel and
  free otherwise; nothing of an old session calls back into a new one; a command runs a bounded
  number of times; every task ends;
* polling: one timer; a cancellation is complete; polling goes on while a timer runs;
* handshake: commands only after the login of this connection; the encryption flag
  belongs to the package being decoded; a failed handshake leaves nothing half open;
* downloads: a report is acted on as the report of the download it is about; a list that is
  remembered as fetched is whole; every list of the plan is tried; the chain ends in polling, a
  reconnection or a question, whatever fails; a ping begun in the session does not cut it;
* import and update: a song a reader finds has its people and links, of one catalogue; a
  success is whole; the saved version describes the database; a failed update is repaired;
* discovery: a search that is shown ends and leads somewhere; what connects by itself spares
  a session the user has; the box remembered is the box logged in to;
* application: a connect is possible when, and only when, nothing is connected;
* codec: fields are read with the width and sign they were written with.

## 2. Modules

| Module | Models |
|---|---|
| `CommandService` | what the session promises: abstract, without threads, sockets, queues or retries |
| `CommandSession` | the session with its UI thread, pool threads and the box |
| `MCCommandSession` | its TLC instances |
| `CommandSessionProofs` | type correctness and four safety theorems |
| `CommandServiceProofs` | bounds on executions, successes that are backed, and the refinement |
| `StatusPolling` | the timer thread, start/cancel, the status request, the serial executor |
| `MCStatusPolling` | its TLC instances |
| `StatusPollingProofs` | type correctness and two safety theorems |
| `SongImport` | the native importer and the contents of the database, statement by statement |
| `CatalogueUpdate` | EXTENDS it with the activity: login, download, versions, restore, crash |
| `MCCatalogueUpdate` | its TLC instances |
| `CatalogueUpdateProofs` | type correctness and three safety theorems of both |
| `DownloadChain` | the downloads of a session, their reports, the dialog, the timer thread |
| `MCDownloadChain` | its TLC instance |
| `DownloadChainProofs` | type correctness, whose report is handled, which pings spare the session |
| `DownloadFilesProofs` | that lists called up to date are whole |
| `DownloadPlanProofs` | that polling follows the plan and that no session is abandoned |
| `DeviceSearch` | the list of boxes: search, choice, automatic connection, what is remembered |
| `MCDeviceSearch` | its TLC instances |
| `DeviceSearchProofs` | type correctness and three safety theorems |

The modules meet at narrow interfaces, each abstracting what another has in detail.
DownloadChain takes a connect to fail or succeed and a request to be lost at any point
(CommandSession says how), polls with one status at a time (StatusPolling says why), and
takes "the catalogue differs" and "the import runs" as one step each (CatalogueUpdate).
CatalogueUpdate in turn takes the two catalogue files to arrive, to be unreadable or to
fail. DeviceSearch takes a connect, its teardown and its handshake as one step
(CommandSession), a session to change its status and to be lost at any time (StatusPolling),
and PingTask to be allowed whenever there is no status (DownloadChain).

### CommandSession and the code

A step is one access to a field that another thread writes: a null test and the
dereference after it are two actions, so are the test and the taking of
`isProcessingData`. A socket is named by the connect task that made it, and a package
by its command, because no property looks inside one.

* `IssueReplacing`, `IssueSort`, `IssueAdd`, `IssueConnect`: the public operations. Most
  cancel the task in their field and replace it; `sortSongPlaylist` keeps its task in no
  field; `addSongToPlaylist` does nothing at all while a task is pending.
* `UserDisconnect` to `AfterDisconnect`: `disconnectFromRemoteHost`, statement by
  statement once it reaches the socket, and the connect the caller issues afterwards.
  The cancellations before it are one step. That is what the UI thread's handlers see of
  each other; PingTask (TouchMainActivity 10272), the timer of a lone KARTROL box (6568) and
  ConnectDevice (MyApplication 1141) call the same methods from threads of their own. Such a
  call is covered when it does not overlap a handler of the UI thread, and left out when it
  does: the properties of the session say nothing about two disconnects at once.
* `FinishTask`: `onPostExecute` on the looper. A cancelled task calls nobody; a
  disconnection (and a timeout, unless a scan asked for it) makes the activity disconnect.
* `StartTask`, `Return`: AsyncTask's serial executor (external).
* `CheckSocket` to `CallExchange`: the precheck of every command. `TakeLock` to
  `DropSocket`: `processSocket_SendReceive`; the five nested `try` blocks are one counter
  `tries` bounded by `MaxTries`.
* `DanceSend`, `DanceRead`: the path of the dance and repeat keys, with no lock.
* `ConnectCheck` to `Handshake`: `AsynTaskConnectHost.doInBackground`. The exchange of
  packages after the connect is one step with every outcome it has.
* `*Null` actions: a dereference of a field that was nulled in between; the exception is
  not caught and the process ends (`Crash`).
* `BoxExecutes`, `BoxCloses`: the box, external: it executes and answers in order, as late
  as it likes, and may close its end.

### CommandSession implements CommandService

`CommandService` knows only the life of a request (new, refused, pending, silenced, over)
and how often the box has executed each command. A newer request of its kind, a
disconnect, or a reported failure silences the pending ones; a silenced request never
calls back; a request that was refused is never executed. `Life(t)` is the refinement
mapping: a task is pending while it is queued, running or posted and not cancelled, and
silenced when it was cancelled, although its thread may still be on the wire. What the
code does in many steps (a disconnect, an exchange with its retries) is one step or none
there, so the refinement says that no interleaving of those steps can be told from
outside. A null dereference ends the process and is a stutter: it breaks no promise of
this kind. The runs check the refinement on small
instances; theorem `SessionImplementsService` proves it for every value of the constants.

### StatusPolling and the code

* `RunBegins` to `RunThrows`: `TimerTask.run`, one step per access to `syncTask`.
* `StartTimer`: `startSyncServerStatusThread`, called by a login and by the end of a
  download. `CancelTimer` to `CancelForgets`: `cancelSyncServerStatus`.
* `AfterCancel`: what its caller goes on with: nothing (a download pauses the polling), the
  socket part of `disconnectFromRemoteHost`, or that and a new connect. The disconnected
  view calls `cancelSyncServerStatus` and then `disconnectFromRemoteHost`, which calls it
  once more.
* `StartTask`, `SyncReturns`, `ConnectReturns`, `FinishTask`: the executor and the looper.
  A task cancelled before its turn stays in the queue until the executor skips it, and the
  object is used for a new request only when no queue holds it any more.
  The socket is only up or down here; CommandSession has it in detail. A connect with a
  password logs in by itself; the login dialog's separate task is not modelled.
* `overlap` and `foreign` are history variables: whether some timer was cancelled during a
  run, and which requests a cancelled timer issued.

### SongImport, CatalogueUpdate and the code

* `Import` to `LoadFault`: `importTocToDatabase`. `After` is the order of its statements:
  two tables emptied and filled, then all song and people tables emptied, the people
  committed, the songs and links committed. A delete runs in autocommit mode, because the
  transaction begins after it. `HasRow` is what the loops over the parsed files write.
* `SwallowedFault`: `statement::step` of libsqlite.h builds an exception and does not
  throw it; deletes, begins and commits go through it. SQLite may or may not abandon the
  open transaction (a full disk does). After a begin that failed the rows are autocommitted;
  after a commit that failed the transaction stays open and the next begin is an error.
  `LoadFault`: only the row statements are tested; they roll back and return false.
* `Authenticate`, `Downloaded`, `DownloadFailed`, `DialogAnswered`: the login's version
  test, before which it reads `saveSkipUpdate1..4` anew (4535-4538), and what comes of the
  download of MEGIDX and LYRICS.
* `ImportSucceeded`, `ImportFailed`: the import thread of `processTocDauMay`. The versions
  are saved after the table work that may throw; a failure is reverted with the
  packaged database unless that happened within five seconds or a view refuses the thread.
* `RestoreBegins`, `RestoreCopied`, `RestoreSaved`, `RestoreThrows`:
  `processResetToPackageDB`, called by the revert and from the menu (`UserReset`). The file
  is emptied when it is opened, holds the package when the copy is complete, and its version
  is saved after views and song types were reloaded; an exception anywhere in between is
  swallowed (12526) and a crash may come at any time. A file whose copy was not finished
  (`torn`) cannot be imported into (`TornImport`).
* `FirstStatus`: the second place that saves versions, whenever `flagParseDB` is set.
* `ParseFromAsset`, `AssetParsed`: the service code that imports the packaged files and
  ignores the result. `Crash`: death and `onCreate`.
* A box of another model (`OtherModels`) has a database of its own and never updates this
  one, but its version reaches `lastUpdate`, and can be saved.
* `taint` and `blame` are history variables. `taint` says whether a swallowed failure is
  behind the contents; `blame` names the seven events after which the saved version need not
  describe the database. They are set at exactly those events and cleared by a complete
  import or a restore, so `SavedDescribesDatabase` says that there is no eighth.

Abstractions: the four version numbers (two discs, two hard disks) are one value, saved
at once; a row is its table and key; a half-copied database has no rows; failures of the engine
are those of the disk, not locks held by readers.

### DownloadChain and the code

* `Login`: `deviceDidAuthenWithServer`: which lists differ from the box's versions, what is
  deleted, the first download. `NextStep` is the cascade of tests with which each handler
  finds the next list; `Continue` what it does before it starts it (the delete, the flag
  `allowTimerPing`, the path).
* `Start`: every `download...File` of NetworkSocket: cancel the task in `downloadTask`, make
  a new one. A result of a cancelled task goes to `onCancelled`; the failure posted by
  `publishProgress(2)` is delivered all the same (`live` only remembers whose it was).
* `StartDownload` to `ReturnsInvalid`: `AsynTaskDownloadFileUpdate.doInBackground`. It
  neither empties the stream before its request nor compares the command of the header, so
  the second answer of a resent status request (NetworkSocket 6993) or the rest of a body
  whose read timed out can be taken for header and body: `HeaderArrives` may be of any
  answer, and with `StrayComplete` as many bytes as it announces, but other ones, count as a
  success.
* `DownloadFailed`, `HiddenDownloaded`, `ListDownloaded`, `OtherDownloaded`:
  `deviceDidDownloadFile` for failure and success, by `DownloadState`. `InvalidResponse` and
  `Disconnected`: the two results that do not go there. `ImportEnds`, `AnswerBusy`: the end
  of the import, the dialog of a failed download.
* `StatusArrives`, `UserMidi`: the downloads outside the chain, which share its task, its
  `DownloadState` and its flags.
* `PingBegins`, `PingAnswers`, `PingInVain`: `PingTask.run` on its timer thread, with the
  ping of up to a second between its tests and its disconnect; `pinging` remembers after
  which login it began.
* A box has versions of its lists that grow or are removed at any time (`BoxUpdates`); a
  path holds nothing, the start of a file, or a version of a list.

`orphaned`, `inherited`, `suspect` and `attempted` are history variables for what the code
really does and a property must except: a failure report of a cancelled download is acted on as
if it were of the current one; a login finds `flagDownloadingHidden`, `serverStatus` or an open
dialog of the session before; the file just fetched is deleted before the shares are fetched
(`savePath`, TouchMainActivity 5320, 5730, 5781), and an offline list after a failed online
list is fetched into the wrong path (5541), which spoils both lists: the one is overwritten,
and the version of the other is saved although its own file was deleted; and a list may have
been taken from stray bytes. Each is set only at that event, so the properties say there is no
other way. A list leaves `suspect` when it is fetched to its own path.

### DeviceSearch and the code

* `OnShowConnect` to `OnDisConnect`, `OnConectIpPass`, `OnRemoveDevice`, `OnStart`: the
  buttons of the list of boxes and its fragment's life (TouchMainActivity, ListDevice).
  `OnPause`, `OnResume`: the activity's, which cancel AutoConnect and recompute the view.
* `SearchCompleted`: `deviceSearchCompleted`: end the scan, connect to a lone KARTROL box
  from a timer thread (`ScheduleKartrol`), or choose (`ChooseBox` executes AutoConnect).
  `ShowList` saves the current box when its state is CONNECTED, as `OnShowListDevice` does.
* `AutoConnected`: AutoConnect's two listeners on the UI thread; `ConnectReported`: the
  callbacks of a connect; `StatusChanges`, `RequestFails`, `SessionLost`: what a session
  brings, in one step each.
* `StartTask` to `Connects`: the serial executor with `AsynTaskSearchDevice`, AutoConnect,
  MyApplication's ConnectDevice and the connect. AutoConnect's loop reads the size of the
  list and then an element of it (`AutoTests`, `AutoGets`) while the UI may replace it.
* `KartrolPings` to `KartrolSetsCurrent`: the timer task of the lone box, a step per call to
  MyApplication; `PingBegins` to `PingStarts`: PingTask, likewise.

`Silence` is cancellation: a cancelled search or connect tells nobody, a cancelled
AutoConnect reaches its `onCancelled`. Datagrams are the set of boxes that answered; names,
passwords and the dialogs that ask for them are left out; a box counts as saved (`isSave`)
when it is in `deviceStote`. `fruitless`, `refreshed` and `chosen` are history variables:
the last search found no box; `flagAllowConnect` was set again after a login; the box the
UI thread connects to, forgotten at exactly the events that take the choice from it (a
worker or timer that connects or sets the current box, and a disconnect).

## 3. Runs

| Run | Instance | Question | Result |
|---|---|---|---|
| `SessionReconnect` | two connects, reserve-first and add-song, two pool threads, one send | isolation of sessions and of the tasks in one field | holds |
| `SessionRetry` | one connect; volume key, sort, dance key; two pool threads, two sends | types, lock, resends, late answers; does it implement `CommandService`? | holds |
| `SessionLive` | one connect, a replacing and a refused playlist request, one thread, one send | does it implement `CommandService`, and does every task resolve? | yes |
| `SessionLockLeak` | one command | does a set lock mean an exchange? | violated |
| `SessionLateReply` | two playlist requests | does success mean executed? | violated |
| `Polling` | one timer, two requests, one connect | which timer fires, complete cancellation; does polling go on? | holds |
| `PollingOrphan` | two timers, two requests, one connect | does a cancelled timer's request tear down a later session? | yes: violated |
| `ImportUpdate` | a box and one of another model, the packaged catalogue and the box's, one storage failure, one crash, one reset, one lost download | whole songs, true versions, convergence | holds |
| `ImportUpToDate` | two boxes and one of another model, one crash, no failure | is a session without an update up to date? | violated |
| `Downloads` | a SONCA box (offline, hidden list) and a SMARTK box (shares), one version change, two logins, one with a catalogue | chain, reports, files, polling, timer thread; does every session have something to come, and every chain end in polling, a reconnection or a question? | holds |
| `SearchTwoBoxes` | two boxes to choose from, no timer thread | types, the shown search and its end, what a login remembers, automatic connection | holds |
| `SearchTimers` | one KARTROL box, its timer thread and PingTask, one of the two under way at a time | is a shown search one that reports, with connects from two timers? | holds |

The four violations are described under `findings` in `PROJECT.json`, with the lines that
say otherwise.  Five more ways in which the code surprises its user are exceptions that
the properties name, each of which TLC finds when the exception is struck out: a
search without a box keeps "searching" on the screen (`fruitless` in `ScanFlagHonest`), a
timer or the start-up connect that changes `connectedServer` lets a login be remembered
under another box's address (`chosen` in `LoginRemembersChosen`), a restore that is cut
short leaves the package under the old version (`restoreCut` in `SavedDescribesDatabase`),
a list may be another answer's bytes (`suspect` in `UpToDateMeansWhole`), and a ping begun
before the login cuts its chain (`pinging` in `PingSparesItsSession`). The thread of a lone
KARTROL box may also cut a session reported during its ping, and a task may meet a null
socket and end the process (`Crash`); no property says otherwise.

Bounds. `Cmds`, `Connects` and `Workers` bound how many commands and connects are issued and
how wide the pool is; `MaxTries` stands for the five sends. Two connects are what a reconnect
needs, two requests of a field are what a replacement or a late answer needs, and two pool
threads are what would overlap if the executor were not serial. A retry is already the general
case with two sends: the first empties the buffer, the others do not; `SessionReconnect` uses
one, because a retry changes none of its three properties' variables. In StatusPolling the
objects are recycled once nothing refers to them, so runs are unbounded in length: `Syncs` and
`Connects` bound only how many are pending at once (one cancelled and one current request),
`Timers` how many timers exist. A cancelled timer that is still in its run needs a second one
beside it, as `PollingOrphan` has; the properties of `Polling` are about the timer of the field
and, in `CleanCancelIsComplete`, about cancellations that met no run, and all three are proved
for any number (with two timers TLC finds 2.9 million states and no violation). The user may
click at any time and any number of times. Symmetry over threads, timers and requests is used
only in runs without liveness. In CatalogueUpdate a catalogue has one or two rows per table,
enough for a row of one catalogue to be missing in, shared with or foreign to another; a
failure, a crash, a reset and a lost download happen once each, in any order with everything
else (the three safety properties are proved for any number). The box of another model is what
brings a version into `lastUpdate` that this database never had. In DownloadChain the two boxes
have one list that is deleted before it is fetched, one fetched into a temporary file, and the
shares, the last list of a chain; one change of a version makes a status start a download in
the middle of a session; two logins are what a flag, a status, a dialog or an orphan of the
session before needs. With the pictures of the lucky wheel, too, the shares have a list before
them, whose file their start deletes (1.8 million states); the safety properties hold, and they
are proved for any lists. `MaxPending` bounds only how many messages wait when the user clicks.
In DeviceSearch two boxes are what a wrong or a replaced choice needs; one box is enough for
the KARTROL timer and PingTask to race with the user, a search and a login. The constraint
`MCOneThread` keeps one of these two waiting while the other is under way. `MaxPending` is how
many tasks and messages a click may find; with one instead of none all properties hold as well
with one box and no timer (545 thousand states), the safety properties with a KARTROL box and
its timer (3.6 million), and the latter are proved for any number and without the constraint.
`CHECK_DEADLOCK FALSE`: the application may stop, after a crash or when every command has been
issued.

Fairness. `SessionLive` assumes that the looper and the executor's thread are scheduled and
that reads and connects end within their timeouts; nothing of the user or the box. The looper
serves messages in order, so clicks do not overtake a posted result for ever, which is strong
fairness of `FinishTask`: it is disabled while the UI is inside another handler. `Polling`
assumes in addition that each timer fires and runs. No fairness is assumed of the actions of
the user. `ImportUpdate` assumes that the threads run, downloads end and the timers reconnect,
and of the user that no session lasts for ever; `Converges` states as its premise that he keeps
returning to one box. `Downloads` assumes that the worker, the looper, the status requests and
the import are scheduled, and that a box looked for often enough answers a ping (strong
fairness of `PingAnswers`: every ping may also be in vain), with the last box remembered and
the drawer of the boxes not left open for ever, both of which stop the timer thread; nothing of
the user, the box or the success of a connect. `SearchTwoBoxes` assumes that the looper and the
executor run, since a search, a ping and a connect have timeouts; `ScanEnds` states as its
premise that the user does not start the search anew for ever.

Every property has a mutant in `PROJECT.json`: a plausible slip of the code (the pool executor
instead of the serial one, a forgotten field in the disconnect, one retry too many, a lock
released on a failed try, a dropped test of the answer's command, no read timeout, a timer
forgotten but not cancelled, songs imported before their singers, a table deleted twice and
another not at all, a restore that forgets, drops or confuses the version, a download that does
not cancel the last one, a short file taken for whole, a forgotten list in a cascade, a flag
not given back, a cancelled search that leaves its flag, an automatic connection that leaves
its field, a connect that does not cancel the last one, an automatic connection that does not
ask whether it still may) under which TLC finds the property violated.

## 4. Proofs

TLAPS checks these for every value of the constants that satisfies the named assumption of the
module (`CommandSessionAssumption`, `StatusPollingAssumption`: the names of commands, connects
and null are distinct, at least one send, finitely many connects of the polling;
`SongImportAssumption`, `CatalogueUpdateAssumption`: a catalogue is a sequence of rows for each
transaction, each row of a table of that transaction; `DownloadChainAssumption`: each list
belongs to one model; `DeviceSearchAssumption`: finitely many boxes, among them those of the
models KARTROL and KM1, and the empty address is none).

`CommandSessionProofs`:

* `TypeInv == TypeOK /\ PcInv`. TypeOK alone is not inductive: a step that writes
  `conn[mySock[w]]` or posts `cur[w]` needs that a busy thread has a task of the right
  kind, and one that reads has a socket; `PcInv` says which locals are set at which step.
  Theorem `TypeCorrect`.
* `WireInv == OneTask /\ Pins /\ Unlocked`. The serial executor gives `OneTask`, that one
  pool thread is in a task; from it follows that no other thread can replace the field
  `clientSocket` during an exchange, and hence that the only one who clears the lock under
  it is a disconnect that goes on to close that very socket. `Unlocked` covers the later
  steps of the disconnect that `UnlockedMeansDying` needs. Theorems
  `SocketPinned`, `LockHeld`.
* `TaskInv` joins six parts. A tracked task that can still call back is in its field
  (`FieldHoldsLive`), so a disconnect, which cancels what the fields hold, cancels all of
  them; the queue of the executor, the looper's queue and the running task hold only tasks
  in the matching state, which is what keeps a field's task from being revived.
  Theorems `NoStaleCallback` and `OneLivePerField`.

`CommandServiceProofs` extends them:

* `SentInv`: the executions of a task's command and the copies still on their way to the
  box (`Waiting`, summed over all sockets with the cardinality of `Sent`) are together at
  most the tries begun, because a try writes one copy and the box executes what it takes
  out. Theorem `ExecutionsBounded`.
* `AnswerInv`: each reply in flight or in a buffer belongs to a command that was executed,
  so whichever reply a reader takes for its own, its kind was executed; a reader has a
  socket and only the dance reads without an exchange. Theorem `SuccessIsBacked`.
* `FieldInv`: a field holds a tracked task of its slot that was issued and that is not
  cancelled as long as it is unresolved. With it a request silences in CommandService
  exactly the tasks that it cancels in CommandSession. There is one lemma per kind of step
  (`IssueStep`, `RefuseStep`, `DisconnectStep`, `FinishStep`, `StartStep`, `RunStep`,
  `ExecuteStep`): the first three map to steps of the service, a start and the steps on
  the wire to none, an execution and a callback to their own. Theorem
  `SessionImplementsService`.

`StatusPollingProofs`: `SingleTimer`. A timer is put on only when the field is free and is
put off when it leaves the field; the two facts together with the field's type are
inductive (`TimerInv`). `PollingTypeCorrect`. `CancelIsComplete` rests on `TaskInv`, that the
executor's and the looper's queue hold each task once and in the state its place says, so
that an object is used anew only when nothing holds it; and on `CleanInv`: as long as no
timer was cancelled in its run, a run and `cancelSyncServerStatus` exclude each other
(`RunInv`: a run is that of the timer in the field; `StopInv`: the cancellation has nulled
that field), so that each of them alone decides what `syncTask` holds.

`CatalogueUpdateProofs`: `CatalogueTypeCorrect`, `SongsStayWhole`, `TrueIsWhole`,
`SavedIsTrue`. `ImportInv` says what the two views of the database hold at each statement:
`ProgressInv` that the tables before the next statement hold the job's rows and those
after it what was there, `TxInv` that `work` and `db` differ only inside a transaction,
`WholeInv` that `db` is whole between any two. It is inductive for every number of rows,
because a transaction's rows reach `db` all at once. `JavaInv` adds `PhaseInv` (when an
import runs and whose it is) and `SavedInv`, which is `SavedDescribesDatabase` with the
intermediate states: a true result not yet saved, a revert not yet done. `RestoreInv` says that
a restore runs alone, what the database holds when the copy is complete, and that the restore counts
as cut short until its version is saved.

`DownloadChainProofs`: `DownloadsTypeCorrect`; its `TypeOK` is proved in five parts, one per
group of variables, with the shape of the message queue kept by `Silenced` and `Append`.
`SuccessesNameTheirDownload` rests on `LiveInv`: at most one download is live among the
field, the executor and the queue, and its step is `DownloadState`; a start keeps it because
it silences the last one. `PingsSpareTheirSession` rests on `PingInv`: while the chain is
under way the timer thread is held or a status is known; on `OrderInv`, that nothing polls before
the chain ends unless an orphan was handled; and on `SpareInv`: a ping that began after the last
login began when no step of the chain was queued or running, and a step is started in a session
that knows no status only by its login or by a report of the step before.

`DownloadFilesProofs`: `UpToDateListsAreWhole` rests on `FilesInv`, in which a list is `Clean`
when its saved version is the box's and it is not suspect. `JobInv` is about the downloads that
can still report: each is the one `DownloadState` names, on its own path but for the slip of the
offline list (`Named`); none writes the file of a list that is `Clean`, nor the hidden list in
place (`PathInv`); a body goes into a file that holds only the start of one; and a success has
left on disk the version its handler will save, unless the box has changed since or the bytes were
stray ones and the list is suspect (`Fresh`).
`DiskInv` is about the files: no saved version is ahead of the box's (`VersionInv`), a plan names
lists of the session's box (`NeedInv`), a `Clean` list is whole (`WholeInv`), and what may still
be started, by a handler (`AheadInv`) or by a status (`ListedInv`), is not `Clean`, so that
deleting or opening its file harms nothing a login would trust. Preparing this proof showed that
the version of the offline list is saved although the list went elsewhere (5541).

`DownloadPlanProofs`: `PollingAfterThePlan` rests on `PlanInv`: while a report is due, all
lists of the plan up to the one that `DownloadState` names have been started, and what comes
only at the end of the chain (the polling, a status, the import, the catalogue's files) is met
only when the plan is done. `NextReached` is the fact about the cascade of tests.
`NoSessionIsAbandoned` rests on `MoveInv`, which excepts no orphaned report: `StillInv` holds of
any session (a queued download can report, statuses come of a polling, a session's import
follows its LYRICS), `RestInv` of one that has inherited nothing and does not poll yet: it knows
no status, fetches its chain only and no list for a status, and has something to come. That the
next list is one of the session's box (`NeedInv`) is needed because `Continue` starts none of
the SMARTK lists on another model, and would end the chain there.

`DeviceSearchProofs`: `SearchTypeCorrect`, again in four parts. `ScanFlagIsHonest` needs
nothing but types: every step that removes the last live search also resets `isScanning`,
starts an automatic connection or has found nothing. It is proved over the set of all that
waits, runs or is posted (`Items`, `Pending`), so the queues may have any length.
`LoginsRememberTheChosen` rests on `ChosenInv`: while the UI thread's choice stands,
`connectedServer` is that box and every live connect is one to it, which a new choice keeps
because it cancels all others, and a running connect uses the address it was made with.
`AutoConnectSparesSession` rests on `RefreshInv`: with a session reported and no return to
the list, `flagAllowConnect` is off.

Only model-checked: the liveness properties `TasksResolve`, `PollingGoesOn`, `Converges`,
`ChainSettles` and `ScanEnds`, which are beyond the prover, as is anything about ENABLED.
Every other property of a run that holds is stated by a theorem. What `ChainSettles` adds to
`ChainNeverStuck` is fairness: that what is to come does come.

## 5. Not modelled

* The drawing, dialogs and layout of both activities, samba, MIDI, lyrics and the firmware
  server: sequential I/O with no protocol of their own. The database beyond the tables of
  the import: SQL text and lists filled from it.
* The remaining kinds of requests (admin, USB, lyric, lucky draw, wifi ...): they repeat the
  field, precheck and exchange of `AsynTaskCommand`.
* Callers of CommandSession's public operations on other threads than the UI's, where they
  overlap a handler of the UI thread. They are in DownloadChain and DeviceSearch, where a
  disconnect and a connect are one step each; between the cancellations (NetworkSocket
  948-1093) and the null (1099) of such a call the UI thread can issue a command that no one
  cancels and that meets the null.
* Of the discovery: `OnSetupWifi` and the administrator's dialogs, the login dialog's separate
  task, and `isCheckSearchDeviceComplete`, which nothing reads. The KTV activity repeats the
  list of the Touch activity.
* Encoding, encryption and status decoding; bytes of a download that a command or a status
  reads as its answer (CommandSession has late answers of its own requests, DownloadChain
  downloads that read another answer's bytes).
* Of the downloads: pictures (`OnUpdatePic`), firmware, the loop `downloadArtistFileInfo`,
  which reads on the calling thread, and `getDeviceIsUser`, which also holds the timer.
* Of the catalogue: `onUpdateAllFromServer`, the copy of the packaged files at the first
  start, the lists of sound files (ZSCA, CPRIGHT) and the native edit functions
  (`mergeData`, `addNewSong` ...), which are registered but have no Java caller.
* Third-party code in the repository: several copies of SQLite, expat, a UTF-8 library,
  jcifs, NanoHTTPD. By line count they are nearly all of its C and C++; what of SQLite the
  importer relies on is modelled as external.

## 6. Plan

In this order:

1. `ConnectHandshake`: the package sequence of connect and login, `flagEncrypt`, `svrModel`
   and `authenID` across sessions.
2. `StatusCodec`: pure functions against reference definitions over bounded inputs.
