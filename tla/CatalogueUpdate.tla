--------------------------- MODULE CatalogueUpdate ---------------------------
(***************************************************************************)
(* When TouchMainActivity replaces the song catalogue.  A box reports the   *)
(* version of its catalogue in the login reply; the application compares it *)
(* with the version it has saved, downloads the box's files and runs the    *)
(* native import of SongImport in a thread.  The saved version is written   *)
(* after the import, and once more when the first status reply arrives.     *)
(* A failed import, or the user, restores the packaged database: the file   *)
(* is copied over the old one, and its version is saved afterwards.         *)
(*                                                                          *)
(* The four version numbers are one value: a process that dies while it     *)
(* saves them is taken to die before the first or after the last.  No other *)
(* connection starts in a download or an import: the login clears           *)
(* flagAllowConnect and the progress dialog cannot be dismissed.            *)
(***************************************************************************)
EXTENDS SongImport

CONSTANTS
    Box,          \* the boxes the user connects to
    BoxVersion,   \* the catalogue of each box
    OtherModels,  \* boxes with a catalogue of their own, not imported here
    NoBox,        \* no connection
    Package,      \* the catalogue of the packaged database.db
    MaxCrashes, MaxResets, MaxLosses  \* bounds

ASSUME CatalogueUpdateAssumption ==
    /\ BoxVersion \in [Box -> Version]
    /\ OtherModels \subseteq Box
    /\ NoBox \notin Box
    /\ Package \in Version
    /\ {MaxCrashes, MaxResets, MaxLosses} \subseteq Nat

VARIABLES
    saved,         \* the version in the settings (saveServerLastUpdate)
    saveSkip,      \* the version the settings held at the last login
    lastUpdate,    \* the version the last login reply reported
    conn,          \* the connected box
    phase,         \* what the activity is doing
    usable,        \* the downloaded files parse
    flagParseDB, skipDownload,
    recentRevert,  \* a restore of the packaged database began in the last 5 s
    restore,       \* how far processResetToPackageDB is
    torn,          \* database.db is a copy that was not finished
    blame,         \* history: why saved need not describe the database
    crashes, resets, losses

versionVars == <<saved, saveSkip, lastUpdate, skipDownload, flagParseDB>>
restoreVars == <<recentRevert, restore, torn>>
counters == <<crashes, resets, losses>>
javaVars == <<versionVars, conn, phase, usable, restoreVars, blame, counters>>
vars == <<importVars, javaVars>>

Phases == {"off", "download", "dialog", "import", "asset", "first", "on"}

\* deviceDidAuthenWithServer: isNeedUpdateDauMayDif, never for other models.
NeedsUpdate(b) == b \notin OtherModels /\ BoxVersion[b] # saved

Init ==
    /\ ImportInit(Catalogue(Package)) /\ job = Package
    /\ saved = Package /\ saveSkip = Package /\ lastUpdate = Package
    /\ conn = NoBox /\ phase = "off" /\ usable = TRUE
    /\ flagParseDB = FALSE /\ skipDownload = FALSE
    /\ recentRevert = FALSE /\ restore = "none" /\ torn = FALSE
    /\ blame = {}
    /\ crashes = 0 /\ resets = 0 /\ losses = 0
-----------------------------------------------------------------------------
\* A login that succeeds, with the box's catalogue version; the handler reads
\* the saved version anew.
Authenticate(b) ==
    /\ phase = "off"
    /\ conn' = b /\ lastUpdate' = BoxVersion[b] /\ skipDownload' = FALSE
    /\ saveSkip' = saved
    /\ phase' = IF NeedsUpdate(b) THEN "download" ELSE "first"
    /\ UNCHANGED <<importVars, saved, usable, flagParseDB, restoreVars, blame,
                   counters>>

\* MEGIDX and LYRICS have arrived (DownloadState 2): processTocDauMay.
Downloaded(ok) ==
    /\ phase = "download"
    /\ ok \/ faults < MaxFaults
    /\ usable' = ok /\ phase' = "import"
    /\ Import(BoxVersion[conn], ok)
    /\ faults' = IF ok THEN faults ELSE faults + 1
    /\ UNCHANGED <<versionVars, conn, restoreVars, blame, counters>>

\* A download fails: ShowBusyDownloadTOC(0) asks what to do.
DownloadFailed ==
    /\ phase = "download" /\ losses < MaxLosses
    /\ losses' = losses + 1
    /\ skipDownload' = TRUE /\ phase' = "dialog"
    /\ UNCHANGED <<importVars, saved, saveSkip, lastUpdate, conn, usable,
                   flagParseDB, restoreVars, blame, crashes, resets>>

\* Both buttons end the session (DefaultViewWhenDisConect).
DialogAnswered ==
    /\ phase = "dialog"
    /\ phase' = "off" /\ conn' = NoBox
    /\ UNCHANGED <<importVars, versionVars, usable, restoreVars, blame, counters>>

\* The versions to save, here and at the first status reply.
SaveVersions ==
    /\ saved' = IF skipDownload THEN saveSkip ELSE lastUpdate
    /\ skipDownload' = FALSE

\* The import returned true.  An exception in the index or table work that
\* comes first is caught, and then nothing is saved.
ImportSucceeded ==
    /\ phase = "import" /\ result = "true"
    /\ flagParseDB' = TRUE /\ phase' = "first" /\ result' = "none"
    /\ \/ /\ SaveVersions
          /\ blame' = IF taint = "new" THEN {"swallowed"} ELSE {}
          /\ UNCHANGED faults
       \/ /\ faults < MaxFaults /\ faults' = faults + 1
          /\ blame' = {"unsaved"} \cup (IF taint = "new" THEN {"swallowed"} ELSE {})
          /\ UNCHANGED <<saved, skipDownload>>
    /\ UNCHANGED <<db, work, inTx, step, row, job, taint, saveSkip, lastUpdate,
                   conn, usable, restoreVars, counters>>
-----------------------------------------------------------------------------
(* processResetToPackageDB                                                 *)

\* An empty or half-written file: the library refuses it.
NoRows == [r \in Row |-> NoVersion]

\* Past its 5 s test it opens database.db for writing, which empties the file.
RestoreBegins ==
    /\ ~recentRevert /\ recentRevert' = TRUE
    /\ restore' = "copying" /\ torn' = TRUE
    /\ db' = NoRows /\ work' = NoRows /\ taint' = "none"
    /\ blame' = {"restoreCut"}

\* The copy is complete; views and song types are reloaded next.
RestoreCopied ==
    /\ restore = "copying"
    /\ restore' = "copied" /\ torn' = FALSE
    /\ db' = Catalogue(Package) /\ work' = Catalogue(Package)
    /\ UNCHANGED <<inTx, step, row, job, result, taint, faults, versionVars, conn,
                   phase, usable, recentRevert, blame, counters>>

\* It returns to its caller: the import thread, or the user's click.
RestoreReturns ==
    /\ restore' = "none"
    /\ phase' = IF phase = "import" THEN "first" ELSE phase
    /\ UNCHANGED <<db, work, inTx, step, row, job, result, taint, saveSkip,
                   lastUpdate, skipDownload, flagParseDB, conn, usable,
                   recentRevert, torn, counters>>

RestoreSaved_DropsVersion ==
    /\ restore = "copied"
    /\ saved' = NoVersion /\ blame' = {} /\ UNCHANGED faults
    /\ RestoreReturns

RestoreSaved_KeepsVersion ==
    /\ restore = "copied"
    /\ UNCHANGED saved /\ blame' = {} /\ UNCHANGED faults
    /\ RestoreReturns

RestoreSaved_Last ==
    /\ restore = "copied"
    /\ saved' = lastUpdate /\ blame' = {} /\ UNCHANGED faults
    /\ RestoreReturns

\* The packaged version is saved last.
RestoreSaved ==
    /\ restore = "copied"
    /\ saved' = Package /\ blame' = {} /\ UNCHANGED faults
    /\ RestoreReturns

\* The copy fails (a full disk) or the reload throws: the handler around the
\* whole method swallows it, and nothing is saved.
RestoreThrows ==
    /\ restore # "none" /\ faults < MaxFaults
    /\ faults' = faults + 1 /\ UNCHANGED <<saved, blame>>
    /\ RestoreReturns

\* The import returned false: revertDB, called in the import thread.  It does
\* nothing within 5 s of the last restore, or when a view it touches refuses
\* the thread.
ImportFailed ==
    /\ phase = "import" /\ result = "false"
    /\ flagParseDB' = FALSE /\ result' = "none"
    /\ \/ RestoreBegins /\ UNCHANGED phase
       \/ /\ phase' = "first"
          /\ blame' = IF usable THEN blame \cup {"notReverted"} ELSE blame
          /\ UNCHANGED <<db, work, taint, restoreVars>>
    /\ UNCHANGED <<inTx, step, row, job, faults, saved, saveSkip, lastUpdate,
                   skipDownload, conn, usable, counters>>

RevertWindowEnds ==
    /\ recentRevert /\ recentRevert' = FALSE
    /\ UNCHANGED <<importVars, versionVars, conn, phase, usable, restore, torn,
                   blame, counters>>

\* The user restores the packaged data; for another model it is the other
\* database that is restored.
UserReset ==
    /\ phase \in {"first", "on"} /\ conn \notin OtherModels
    /\ restore = "none" /\ resets < MaxResets
    /\ resets' = resets + 1
    /\ RestoreBegins
    /\ UNCHANGED <<inTx, step, row, job, result, faults, versionVars, conn, phase,
                   usable, crashes, losses>>
-----------------------------------------------------------------------------
\* The first status reply of a session (serverStatus was null).
FirstStatus ==
    /\ phase = "first" /\ restore = "none"
    /\ phase' = "on"
    /\ flagParseDB' = FALSE
    /\ IF flagParseDB THEN SaveVersions ELSE UNCHANGED <<saved, skipDownload>>
    /\ blame' = IF "unsaved" \in blame /\ saved' = job THEN blame \ {"unsaved"}
                ELSE IF saved' # saved THEN blame \cup {"overwritten"} ELSE blame
    /\ UNCHANGED <<importVars, saveSkip, lastUpdate, conn, usable, restoreVars,
                   counters>>

\* The link is lost or the user leaves; a restore keeps the UI thread busy.
Disconnect ==
    /\ phase \in {"first", "on"} /\ restore = "none"
    /\ phase' = "off" /\ conn' = NoBox
    /\ UNCHANGED <<importVars, versionVars, usable, restoreVars, blame, counters>>

\* The service code 1.5.0.0.1: import the packaged MEGIDX ...
ParseFromAsset ==
    /\ phase = "off" /\ resets < MaxResets
    /\ resets' = resets + 1
    /\ phase' = "asset" /\ usable' = TRUE
    /\ Import(Package, TRUE)
    /\ UNCHANGED <<faults, versionVars, conn, restoreVars, blame, crashes, losses>>

\* ... and save its version, whatever the import returned.
AssetParsed ==
    /\ phase = "asset" /\ result # "none"
    /\ phase' = "off" /\ result' = "none"
    /\ saved' = Package
    /\ blame' = IF result = "false" \/ taint = "new" THEN {"asset"} ELSE {}
    /\ UNCHANGED <<db, work, inTx, step, row, job, taint, faults, saveSkip,
                   lastUpdate, skipDownload, flagParseDB, conn, usable,
                   restoreVars, counters>>

\* The process ends and starts again (onCreate).
ProcessEnds ==
    /\ CloseTransaction
    /\ step' = "idle" /\ result' = "none"
    /\ conn' = NoBox /\ phase' = "off"
    /\ saveSkip' = saved /\ lastUpdate' = saved
    /\ flagParseDB' = FALSE /\ skipDownload' = FALSE
    /\ recentRevert' = FALSE /\ restore' = "none"
    /\ blame' = IF phase = "asset" THEN blame \cup {"asset"}
                ELSE IF phase = "import" /\ usable THEN blame \cup {"crash"}
                ELSE blame
    /\ UNCHANGED <<row, job, taint, faults, saved, usable, torn, resets, losses>>

Crash ==
    /\ crashes < MaxCrashes /\ crashes' = crashes + 1
    /\ ProcessEnds

\* An import into a file whose copy was not finished: the first delete cannot be
\* prepared, which throws where nothing catches it, or the framework has removed
\* the file meanwhile and the call returns false.
TornImport ==
    /\ torn /\ step # "idle"
    /\ \/ ProcessEnds /\ UNCHANGED crashes
       \/ /\ step' = "idle" /\ result' = "false"
          /\ UNCHANGED <<db, work, inTx, row, job, taint, faults, javaVars>>

\* The native statements, while the import thread runs.
Importing == ~torn /\ ImportStep /\ UNCHANGED javaVars

\* Disturbances of the environment, and what goes on without them.
Disturbance == \/ DownloadFailed \/ UserReset \/ ParseFromAsset \/ Crash
               \/ Downloaded(FALSE) \/ RestoreThrows

Next ==
    \/ \E b \in Box : Authenticate(b)
    \/ Disconnect \/ Downloaded(TRUE) \/ DialogAnswered
    \/ Importing \/ TornImport \/ ImportSucceeded \/ ImportFailed \/ AssetParsed
    \/ RestoreCopied \/ RestoreSaved \/ RevertWindowEnds \/ FirstStatus
    \/ Disturbance

Spec == Init /\ [][Next]_vars

\* The timers reconnect, downloads end, the threads run; and, of the user, that
\* no session lasts for ever.
FairSpec ==
    /\ Spec
    /\ WF_vars(\E b \in Box : Authenticate(b)) /\ WF_vars(Disconnect)
    /\ WF_vars(Downloaded(TRUE)) /\ WF_vars(DialogAnswered)
    /\ WF_vars(Importing) /\ WF_vars(TornImport)
    /\ WF_vars(ImportSucceeded) /\ WF_vars(ImportFailed)
    /\ WF_vars(RestoreCopied) /\ WF_vars(RestoreSaved)
    /\ WF_vars(AssetParsed) /\ WF_vars(FirstStatus)
-----------------------------------------------------------------------------
TypeOK ==
    /\ ImportTypeOK
    /\ {saved, saveSkip, lastUpdate} \subseteq Version
    /\ conn \in Box \cup {NoBox} /\ phase \in Phases
    /\ {usable, flagParseDB, skipDownload, recentRevert, torn} \subseteq BOOLEAN
    /\ restore \in {"none", "copying", "copied"}
    /\ blame \subseteq {"swallowed", "unsaved", "notReverted", "overwritten",
                        "asset", "crash", "restoreCut"}
    /\ crashes \in 0..MaxCrashes /\ resets \in 0..MaxResets
    /\ losses \in 0..MaxLosses

\* Outside an import the saved version names exactly what the database holds,
\* unless one of seven things has happened since the database was last whole: a
\* failure the native code swallowed, an exception before the versions were
\* saved, a failed import that was not reverted, a late save by a status
\* reply, a service import that did not complete, a crash in an import, or a
\* restore that was cut short (an exception or a crash in the copy, or between
\* the copy and the saving of its version).
SavedDescribesDatabase ==
    phase \notin {"import", "asset"} /\ blame = {} => db = Catalogue(saved)

\* "Database up to date": a session without an update has the box's catalogue.
NoUpdateMeansUpToDate ==
    phase \in {"first", "on"} /\ restore = "none" /\ conn \notin OtherModels
        /\ saved = BoxVersion[conn] => db = Catalogue(saved)

\* A user who keeps coming back to one box, whatever other models he visits in
\* between, ends with that box's catalogue and version after any crash, lost
\* link or unreadable file, once the disturbances stop, unless a failure was
\* swallowed, a service import did not complete, a version was saved late, or a
\* restore was cut short.
Converges ==
    \A b \in Box \ OtherModels :
        [](conn \in {b, NoBox} \cup OtherModels) /\ []<>(conn = b) =>
            <>[](\/ db = Catalogue(BoxVersion[b]) /\ saved = BoxVersion[b]
                 \/ blame \cap {"swallowed", "asset", "overwritten", "restoreCut"} # {})
=============================================================================
