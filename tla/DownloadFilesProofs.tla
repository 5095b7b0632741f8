------------------------ MODULE DownloadFilesProofs ------------------------
(***************************************************************************)
(* That a list which DownloadChain's next login takes for up to date is    *)
(* whole, for any boxes, lists and versions, and any number of sessions.   *)
(*                                                                         *)
(* The invariant has two halves: JobInv says what the downloads that can   *)
(* still report, or still write, are about; DiskInv what is on disk and    *)
(* which lists a handler may still start.                                  *)
(***************************************************************************)
EXTENDS DownloadChainProofs

\* A list that the next login takes for up to date and that no slip has damaged.
Current(f) == saved[f] = boxVersion[f] /\ saved[f] # 0
Clean(f) == f \notin suspect /\ Current(f)

\* The tasks that can still report a result: started and not cancelled.
Tracked ==
    {waiting} \cup {t \in {running} : t.live} \cup {uiQueue[i].task : i \in Results(uiQueue)}

Named(t) ==
    /\ t.step = DownloadState \/ DownloadState = "idle"
    /\ t.step \in Lists =>
          t.path = PathOf(t.step) \/ (t.step = "offline" /\ "offline" \in suspect)

\* What a success leaves on disk, if the box has not changed since the download
\* was decided upon: the list, or another answer's bytes.
Fresh(t) ==
    toSave[t.step] = boxVersion[t.step] /\ toSave[t.step] # 0
        => \/ disk[t.path] = <<t.step, boxVersion[t.step]>>
           \/ t.step \in suspect /\ disk[t.path] = Part

\* The hidden list is never written in place, and no list that is Clean is written.
PathInv ==
    /\ waiting.path # "hidden" /\ running.path # "hidden"
    /\ \A i \in 1 .. Len(uiQueue) : uiQueue[i].task.path # "hidden"
    /\ \A t \in Tracked \cup {running} : t.path \in Files => ~Clean(t.path)

JobInv ==
    /\ Results(uiQueue) # {} => running = NoTask
    /\ PathInv
    /\ \A t \in Tracked : t # NoTask => Named(t)
    /\ running.live /\ pc = "body" /\ running.path # "none" => disk[running.path] = Part
    /\ \A i \in Results(uiQueue) :
          uiQueue[i].kind = "success" /\ uiQueue[i].task.path # "none" => Fresh(uiQueue[i].task)

VersionInv ==
    \A f \in Files :
        boxVersion[f] # 0 => saved[f] <= boxVersion[f] /\ toSave[f] <= boxVersion[f]

NeedInv == intSvrModel # "none" => need \subseteq FilesOf[intSvrModel] \cup {"main"}

WholeInv == \A f \in Files : Clean(f) => disk[f] = <<f, boxVersion[f]>>

\* The lists that a handler may still start.  (The hidden one is fetched elsewhere.)
AheadInv ==
    DownloadState \in Lists =>
        \A f \in (need \cap Files) \ {"hidden"} : Rank[f] > Rank[DownloadState] => ~Clean(f)

\* Nor does a status start the offline list of a SONCA box while it is Clean.
ListedInv ==
    intSvrModel = "SONCA" /\ "offline" \in FilesOf[intSvrModel] /\ Clean("offline")
        => listed = boxVersion["offline"]

DiskInv == VersionInv /\ NeedInv /\ WholeInv /\ AheadInv /\ ListedInv

FilesInv == JobInv /\ DiskInv

-----------------------------------------------------------------------------
\* Silencing keeps the paths of the messages or drops them.
LEMMA SilencedPaths ==
    ASSUME NEW q \in Seq(Messages), NEW kinds,
           \A i \in 1 .. Len(q) : q[i].task.path # "hidden"
    PROVE  \A i \in 1 .. Len(Silenced(q, kinds)) : Silenced(q, kinds)[i].task.path # "hidden"
<1> DEFINE S == Silenced(q, kinds)
<1>1. Len(S) = Len(q)
  BY SilencedTyped
<1>2. ASSUME NEW i \in 1 .. Len(q)
      PROVE  S[i].task.path # "hidden"
  <2>1. q[i] \in Messages
    OBVIOUS
  <2>2. i \in DOMAIN q
    OBVIOUS
  <2> QED  BY <2>1, <2>2 DEF Silenced, Messages, Tasks, NoTask
<1> QED  BY <1>1, <1>2

\* No download can report but, at most, one that has just been started.
LEMMA IdleJobs ==
    ASSUME (Results(uiQueue) = {})', ~running'.live,
           waiting'.path # "hidden", running'.path # "hidden",
           \A i \in 1 .. Len(uiQueue') : uiQueue'[i].task.path # "hidden",
           waiting' # NoTask => Named(waiting)',
           waiting'.path \in Files => ~Clean(waiting.path)',
           running'.path \in Files => ~Clean(running.path)'
    PROVE  JobInv'
<1>1. (\A t \in Tracked : t = waiting)'
  BY DEF Tracked
<1> QED  BY <1>1 DEF JobInv, PathInv

LEMMA StartJobs ==
    ASSUME TypeOK, JobInv, NEW s, NEW p, NEW q \in Seq(Messages), Start(s, p, q),
           p # "hidden", \A i \in 1 .. Len(q) : q[i].task.path # "hidden",
           s \in Lists => p = PathOf(s) \/ (s = "offline" /\ "offline" \in suspect'),
           \A f \in Files : f = p \/ f = running.path => ~Clean(f)'
    PROVE  JobInv'
<1>1. /\ ~running'.live /\ running'.path = running.path
      /\ waiting'.step = s /\ waiting'.path = p /\ DownloadState' = s
      /\ uiQueue' = Silenced(q, ResultKinds)
  BY DEF Start, TypeOK, Tasks, Task
<1>2. running.path # "hidden"
  BY DEF JobInv, PathInv
<1>3. Named(waiting)'
  BY <1>1 DEF Named
<1>4. (\A f \in Files : f = waiting.path \/ f = running.path => ~Clean(f))'
  BY <1>1
<1>5. (Results(uiQueue) = {})'
  BY <1>1, SilencedDead
<1>6. \A i \in 1 .. Len(uiQueue') : uiQueue'[i].task.path # "hidden"
  BY <1>1, SilencedPaths
<1> QED  BY <1>1, <1>2, <1>3, <1>4, <1>5, <1>6, IdleJobs

LEMMA DisconnectJobs ==
    ASSUME TypeOK, JobInv, NEW then, Disconnect(then), NEW q \in Seq(Messages),
           uiQueue' = Silenced(q, ResultKinds \cup StatusKinds),
           \A i \in 1 .. Len(q) : q[i].task.path # "hidden",
           UNCHANGED <<boxVersion, saved, suspect>>
    PROVE  JobInv'
<1>1. ~running'.live /\ running'.path = running.path /\ waiting' = NoTask
  BY DEF Disconnect, TypeOK, Tasks
<1>2. running.path # "hidden" /\ (running.path \in Files => ~Clean(running.path))
  BY DEF JobInv, PathInv
<1>3. (Results(uiQueue) = {})'
  BY SilencedDead
<1>4. \A i \in 1 .. Len(uiQueue') : uiQueue'[i].task.path # "hidden"
  BY SilencedPaths
<1>5. NoTask.path = "none" /\ "none" \notin Files
  BY FilesAreLists DEF NoTask
<1>6. running'.path \in Files => ~Clean(running.path)'
  BY <1>1, <1>2 DEF Clean, Current
<1>7. waiting'.path \in Files => ~Clean(waiting.path)'
  BY <1>1, <1>5
<1>8. waiting'.path # "hidden" /\ running'.path # "hidden"
  BY <1>1, <1>2, <1>5
<1> QED  BY <1>1, <1>3, <1>4, <1>6, <1>7, <1>8, IdleJobs

\* The tasks that are tracked when a message has been handled and nothing started.
LEMMA HandledTracked ==
    ASSUME LiveInv, JobInv, uiQueue # <<>>
    PROVE  /\ Handled \in Seq(Messages)
           /\ \A i \in 1 .. Len(Handled) : Handled[i].task.path # "hidden"
           /\ Head(uiQueue).task.path # "hidden"
           /\ Head(uiQueue).task.path \in Paths \cup {"none"}
           /\ \A i \in Results(Handled) :
                 i + 1 \in Results(uiQueue) /\ Handled[i] = uiQueue[i + 1]
           /\ Head(uiQueue).kind \in ResultKinds =>
                 /\ 1 \in Results(uiQueue) /\ Head(uiQueue) = uiQueue[1]
                 /\ Head(uiQueue).task \in Tracked /\ Head(uiQueue).task.live
                 /\ waiting = NoTask /\ running = NoTask
                 /\ Results(Handled) = {}
<1>1. /\ Handled \in Seq(Messages) /\ Head(uiQueue).task.path \in Paths \cup {"none"}
      /\ 1 \in 1 .. Len(uiQueue) /\ Head(uiQueue) = uiQueue[1]
      /\ \A i \in 1 .. Len(Handled) :
            Handled[i] = uiQueue[i + 1] /\ i + 1 \in 1 .. Len(uiQueue)
  BY HandledMessages, HandledTyped, Parts DEF LiveInv
<1>2. \A i \in 1 .. Len(uiQueue) : uiQueue[i].task.path # "hidden"
  BY DEF JobInv, PathInv
<1>3. /\ \A i \in 1 .. Len(Handled) : Handled[i].task.path # "hidden"
      /\ Head(uiQueue).task.path # "hidden"
  BY <1>1, <1>2
<1>4. \A i \in Results(Handled) : i + 1 \in Results(uiQueue) /\ Handled[i] = uiQueue[i + 1]
  BY <1>1 DEF Results
<1>5. ASSUME Head(uiQueue).kind \in ResultKinds
      PROVE  /\ 1 \in Results(uiQueue) /\ Head(uiQueue).task \in Tracked
             /\ Head(uiQueue).task.live
             /\ waiting = NoTask /\ running = NoTask /\ Results(Handled) = {}
  <2>1. 1 \in Results(uiQueue)
    BY <1>1, <1>5 DEF Results
  <2> QED  BY <1>1, <1>5, <2>1, LeftInQueue DEF Tracked, JobInv, LiveInv, QueueInv, QueueOk
<1> QED  BY <1>1, <1>3, <1>4, <1>5

\* A message is handled that is no result, or leaves only the running task.
LEMMA HandledJobs ==
    ASSUME LiveInv, JobInv, uiQueue # <<>>, uiQueue' = Handled, UNCHANGED execVars,
           DownloadState' \in {DownloadState, "idle"}, suspect \subseteq suspect',
           \A f \in Files : Clean(f)' => Clean(f),
           \A p \in Paths \ {"hidden"} : disk'[p] = disk[p],
           UNCHANGED <<toSave, boxVersion>>
    PROVE  JobInv'
<1>1. UNCHANGED <<waiting, running, pc>>
  BY DEF execVars
<1>2. /\ \A i \in 1 .. Len(Handled) : Handled[i].task.path # "hidden"
      /\ \A i \in Results(Handled) :
            i + 1 \in Results(uiQueue) /\ Handled[i] = uiQueue[i + 1]
  BY HandledTracked
<1>3. (\A t \in Tracked : t = waiting \/ (t = running /\ running.live)
                           \/ \E i \in Results(uiQueue) : t = uiQueue[i].task)'
  BY DEF Tracked
<1>4. Tracked' \subseteq Tracked
  BY <1>1, <1>2, <1>3 DEF Tracked
<1>5. PathInv'
  BY <1>1, <1>2, <1>4 DEF JobInv, PathInv
<1>6. (\A t \in Tracked : t # NoTask => Named(t))'
  <2>1. ASSUME NEW t \in Tracked, t # NoTask PROVE Named(t)'
    BY <2>1 DEF JobInv, Named
  <2> QED  BY <1>4, <2>1
<1>7. (Results(uiQueue) # {} => running = NoTask)'
  BY <1>1, <1>2 DEF JobInv
<1>8. (running.live /\ pc = "body" /\ running.path # "none" => disk[running.path] = Part)'
  <2>1. running.path \in Paths \cup {"none"} /\ running.path # "hidden"
    BY DEF LiveInv, TypeOK, Tasks, JobInv, PathInv
  <2> QED  BY <1>1, <2>1 DEF JobInv
<1>9. ASSUME NEW i \in Results(uiQueue'), uiQueue'[i].kind = "success",
             uiQueue'[i].task.path # "none"
      PROVE  LET t == uiQueue'[i].task IN
             toSave'[t.step] = boxVersion'[t.step] /\ toSave'[t.step] # 0
                => \/ disk'[t.path] = <<t.step, boxVersion'[t.step]>>
                   \/ t.step \in suspect' /\ disk'[t.path] = Part
  <2>1. i + 1 \in Results(uiQueue) /\ uiQueue'[i] = uiQueue[i + 1]
    BY <1>2
  <2>2. Fresh(uiQueue[i + 1].task)
    BY <1>9, <2>1 DEF JobInv
  <2>3. uiQueue[i + 1] \in Messages
    BY <2>1 DEF LiveInv, TypeOK, Results
  <2>4. uiQueue[i + 1].task.path \in Paths \ {"hidden"}
    BY <1>9, <2>1, <2>3 DEF Messages, Tasks, JobInv, PathInv, Results
  <2> QED  BY <2>1, <2>2, <2>4 DEF Fresh
<1> QED  BY <1>5, <1>6, <1>7, <1>8, <1>9 DEF JobInv, Fresh

\* The executor writes only where the running task may.
LEMMA WorkerWrites ==
    ASSUME LiveInv, JobInv, Worker
    PROVE  /\ \A p \in Paths : p # running.path => disk'[p] = disk[p]
           /\ disk' = disk \/ (running.path \in Paths /\ running.path # "hidden")
           /\ suspect \subseteq suspect'
           /\ UNCHANGED <<sessionVars, boxVersion, toSave, need, saved, listed, DownloadState>>
<1>1. UNCHANGED <<sessionVars, boxVersion, toSave, need, saved, listed, DownloadState>>
      /\ suspect \subseteq suspect'
  BY DEF Worker, StartDownload, ExchangeLost, Refused, Empty, HeaderArrives, BodyComplete,
     StrayComplete, BodyShort, BodyThrows, ReturnsInvalid, Ends, workerFrame, planVars, fileVars
<1>2. disk \in [Paths -> Contents] /\ running.path \in Paths \cup {"none"} /\ "none" \notin Paths
      /\ running.path # "hidden"
  BY FilesAreLists DEF LiveInv, TypeOK, Tasks, JobInv, PathInv
<1>3. CASE disk' = disk
  BY <1>1, <1>3
<1>4. CASE HeaderArrives \/ BodyComplete
  <2>1. /\ DOMAIN disk' = Paths
        /\ \A p \in Paths : p # running.path => disk'[p] = disk[p]
    BY <1>4 DEF HeaderArrives, BodyComplete
  <2>2. running.path \notin Paths => disk' = disk
    BY <1>2, <1>4 DEF HeaderArrives, BodyComplete
  <2> QED  BY <1>1, <1>2, <2>1, <2>2
<1> QED  BY <1>3, <1>4 DEF Worker, StartDownload, ExchangeLost, Refused, Empty,
            StrayComplete, BodyShort, BodyThrows, ReturnsInvalid, fileVars

\* A task ends: it may report, and its success has left the list on disk, or is one
\* that suspect records.
LEMMA EndsJobs ==
    ASSUME LiveInv, JobInv, Worker, NEW k \in ResultKinds, Ends(k),
           pc # "failed" \/ k # "success",
           k = "success" /\ running.live /\ running.path # "none" =>
              \/ disk'[running.path] = <<running.step, boxVersion[running.step]>>
              \/ running.step \in suspect' /\ disk'[running.path] = Part
    PROVE  JobInv'
<1>1. /\ Report(k) /\ running' = NoTask /\ waiting' = waiting
      /\ UNCHANGED <<boxVersion, toSave, saved, DownloadState>> /\ suspect \subseteq suspect'
  BY WorkerWrites DEF Ends, workerFrame
<1>2. NoTask.path = "none" /\ "none" \notin Files /\ ~NoTask.live
  BY FilesAreLists DEF NoTask
<1>3. \A f : Clean(f)' => Clean(f)
  BY <1>1 DEF Clean, Current
<1>4. CASE ~running.live
  <2>1. uiQueue' = uiQueue
    BY <1>1, <1>4 DEF Report
  <2>2. Tracked' \subseteq Tracked
    BY <1>1, <1>2, <2>1 DEF Tracked
  <2>3. PathInv'
    BY <1>1, <1>2, <1>3, <2>1, <2>2 DEF JobInv, PathInv
  <2>4. (\A t \in Tracked : t # NoTask => Named(t))'
    BY <1>1, <2>2 DEF JobInv, Named
  <2>5. ASSUME NEW i \in Results(uiQueue), uiQueue[i].kind = "success",
               uiQueue[i].task.path # "none"
        PROVE  disk'[uiQueue[i].task.path] = disk[uiQueue[i].task.path]
    <3>1. running.path = "none"
      BY <1>2 DEF JobInv
    <3>2. uiQueue[i].task.path \in Paths
      <4>1. uiQueue[i] \in Messages
        BY DEF LiveInv, TypeOK, Results
      <4> QED  BY <2>5, <4>1 DEF Messages, Tasks
    <3> QED  BY <2>5, <3>1, <3>2, WorkerWrites
  <2>6. (\A i \in Results(uiQueue) :
            uiQueue[i].kind = "success" /\ uiQueue[i].task.path # "none"
               => Fresh(uiQueue[i].task))'
    BY <1>1, <2>1, <2>5 DEF JobInv, Fresh
  <2> QED  BY <1>1, <1>2, <2>3, <2>4, <2>6 DEF JobInv
<1>5. CASE running.live
  <2> DEFINE n == Len(uiQueue) + 1
  <2>1. /\ Len(uiQueue') = n /\ Len(uiQueue) \in Nat
        /\ uiQueue'[n] = [kind |-> k, task |-> running]
        /\ \A i \in 1 .. Len(uiQueue) : uiQueue'[i] = uiQueue[i]
        /\ Results(uiQueue') = {n}
    BY <1>1, <1>5, ReportInv, Parts DEF LiveInv, ExecTyped
  <2>2. (\A t \in Tracked : t = waiting \/ (t = running /\ running.live)
                           \/ \E i \in Results(uiQueue) : t = uiQueue[i].task)'
    BY DEF Tracked
  <2>3. running \in Tracked /\ waiting \in Tracked /\ running # NoTask
    BY <1>2, <1>5 DEF Tracked
  <2>4. \A t \in Tracked' : t = waiting \/ t = running
    BY <1>1, <1>2, <2>1, <2>2
  <2>5. PathInv'
    BY <1>1, <1>2, <1>3, <2>1, <2>3, <2>4 DEF JobInv, PathInv
  <2>6. (\A t \in Tracked : t # NoTask => Named(t))'
    BY <1>1, <2>3, <2>4 DEF JobInv, Named
  <2>7. (\A i \in Results(uiQueue) :
            uiQueue[i].kind = "success" /\ uiQueue[i].task.path # "none"
               => Fresh(uiQueue[i].task))'
    BY <1>1, <1>5, <2>1 DEF Fresh
  <2> QED  BY <1>1, <1>2, <2>5, <2>6, <2>7 DEF JobInv
<1> QED  BY <1>4, <1>5

LEMMA WorkerJobs ==
    ASSUME LiveInv, JobInv, Worker
    PROVE  JobInv'
<1>1. /\ \A f : Clean(f)' => Clean(f)
      /\ UNCHANGED <<boxVersion, toSave, DownloadState>> /\ suspect \subseteq suspect'
  BY WorkerWrites DEF Clean, Current
<1>2. NoTask.path = "none" /\ "none" \notin Files /\ "none" \notin Paths /\ ~NoTask.live
  BY FilesAreLists DEF NoTask
<1>3. CASE StartDownload
  <2>1. /\ waiting # NoTask /\ running' = waiting /\ waiting' = NoTask /\ pc' = "exchange"
        /\ uiQueue' = uiQueue
    BY <1>3 DEF StartDownload
  <2>2. Results(uiQueue) = {}
    BY <2>1 DEF LiveInv, QueueInv
  <2>3. (\A t \in Tracked : t = waiting \/ t = running)'
    BY <2>1, <2>2 DEF Tracked
  <2>4. waiting \in Tracked
    BY DEF Tracked
  <2>5. PathInv'
    BY <1>1, <1>2, <2>1, <2>3, <2>4 DEF JobInv, PathInv
  <2>6. (\A t \in Tracked : t # NoTask => Named(t))'
    BY <1>1, <2>1, <2>3, <2>4 DEF JobInv, Named
  <2> QED  BY <2>1, <2>2, <2>5, <2>6 DEF JobInv
<1>4. CASE HeaderArrives
  <2>1. /\ UNCHANGED <<waiting, running, uiQueue>> /\ pc' = "body"
        /\ \A p \in Paths : p = running.path => disk'[p] = Part
    BY <1>4 DEF HeaderArrives, workerFrame
  <2>2. Tracked' = Tracked
    BY <2>1 DEF Tracked
  <2>3. PathInv'
    BY <1>1, <2>1, <2>2 DEF JobInv, PathInv
  <2>4. (\A t \in Tracked : t # NoTask => Named(t))'
    BY <1>1, <2>2 DEF JobInv, Named
  <2>5. running.path # "none" => (disk[running.path] = Part)'
    BY <2>1 DEF LiveInv, TypeOK, Tasks
  <2>6. ASSUME NEW i \in Results(uiQueue), uiQueue[i].kind = "success",
               uiQueue[i].task.path # "none"
        PROVE  disk'[uiQueue[i].task.path] = disk[uiQueue[i].task.path]
    <3>1. running.path = "none"
      BY <1>2 DEF JobInv
    <3>2. uiQueue[i].task.path \in Paths
      <4>1. uiQueue[i] \in Messages
        BY DEF LiveInv, TypeOK, Results
      <4> QED  BY <2>6, <4>1 DEF Messages, Tasks
    <3> QED  BY <2>6, <3>1, <3>2, WorkerWrites
  <2>7. (\A i \in Results(uiQueue) :
            uiQueue[i].kind = "success" /\ uiQueue[i].task.path # "none"
               => Fresh(uiQueue[i].task))'
    BY <1>1, <2>1, <2>6 DEF JobInv, Fresh
  <2>8. (Results(uiQueue) # {} => running = NoTask)'
    BY <2>1 DEF JobInv
  <2> QED  BY <2>1, <2>3, <2>4, <2>5, <2>7, <2>8 DEF JobInv
<1>5. CASE BodyThrows
  <2>1. UNCHANGED <<waiting, running, disk>> /\ pc' = "failed" /\ Report("failed")
    BY <1>5 DEF BodyThrows, workerFrame
  <2>2. /\ Results(uiQueue') = Results(uiQueue)
        /\ \A i \in Results(uiQueue) : uiQueue'[i] = uiQueue[i]
        /\ \A i \in 1 .. Len(uiQueue') : uiQueue'[i].task.path # "hidden"
    <3>1. CASE ~running.live
      BY <2>1, <3>1 DEF Report, JobInv, PathInv
    <3>2. CASE running.live
      <4>1. /\ Len(uiQueue') = Len(uiQueue) + 1 /\ Len(uiQueue) \in Nat
            /\ uiQueue'[Len(uiQueue) + 1] = [kind |-> "failed", task |-> running]
            /\ \A i \in 1 .. Len(uiQueue) : uiQueue'[i] = uiQueue[i]
            /\ Results(uiQueue') = {}
        BY <2>1, <3>2, ReportInv, Parts DEF LiveInv, ExecTyped, ResultKinds
      <4>2. Results(uiQueue) = {}
        BY <3>2 DEF LiveInv, WorkInv
      <4> QED  BY <4>1, <4>2 DEF JobInv, PathInv
    <3> QED  BY <3>1, <3>2
  <2>3. Tracked' = Tracked
    BY <2>1, <2>2 DEF Tracked
  <2>4. PathInv'
    BY <1>1, <2>1, <2>2, <2>3 DEF JobInv, PathInv
  <2>5. (\A t \in Tracked : t # NoTask => Named(t))'
    BY <1>1, <2>3 DEF JobInv, Named
  <2>6. (\A i \in Results(uiQueue) :
            uiQueue[i].kind = "success" /\ uiQueue[i].task.path # "none"
               => Fresh(uiQueue[i].task))'
    BY <1>1, <2>1, <2>2 DEF JobInv, Fresh
  <2> QED  BY <2>1, <2>2, <2>4, <2>5, <2>6 DEF JobInv
<1>6. CASE BodyComplete
  <2>1. ASSUME running.live, running.path # "none"
        PROVE  disk'[running.path] = <<running.step, boxVersion[running.step]>>
    <3>1. running.path \in Paths /\ disk[running.path] = Part
      BY <1>6, <2>1 DEF BodyComplete, JobInv, LiveInv, TypeOK, Tasks
    <3> QED  BY <1>6, <3>1 DEF BodyComplete
  <2>2. "success" \in ResultKinds /\ Ends("success") /\ pc # "failed"
    BY <1>6 DEF BodyComplete, ResultKinds
  <2> QED  BY <2>1, <2>2, EndsJobs
<1>7. CASE ExchangeLost \/ Refused \/ Empty \/ BodyShort \/ ReturnsInvalid
  <2>1. \E k \in ResultKinds \ {"success"} : Ends(k)
    BY <1>7 DEF ExchangeLost, Refused, Empty, BodyShort, ReturnsInvalid, ResultKinds
  <2> QED  BY <2>1, EndsJobs
<1>8. CASE StrayComplete
  <2>1. ASSUME running.live, running.path # "none"
        PROVE  running.step \in suspect' /\ disk'[running.path] = Part
    <3>1. running.step \in Files /\ disk[running.path] = Part
      BY <1>8, <2>1 DEF StrayComplete, JobInv, LiveInv, TypeOK, Tasks
    <3> QED  BY <1>8, <2>1, <3>1 DEF StrayComplete
  <2>2. "success" \in ResultKinds /\ Ends("success") /\ pc # "failed"
    BY <1>8 DEF StrayComplete, ResultKinds
  <2> QED  BY <2>1, <2>2, EndsJobs
<1> QED  BY <1>3, <1>4, <1>5, <1>6, <1>7, <1>8 DEF Worker

LEMMA StatusAskedJobs ==
    ASSUME LiveInv, JobInv, StatusAsked
    PROVE  JobInv'
<1>1. PICK k \in StatusKinds : uiQueue' = Append(uiQueue, [kind |-> k, task |-> NoTask])
  BY DEF StatusAsked
<1>2. UNCHANGED <<waiting, running, pc, disk, suspect, boxVersion, saved, toSave, DownloadState>>
  BY DEF StatusAsked, workerFrame, planVars
<1>3. [kind |-> k, task |-> NoTask] \in Messages /\ uiQueue \in Seq(Messages)
      /\ k \notin ResultKinds /\ NoTask.path = "none"
  BY DEF Messages, Tasks, NoTask, LiveInv, TypeOK, StatusKinds, ResultKinds
<1>4. /\ Len(uiQueue') = Len(uiQueue) + 1 /\ Len(uiQueue) \in Nat
      /\ uiQueue'[Len(uiQueue) + 1] = [kind |-> k, task |-> NoTask]
      /\ \A i \in 1 .. Len(uiQueue) : uiQueue'[i] = uiQueue[i]
  BY <1>1, <1>3
<1>5. /\ Results(uiQueue') = Results(uiQueue)
      /\ \A i \in Results(uiQueue) : uiQueue'[i] = uiQueue[i]
  BY <1>3, <1>4 DEF Results
<1>6. Tracked' = Tracked
  BY <1>2, <1>5 DEF Tracked
<1>7. \A i \in 1 .. Len(uiQueue') : uiQueue'[i].task.path # "hidden"
  BY <1>3, <1>4 DEF JobInv, PathInv
<1>8. PathInv'
  BY <1>2, <1>6, <1>7 DEF JobInv, PathInv, Clean, Current
<1>9. (\A t \in Tracked : t # NoTask => Named(t))'
  BY <1>2, <1>6 DEF JobInv, Named
<1>10. (\A i \in Results(uiQueue) :
           uiQueue[i].kind = "success" /\ uiQueue[i].task.path # "none"
              => Fresh(uiQueue[i].task))'
  BY <1>2, <1>5 DEF JobInv, Fresh
<1> QED  BY <1>2, <1>5, <1>8, <1>9, <1>10 DEF JobInv

\* No change of a box makes an older list the box's.
LEMMA BoxUpdatesFiles ==
    ASSUME TypeOK, JobInv, DiskInv, NEW f \in Changing, BoxUpdates(f)
    PROVE  JobInv' /\ DiskInv'
<1>1. /\ f \in Files /\ boxVersion[f] \in Nat /\ MaxVersion \in Nat
      /\ boxVersion'[f] = 0 \/ (boxVersion[f] # 0 /\ boxVersion'[f] = boxVersion[f] + 1)
      /\ \A g \in Files : g # f => boxVersion'[g] = boxVersion[g]
      /\ \A g \in Files : saved[g] \in Nat /\ toSave[g] \in Nat /\ boxVersion[g] \in Nat
  BY DownloadChainAssumption DEF TypeOK, BoxUpdates
<1>2. UNCHANGED <<saved, toSave, suspect, disk, waiting, running, pc, uiQueue, DownloadState,
                  need, intSvrModel, listed>>
  BY DEF BoxUpdates, sessionVars, planVars, fileVars, taskVars, execVars
<1>3. \A g \in Files : saved[g] = boxVersion'[g] /\ saved[g] # 0 => g # f
  BY <1>1 DEF DiskInv, VersionInv
<1>4. \A g \in Files : Clean(g)' => Clean(g) /\ boxVersion'[g] = boxVersion[g]
  BY <1>1, <1>2, <1>3 DEF Clean, Current
<1>5. Tracked' = Tracked
  BY <1>2 DEF Tracked
<1>6. PathInv'
  BY <1>2, <1>4, <1>5 DEF JobInv, PathInv
<1>7. (\A t \in Tracked : t # NoTask => Named(t))'
  BY <1>2, <1>5 DEF JobInv, Named
<1>8. ASSUME NEW i \in Results(uiQueue), uiQueue[i].kind = "success",
             uiQueue[i].task.path # "none"
      PROVE  Fresh(uiQueue[i].task)'
  <2>1. uiQueue[i].task.step \in Files
    <3>1. uiQueue[i] \in Messages
      BY DEF TypeOK, Results
    <3> QED  BY <1>8, <3>1 DEF Messages, Tasks
  <2>2. toSave[f] = boxVersion'[f] => toSave[f] = 0
    BY <1>1 DEF DiskInv, VersionInv
  <2>3. Fresh(uiQueue[i].task)
    BY <1>8 DEF JobInv
  <2> QED  BY <1>1, <1>2, <2>1, <2>2, <2>3 DEF Fresh
<1>9. JobInv'
  BY <1>2, <1>6, <1>7, <1>8 DEF JobInv, Fresh
<1>10. VersionInv'
  BY <1>1, <1>2 DEF DiskInv, VersionInv
<1>11. WholeInv' /\ AheadInv'
  BY <1>2, <1>4 DEF DiskInv, WholeInv, AheadInv
<1>12. ListedInv'
  <2>1. intSvrModel = "SONCA" /\ "offline" \in FilesOf[intSvrModel] => "offline" \in Files
    BY FilesAreLists DEF TypeOK, ListedInv, Files, Models
  <2> QED  BY <1>2, <1>4, <2>1 DEF DiskInv, ListedInv
<1> QED  BY <1>2, <1>9, <1>10, <1>11, <1>12 DEF DiskInv, NeedInv

-----------------------------------------------------------------------------
\* What a step keeps of DiskInv: a list that is Clean after it either was so before and
\* is not written, or is the one (e) that the step has found to be whole.
LEMMA DiskStep ==
    ASSUME TypeOK, DiskInv, NEW e,
           UNCHANGED <<boxVersion, need>>, intSvrModel' \in {intSvrModel, "none"},
           VersionInv',
           \A f \in Files : Clean(f)' =>
              \/ f # e /\ Clean(f) /\ disk'[f] = disk[f]
              \/ f = e /\ disk'[f] = <<f, boxVersion[f]>>,
           \/ DownloadState' = DownloadState
           \/ DownloadState' \notin Lists
           \/ \A f \in (need \cap Files) \ {"hidden"} :
                 Rank[f] > Rank[DownloadState'] => ~Clean(f) /\ f # e,
           DownloadState \in Lists =>
              \A f \in need \cap Files : Rank[f] > Rank[DownloadState] => f # e,
           \/ listed' = listed /\ e # "offline"
           \/ listed' = saved'["offline"]
           \/ ~Clean("offline")'
           \/ intSvrModel # "SONCA"
    PROVE  DiskInv'
<1>1. WholeInv'
  BY DEF DiskInv, WholeInv
<1>2. AheadInv'
  BY DEF DiskInv, AheadInv
<1>3. NeedInv'
  BY DEF DiskInv, NeedInv
<1>4. ListedInv'
  <2>1. SUFFICES ASSUME intSvrModel' = "SONCA", "offline" \in FilesOf[intSvrModel'],
                        Clean("offline")'
                 PROVE  listed' = boxVersion["offline"]
    BY DEF ListedInv
  <2>2. "offline" \in Files /\ intSvrModel' = intSvrModel
    BY <2>1, FilesAreLists DEF TypeOK, Files, Models
  <2>3. saved'["offline"] = boxVersion["offline"]
    BY <2>1 DEF Clean, Current
  <2>4. CASE listed' = listed /\ e # "offline"
    <3>1. Clean("offline")
      BY <2>1, <2>2, <2>4
    <3> QED  BY <2>1, <2>2, <2>4, <3>1 DEF DiskInv, ListedInv
  <2> QED  BY <2>1, <2>3, <2>4
<1> QED  BY <1>1, <1>2, <1>3, <1>4 DEF DiskInv

\* A step that touches no list that is Clean.
LEMMA DiskFrame ==
    ASSUME TypeOK, DiskInv,
           UNCHANGED <<boxVersion, need, toSave, saved, listed>>, suspect \subseteq suspect',
           intSvrModel' \in {intSvrModel, "none"},
           \A f \in Files : Clean(f) => disk'[f] = disk[f],
           DownloadState' = DownloadState \/ DownloadState' \notin Lists
    PROVE  DiskInv'
<1>1. VersionInv'
  BY DEF DiskInv, VersionInv
<1>2. \A f \in Files : Clean(f)' => f # "none" /\ Clean(f) /\ disk'[f] = disk[f]
  BY FilesAreLists DEF Clean, Current
<1>3. \A f \in Files : f # "none"
  BY FilesAreLists
<1> QED  BY <1>1, <1>2, <1>3, DiskStep

LEMMA WorkerDisk ==
    ASSUME LiveInv, FilesInv, Worker
    PROVE  DiskInv'
<1>1. ASSUME NEW f \in Files, Clean(f) PROVE disk'[f] = disk[f]
  <2>1. f # running.path /\ f \in Paths
    BY <1>1 DEF FilesInv, JobInv, PathInv, Paths
  <2> QED  BY <2>1, WorkerWrites DEF FilesInv
<1> QED  BY <1>1, WorkerWrites, DiskFrame DEF FilesInv, LiveInv, sessionVars

\* The lists of a SONCA box come before the hidden one, which is not fetched ahead.
LEMMA SoncaNeeds ==
    ASSUME TypeOK, NeedInv, intSvrModel = "SONCA", NEW f \in (need \cap Files) \ {"hidden"}
    PROVE  Rank[f] <= Rank["offline"] /\ Rank[f] <= Rank["hidden"]
<1>1. f # "main" /\ "SONCA" \in Models
  BY FilesAreLists DEF TypeOK, Models
<1>2. f \in FilesOf["SONCA"]
  BY <1>1 DEF NeedInv
<1>3. f \in {"yt", "offline"}
  BY <1>1, <1>2, DownloadChainAssumption DEF Models
<1> QED  BY <1>3 DEF Rank

-----------------------------------------------------------------------------
LEMMA DisconnectionFiles ==
    ASSUME LiveInv, FilesInv,
           \/ UserConnect \/ UserDisconnect \/ ConnectFails \/ Disconnected \/ PingAnswers
           \/ AnswerBusy /\ \E then \in {"connecting", "off"} :
                 /\ DefaultView(then)
                 /\ uiQueue' = Silenced(uiQueue, ResultKinds \cup StatusKinds)
    PROVE  FilesInv'
<1>1. PICK then, q :
         /\ Disconnect(then) /\ uiQueue' = Silenced(q, ResultKinds \cup StatusKinds)
         /\ q = uiQueue \/ (q = Handled /\ uiQueue # <<>>)
  <2>1. CASE UserConnect \/ PingAnswers
    BY <2>1 DEF UserConnect, PingAnswers
  <2>2. CASE UserDisconnect \/ ConnectFails
    BY <2>2 DEF UserDisconnect, ConnectFails, DefaultView
  <2>3. CASE Disconnected
    BY <2>3 DEF Disconnected, Delivers, DefaultView
  <2>4. CASE \E then \in {"connecting", "off"} : DefaultView(then)
                /\ uiQueue' = Silenced(uiQueue, ResultKinds \cup StatusKinds)
    BY <2>4 DEF DefaultView
  <2> QED  BY <2>1, <2>2, <2>3, <2>4
<1>2. UNCHANGED <<boxVersion, planVars, fileVars>> /\ intSvrModel' \in {intSvrModel, "none"}
  <2>1. CASE UserConnect \/ PingAnswers
    BY <2>1 DEF UserConnect, PingAnswers, pingFrame
  <2>2. CASE UserDisconnect \/ ConnectFails \/ Disconnected
    BY <2>2 DEF UserDisconnect, ConnectFails, Disconnected, DefaultView
  <2>3. CASE AnswerBusy /\ \E next : DefaultView(next)
    BY <2>3 DEF AnswerBusy, DefaultView
  <2> QED  BY <2>1, <2>2, <2>3
<1>3. /\ UNCHANGED <<boxVersion, need, toSave, saved, listed, suspect, disk, DownloadState>>
      /\ TypeOK /\ JobInv /\ DiskInv
  BY <1>1, <1>2 DEF Disconnect, planVars, fileVars, LiveInv, FilesInv
<1>4. q \in Seq(Messages) /\ \A i \in 1 .. Len(q) : q[i].task.path # "hidden"
  BY <1>1, HandledTracked DEF LiveInv, TypeOK, JobInv, PathInv, FilesInv
<1>5. JobInv'
  BY <1>1, <1>3, <1>4, DisconnectJobs
<1>6. DiskInv'
  BY <1>2, <1>3, DiskFrame
<1> QED  BY <1>5, <1>6 DEF FilesInv

\* A download that is of no list.
LEMMA StartOther ==
    ASSUME TypeOK, FilesInv, NEW s \in Steps \ Lists, NEW q \in Seq(Messages),
           Start(s, "none", q), \A i \in 1 .. Len(q) : q[i].task.path # "hidden",
           UNCHANGED <<boxVersion, planVars, fileVars, intSvrModel>>
    PROVE  FilesInv'
<1>1. /\ UNCHANGED <<boxVersion, need, toSave, saved, listed, suspect, disk>>
      /\ JobInv /\ DiskInv /\ DownloadState' \notin Lists
  BY DEF Start, planVars, fileVars, FilesInv
<1>2. \A f \in Files : f = "none" \/ f = running.path => ~Clean(f)'
  BY <1>1, FilesAreLists DEF JobInv, PathInv, Clean, Current
<1>3. JobInv'
  BY <1>1, <1>2, StartJobs
<1>4. DiskInv'
  BY <1>1, DiskFrame
<1> QED  BY <1>3, <1>4 DEF FilesInv

\* A message after which nothing is started or written.
LEMMA HandledOther ==
    ASSUME LiveInv, FilesInv, uiQueue # <<>>, uiQueue' = Handled, UNCHANGED execVars,
           DownloadState' \in {DownloadState, "idle"},
           UNCHANGED <<boxVersion, planVars, fileVars, intSvrModel>>
    PROVE  FilesInv'
<1>1. /\ UNCHANGED <<boxVersion, need, toSave, saved, listed, suspect, disk>>
      /\ TypeOK /\ JobInv /\ DiskInv /\ "idle" \notin Lists
  BY DEF planVars, fileVars, LiveInv, FilesInv, Lists, Rank
<1>2. \A f \in Files : Clean(f)' => Clean(f)
  BY <1>1 DEF Clean, Current
<1>3. JobInv'
  BY <1>1, <1>2, HandledJobs
<1>4. DiskInv'
  BY <1>1, DiskFrame
<1> QED  BY <1>3, <1>4 DEF FilesInv

LEMMA OtherDownloadedFiles ==
    ASSUME LiveInv, FilesInv, OtherDownloaded
    PROVE  FilesInv'
<1>1. /\ uiQueue # <<>> /\ Head(uiQueue).kind \in ResultKinds
      /\ UNCHANGED <<boxVersion, planVars, fileVars, intSvrModel>>
  BY DEF OtherDownloaded, Delivers, ResultKinds, sessionVars
<1>2. /\ Handled \in Seq(Messages) /\ TypeOK
      /\ \A i \in 1 .. Len(Handled) : Handled[i].task.path # "hidden"
  BY <1>1, HandledTracked DEF LiveInv, FilesInv
<1>3. CASE Start("lyrics", "none", Handled)
  <2>1. "lyrics" \in Steps \ Lists
    BY DEF Steps, Lists, Rank
  <2> QED  BY <1>1, <1>2, <1>3, <2>1, StartOther
<1>4. CASE uiQueue' = Silenced(Handled, StatusKinds) /\ UNCHANGED taskVars
  <2>1. /\ waiting' = NoTask /\ running' = NoTask /\ Results(Handled) = {}
        /\ DownloadState' = DownloadState
    BY <1>1, <1>4, HandledTracked DEF FilesInv, taskVars, execVars
  <2>2. /\ (Results(uiQueue) = {})'
        /\ \A i \in 1 .. Len(uiQueue') : uiQueue'[i].task.path # "hidden"
    BY <1>2, <1>4, <2>1, SilencedDead, SilencedPaths
  <2>3. NoTask.path = "none" /\ "none" \notin Files /\ ~NoTask.live
    BY FilesAreLists DEF NoTask
  <2>4. JobInv'
    BY <2>1, <2>2, <2>3, IdleJobs
  <2>5. DiskInv'
    BY <1>1, <1>2, <2>1, DiskFrame DEF FilesInv, planVars, fileVars
  <2> QED  BY <2>4, <2>5 DEF FilesInv
<1>5. CASE uiQueue' = Handled /\ UNCHANGED execVars /\ DownloadState' \in {DownloadState, "idle"}
  BY <1>1, <1>5, HandledOther
<1> QED  BY <1>3, <1>4, <1>5 DEF OtherDownloaded, Quiet, taskVars

\* A status starts a list only when it is not Clean, and the hidden one in its .tmp file.
LEMMA StatusArrivesFiles ==
    ASSUME LiveInv, FilesInv, StatusArrives
    PROVE  FilesInv'
<1>1. /\ uiQueue # <<>> /\ TypeOK /\ JobInv /\ DiskInv
      /\ UNCHANGED <<boxVersion, need, suspect, listed, intSvrModel>>
  BY DEF StatusArrives, Delivers, LiveInv, FilesInv, sessionVars
<1>2. PICK removed \in BOOLEAN, fetched \in SUBSET {"hidden", "offline"} :
         /\ saved' = [f \in Files |-> IF removed /\ f = "hidden" THEN 0 ELSE saved[f]]
         /\ toSave' = [f \in Files |-> IF f \in fetched THEN boxVersion[f] ELSE toSave[f]]
         /\ disk' = Without(disk, (IF removed THEN {"hidden"} ELSE {}) \cup
                                  (fetched \cap {"offline"}))
         /\ fetched # {} => intSvrModel = "SONCA"
         /\ "offline" \in fetched =>
               "offline" \in FilesOf[intSvrModel] /\ listed # boxVersion["offline"]
         /\ \/ \E s \in fetched : Start(s, PathOf(s), Handled)
            \/ fetched = {} /\ uiQueue' = Handled /\ UNCHANGED <<DownloadState, execVars>>
            \/ intSvrModel = "SMARTK" /\ Start("add", "none", Handled)
  <2> DEFINE later == serverStatus /\ intSvrModel = "SONCA"
             hidden == /\ later /\ ~flagDownloadingHidden /\ "hidden" \in Files
                       /\ saved["hidden"] # boxVersion["hidden"]
             removed == hidden /\ boxVersion["hidden"] = 0
             offline == /\ later /\ ~flagDownloadingDD /\ "offline" \in FilesOf[intSvrModel]
                        /\ listed # boxVersion["offline"]
             fetched == (IF hidden /\ ~removed THEN {"hidden"} ELSE {}) \cup
                        (IF offline THEN {"offline"} ELSE {})
  <2>1. /\ saved' = [f \in Files |-> IF removed /\ f = "hidden" THEN 0 ELSE saved[f]]
        /\ toSave' = [f \in Files |-> IF f \in fetched THEN boxVersion[f] ELSE toSave[f]]
        /\ disk' = Without(disk, (IF removed THEN {"hidden"} ELSE {}) \cup
                                 (fetched \cap {"offline"}))
        /\ \/ \E s \in fetched : Start(s, PathOf(s), Handled)
           \/ fetched = {} /\ uiQueue' = Handled /\ UNCHANGED <<DownloadState, execVars>>
           \/ intSvrModel = "SMARTK" /\ Start("add", "none", Handled)
    BY DEF StatusArrives
  <2>2. /\ removed \in BOOLEAN /\ fetched \in SUBSET {"hidden", "offline"}
        /\ fetched # {} => intSvrModel = "SONCA"
        /\ "offline" \in fetched =>
               "offline" \in FilesOf[intSvrModel] /\ listed # boxVersion["offline"]
    OBVIOUS
  <2> HIDE DEF removed, fetched
  <2> QED  BY <2>1, <2>2
<1>3. "offline" \in fetched => ~Clean("offline")
  BY <1>1, <1>2 DEF DiskInv, ListedInv
<1>4. ASSUME NEW f \in Files, Clean(f)'
      PROVE  Clean(f) /\ f \notin fetched \cap {"offline"} /\ disk'[f] = disk[f]
  <2>1. ~(removed /\ f = "hidden")
    BY <1>2, <1>4 DEF Clean, Current
  <2>2. Clean(f)
    BY <1>1, <1>2, <1>4, <2>1 DEF Clean, Current
  <2> QED  BY <1>2, <1>3, <2>1, <2>2 DEF Without, Paths
<1>5. VersionInv'
  BY <1>1, <1>2 DEF DiskInv, VersionInv, TypeOK
<1>6. \A f \in Files : f # "none"
  BY FilesAreLists
<1>7. Handled \in Seq(Messages) /\ \A i \in 1 .. Len(Handled) : Handled[i].task.path # "hidden"
  BY <1>1, HandledTracked
<1>8. \A f \in Files : f = running.path => ~Clean(f)'
  BY <1>1, <1>4 DEF JobInv, PathInv
<1>9. ASSUME NEW s \in fetched, Start(s, PathOf(s), Handled)
      PROVE  FilesInv'
  <2>1. /\ s \in {"hidden", "offline"} /\ PathOf(s) = IF s = "hidden" THEN "tmp" ELSE "offline"
        /\ "tmp" \notin Files /\ Rank[s] \in Nat
    BY FilesAreLists DEF PathOf, Lists, Rank
  <2>2. \A f \in Files : f = PathOf(s) => ~Clean(f)'
    BY <1>4, <2>1
  <2>3. JobInv'
    BY <1>1, <1>7, <1>8, <1>9, <2>1, <2>2, StartJobs
  <2>4. ASSUME NEW f \in (need \cap Files) \ {"hidden"} PROVE ~(Rank[f] > Rank[s])
    <3>1. Rank[f] <= Rank[s] /\ Rank[f] \in Nat
      BY <1>1, <1>2, <2>1, SoncaNeeds, FilesAreLists DEF DiskInv, Lists, Rank
    <3> QED  BY <2>1, <3>1
  <2>5. DownloadState' = s
    BY <1>9 DEF Start
  <2>6. DiskInv'
    BY <1>1, <1>4, <1>5, <1>6, <2>4, <2>5, DiskStep
  <2> QED  BY <2>3, <2>6 DEF FilesInv
<1>10. CASE fetched = {} /\ uiQueue' = Handled /\ UNCHANGED <<DownloadState, execVars>>
  <2>1. toSave' = toSave /\ \A p \in Paths \ {"hidden"} : disk'[p] = disk[p]
    BY <1>1, <1>2, <1>10 DEF TypeOK, Without
  <2>2. JobInv'
    BY <1>1, <1>4, <1>10, <2>1, HandledJobs
  <2>3. DiskInv'
    BY <1>1, <1>4, <1>5, <1>6, <1>10, DiskStep
  <2> QED  BY <2>2, <2>3 DEF FilesInv
<1>11. CASE intSvrModel = "SMARTK" /\ Start("add", "none", Handled)
  <2>1. "add" \notin Lists /\ DownloadState' = "add"
    BY <1>11 DEF Lists, Rank, Start
  <2>2. JobInv'
    BY <1>1, <1>6, <1>7, <1>8, <1>11, <2>1, StartJobs
  <2>3. DiskInv'
    BY <1>1, <1>4, <1>5, <1>6, <2>1, DiskStep
  <2> QED  BY <2>2, <2>3 DEF FilesInv
<1> QED  BY <1>2, <1>9, <1>10, <1>11

\* A path that is a list's own is that list's.
LEMMA OwnPath ==
    ASSUME NEW s
    PROVE  /\ PathOf(s) # "hidden"
           /\ PathOf(s) \in Files => s \in Files \ {"hidden"} /\ PathOf(s) = s
BY FilesAreLists DEF PathOf, Lists, Rank

\* A login starts no list that is Clean, and deletes none.
LEMMA LoginFiles ==
    ASSUME ChainInv, FilesInv, NEW m \in Models, NEW plan \in SUBSET (Lists \cup {"main"}),
           Login(m, plan)
    PROVE  FilesInv'
<1> USE DEF ChainInv, LiveInv
<1> DEFINE s == NextStep(plan, 0)
           d == Without(disk, Gone(m))
<1>1. /\ TypeOK /\ JobInv /\ DiskInv /\ running = NoTask /\ session = "connecting"
      /\ plan \ {"main"} = Differs(m) /\ need' = plan /\ intSvrModel' = m
      /\ toSave' = [f \in Files |-> IF f \in Differs(m) THEN boxVersion[f] ELSE 0]
      /\ listed' = IF "offline" \in FilesOf[m] THEN AppVersion(m, "offline") ELSE 0
      /\ saved' = [f \in Files |-> IF f \in Gone(m) THEN 0 ELSE saved[f]]
      /\ UNCHANGED <<boxVersion, suspect>>
      /\ \/ s = "none" /\ disk' = d /\ UNCHANGED <<DownloadState, execVars, uiQueue>>
         \/ /\ s # "none" /\ Start(s, PathOf(s), uiQueue)
            /\ disk' = Without(d, {s} \cap (Replaced \cup {"samba"}))
  BY DEF Login, FilesInv
<1>2. ASSUME NEW f \in Files, Clean(f)'
      PROVE  /\ Clean(f) /\ f \notin Differs(m) /\ d[f] = disk[f]
             /\ f \in FilesOf[m] => AppVersion(m, f) = boxVersion[f]
  <2>1. f \notin Gone(m) /\ Clean(f) /\ saved[f] = boxVersion[f]
    BY <1>1, <1>2 DEF Clean, Current
  <2>2. disk[f] # NoFile
    BY <1>1, <2>1, FilesAreLists DEF DiskInv, WholeInv, NoFile
  <2> QED  BY <2>1, <2>2 DEF AppVersion, Differs, Without, Paths
<1>3. Differs(m) \subseteq FilesOf[m] /\ Differs(m) \subseteq Files
  BY FilesAreLists DEF Differs
<1>4. s \in Files \cup {"toc", "none"} /\ (s \in Files => s \in Differs(m))
  <2>1. plan \subseteq Files \cup {"main"}
    BY <1>1, <1>3
  <2> QED  BY <1>1, <2>1, NextStepTyped, FilesAreLists
<1> HIDE DEF s, d
<1>5. ASSUME NEW f \in Files, Clean(f)' PROVE disk'[f] = <<f, boxVersion[f]>>
  <2>1. disk'[f] = d[f]
    BY <1>1, <1>2, <1>4, <1>5 DEF Without, Paths
  <2> QED  BY <1>1, <1>2, <1>5, <2>1 DEF DiskInv, WholeInv
<1>6. DiskInv'
  <2>1. VersionInv'
    BY <1>1 DEF DiskInv, VersionInv, TypeOK
  <2>2. NeedInv'
    BY <1>1, <1>3 DEF NeedInv
  <2>3. WholeInv'
    BY <1>1, <1>5 DEF WholeInv
  <2>4. AheadInv'
    BY <1>1, <1>2, FilesAreLists DEF AheadInv
  <2>5. ListedInv'
    <3>1. "offline" \in FilesOf[m] => "offline" \in Files
      BY FilesAreLists
    <3> QED  BY <1>1, <1>2, <3>1 DEF ListedInv
  <2> QED  BY <2>1, <2>2, <2>3, <2>4, <2>5 DEF DiskInv
<1>7. uiQueue \in Seq(Messages) /\ \A i \in 1 .. Len(uiQueue) : uiQueue[i].task.path # "hidden"
  BY <1>1 DEF TypeOK, JobInv, PathInv
<1>8. NoTask.path = "none" /\ ~NoTask.live /\ "none" \notin Files
  BY FilesAreLists DEF NoTask
<1>9. CASE s # "none" /\ Start(s, PathOf(s), uiQueue)
  <2>1. \A f \in Files : f = PathOf(s) \/ f = running.path => ~Clean(f)'
    BY <1>1, <1>2, <1>4, <1>8, OwnPath
  <2>2. JobInv'
    BY <1>1, <1>7, <1>9, <2>1, OwnPath, StartJobs
  <2> QED  BY <1>6, <2>2 DEF FilesInv
<1>10. CASE UNCHANGED <<DownloadState, execVars, uiQueue>>
  <2>1. UNCHANGED <<waiting, running, pc>> /\ Tracked' = Tracked
    BY <1>10 DEF execVars, Tracked
  <2>2. PathInv'
    BY <1>1, <1>2, <1>10, <2>1 DEF JobInv, PathInv
  <2>3. (\A t \in Tracked : t # NoTask => Named(t))'
    BY <1>1, <1>10, <2>1 DEF JobInv, Named
  <2>4. \A i \in Results(uiQueue) : uiQueue[i].kind # "success"
    BY <1>1 DEF PingInv, SessionInv, Results
  <2>5. JobInv'
    BY <1>1, <1>8, <1>10, <2>1, <2>2, <2>3, <2>4 DEF JobInv
  <2> QED  BY <1>6, <2>5 DEF FilesInv
<1> QED  BY <1>1, <1>9, <1>10

-----------------------------------------------------------------------------
\* The result of the only download that could report has been handled.
LEMMA SpentJobs ==
    ASSUME LiveInv, JobInv, uiQueue # <<>>, Head(uiQueue).kind \in ResultKinds,
           uiQueue' = Handled, UNCHANGED execVars
    PROVE  JobInv'
<1>1. /\ waiting' = NoTask /\ running' = NoTask /\ (Results(uiQueue) = {})'
      /\ \A i \in 1 .. Len(uiQueue') : uiQueue'[i].task.path # "hidden"
  BY HandledTracked DEF execVars
<1>2. NoTask.path = "none" /\ "none" \notin Files /\ ~NoTask.live
  BY FilesAreLists DEF NoTask
<1> QED  BY <1>1, <1>2, IdleJobs

LEMMA NextLater ==
    ASSUME TypeOK, DownloadState \in Lists, NEW s, s = NextStep(need, Rank[DownloadState]),
           s # "none"
    PROVE  /\ s \in Files \cup {"toc"} /\ "toc" \notin Lists
           /\ s \in Files => s \in need /\ Rank[s] > Rank[DownloadState]
<1>1. "toc" \notin Lists
  BY DEF Lists, Rank
<1>2. s \in Files \cup {"toc"} /\ Rank[DownloadState] \in Nat
  BY ListState, NextStepTyped DEF TypeOK
<1>3. CASE Later(need, Rank[DownloadState]) # {}
  BY <1>1, <1>2, <1>3, FirstLater DEF NextStep, Later
<1>4. CASE Later(need, Rank[DownloadState]) = {}
  BY <1>1, <1>2, <1>4, FilesAreLists DEF NextStep
<1> QED  BY <1>1, <1>2, <1>3, <1>4

\* What a handler leaves to Continue: the lists that would be Clean with the disk d and
\* the suspects spoilt.  e is the list that has just been saved, or "none".
Left(d, spoilt, e) ==
    /\ e \in {DownloadState, "none"}
    /\ \A f \in Files :
          f \notin spoilt /\ saved'[f] = boxVersion[f] /\ saved'[f] # 0 =>
             \/ f # e /\ Clean(f) /\ d[f] = disk[f]
             \/ f = e /\ d[f] = <<f, boxVersion[f]>>
    /\ \/ listed' = listed /\ e # "offline"
       \/ listed' = saved'["offline"]
       \/ intSvrModel # "SONCA"
    /\ UNCHANGED <<boxVersion, toSave, need, intSvrModel>>
    /\ VersionInv'

LEMMA QuietDisk ==
    ASSUME TypeOK, FilesInv, DownloadState \in Lists, DownloadState' = DownloadState,
           NEW e, Left(disk', suspect', e)
    PROVE  DiskInv'
<1>1. \A f \in Files : Clean(f)' =>
         \/ f # e /\ Clean(f) /\ disk'[f] = disk[f]
         \/ f = e /\ disk'[f] = <<f, boxVersion[f]>>
  BY DEF Left, Clean, Current
<1>2. Rank[DownloadState] \in Nat
  BY DEF Lists, Rank
<1>3. ASSUME NEW f \in Files, Rank[f] > Rank[DownloadState] PROVE f # e
  BY <1>2, <1>3, FilesAreLists DEF Left
<1> QED  BY <1>1, <1>3, DiskStep DEF Left, FilesInv

\* Continue starts no list that is Clean, drops none, and marks what it has to mark.
LEMMA ContinueFiles ==
    ASSUME LiveInv, FilesInv, uiQueue # <<>>, DownloadState \in Lists,
           NEW s, s = NextStep(need, Rank[DownloadState]), s # "none",
           NEW d, NEW spoilt, NEW failed, NEW e, Left(d, spoilt, e),
           Continue(s, d, spoilt, Head(uiQueue).task.path, failed),
           Head(uiQueue).kind \in ResultKinds \/ (e = "none" /\ d = disk /\ spoilt = suspect)
    PROVE  FilesInv'
<1> DEFINE savePath == Head(uiQueue).task.path
<1>1. TypeOK /\ JobInv /\ DiskInv
  BY DEF LiveInv, FilesInv
<1>2. CASE Quiet /\ disk' = d /\ suspect' = spoilt
  <2>1. uiQueue' = Handled /\ UNCHANGED execVars /\ DownloadState' = DownloadState
    BY <1>2 DEF Quiet, taskVars
  <2>2. DiskInv'
    BY <1>1, <1>2, <2>1, QuietDisk
  <2>3. CASE Head(uiQueue).kind \in ResultKinds
    BY <1>1, <2>1, <2>2, <2>3, SpentJobs DEF FilesInv
  <2>4. CASE e = "none" /\ d = disk /\ spoilt = suspect
    <3>1. \A f \in Files : Clean(f)' => Clean(f)
      BY <1>2, <2>4, FilesAreLists DEF Left, Clean, Current
    <3>2. JobInv'
      BY <1>1, <1>2, <2>1, <2>4, <3>1, HandledJobs DEF Left
    <3> QED  BY <2>2, <3>2 DEF FilesInv
  <2> QED  BY <2>3, <2>4
<1>3. CASE ~(Quiet /\ disk' = d /\ suspect' = spoilt)
  <2> DEFINE wrong == failed /\ DownloadState = "yt" /\ s = "offline"
             dropped == IF s = "samba" THEN {savePath} ELSE {s} \cap Replaced
             extra == (IF s = "samba" THEN {savePath} ELSE IF wrong THEN {savePath, s} ELSE {})
                         \cap Files
             p == IF wrong THEN savePath ELSE PathOf(s)
  <2>1. /\ Start(s, p, Handled) /\ disk' = Without(d, dropped) /\ suspect' = spoilt \cup extra
    BY <1>3 DEF Continue
  <2>2. /\ s \in Files \cup {"toc"} /\ "toc" \notin Lists
        /\ s \in Files => s \in need /\ Rank[s] > Rank[DownloadState]
        /\ Rank[DownloadState] \in Nat /\ \A f \in Files : Rank[f] \in Nat
    BY <1>1, NextLater, FilesAreLists DEF Lists, Rank
  <2>3. ASSUME NEW f \in need \cap Files, Rank[f] > Rank[DownloadState]
        PROVE  f # e /\ (f # "hidden" => ~Clean(f))
    BY <1>1, <2>2, <2>3, FilesAreLists DEF Left, DiskInv, AheadInv
  <2>4. ASSUME NEW f \in Files, Clean(f)'
        PROVE  /\ \/ f # e /\ Clean(f) /\ d[f] = disk[f]
                  \/ f = e /\ d[f] = <<f, boxVersion[f]>>
               /\ f \notin extra
    BY <2>1, <2>4 DEF Left, Clean, Current
  <2>5. s \in Files \ {"hidden"} => ~Clean(s)'
    BY <2>2, <2>3, <2>4
  <2>6. ASSUME NEW f \in Files, Clean(f)' PROVE disk'[f] = d[f]
    <3>1. f \notin dropped
      <4>1. CASE s = "samba"
        BY <2>4, <2>6, <4>1
      <4>2. CASE s # "samba"
        BY <2>5, <2>6, <4>2 DEF Replaced
      <4> QED  BY <4>1, <4>2
    <3> QED  BY <2>1, <3>1 DEF Without, Paths
  <2>7. DownloadState' = s
    BY <2>1 DEF Start
  <2>8. \/ s \notin Lists
        \/ \A f \in (need \cap Files) \ {"hidden"} : Rank[f] > Rank[s] => ~Clean(f) /\ f # e
    <3>1. ASSUME s \in Lists, NEW f \in (need \cap Files) \ {"hidden"}, Rank[f] > Rank[s]
          PROVE  ~Clean(f) /\ f # e
      <4>1. Rank[f] > Rank[DownloadState]
        BY <2>2, <3>1
      <4> QED  BY <2>3, <4>1
    <3> QED  BY <3>1
  <2>9. DiskInv'
    BY <1>1, <2>3, <2>4, <2>6, <2>7, <2>8, DiskStep DEF Left
  <2>10. /\ Handled \in Seq(Messages) /\ savePath # "hidden"
         /\ \A i \in 1 .. Len(Handled) : Handled[i].task.path # "hidden"
         /\ Head(uiQueue).kind \in ResultKinds => running = NoTask
    BY <1>1, HandledTracked
  <2>11. NoTask.path = "none" /\ "none" \notin Files
    BY FilesAreLists DEF NoTask
  <2>12. p # "hidden" /\ (s \in Lists => p = PathOf(s) \/ (s = "offline" /\ "offline" \in suspect'))
    BY <2>1, <2>2, <2>10, OwnPath
  <2>13. ASSUME NEW f \in Files, f = p \/ f = running.path PROVE ~Clean(f)'
    <3>1. CASE f = p
      <4>1. CASE wrong
        BY <2>4, <2>13, <3>1, <4>1
      <4>2. CASE ~wrong
        BY <2>5, <3>1, <4>2, OwnPath
      <4> QED  BY <4>1, <4>2
    <3>2. CASE f = running.path
      <4>1. e = "none" /\ ~Clean(f)
        BY <1>1, <2>10, <2>11, <3>2 DEF JobInv, PathInv
      <4> QED  BY <2>4, <2>11, <4>1
    <3> QED  BY <2>13, <3>1, <3>2
  <2>14. JobInv'
    BY <1>1, <2>1, <2>10, <2>12, <2>13, StartJobs
  <2> QED  BY <2>9, <2>14 DEF FilesInv
<1> QED  BY <1>2, <1>3

LEMMA DownloadFailedFiles ==
    ASSUME LiveInv, FilesInv, DownloadFailed
    PROVE  FilesInv'
<1>1. /\ uiQueue # <<>>
      /\ UNCHANGED <<boxVersion, planVars, listed, saved, intSvrModel>>
  BY DEF DownloadFailed, Delivers, sessionVars
<1>2. CASE /\ uiQueue' = Handled /\ UNCHANGED <<execVars, disk, suspect>>
           /\ DownloadState' \in {DownloadState, "idle"}
  BY <1>1, <1>2, HandledOther DEF fileVars
<1>3. CASE /\ DownloadState \in Lists /\ NextStep(need, Rank[DownloadState]) # "none"
           /\ Continue(NextStep(need, Rank[DownloadState]), disk, suspect,
                       Head(uiQueue).task.path, TRUE)
  <2>1. VersionInv'
    BY <1>1 DEF FilesInv, DiskInv, VersionInv, planVars
  <2>2. Left(disk, suspect, "none")
    BY <1>1, <2>1, FilesAreLists DEF Left, Clean, Current, planVars
  <2> QED  BY <1>1, <1>3, <2>2, ContinueFiles
<1> QED  BY <1>2, <1>3 DEF DownloadFailed, Quiet, taskVars

\* After a list that was fetched, e, what is Left is continued or ends the chain.
LEMMA ListDoneFiles ==
    ASSUME LiveInv, FilesInv, uiQueue # <<>>, Head(uiQueue).kind \in ResultKinds,
           DownloadState \in Lists, NEW d, NEW spoilt, Left(d, spoilt, DownloadState),
           ListDone(d, spoilt) \/ (disk' = d /\ suspect' = spoilt /\ Quiet)
    PROVE  FilesInv'
<1>1. CASE disk' = d /\ suspect' = spoilt /\ Quiet
  <2>1. uiQueue' = Handled /\ UNCHANGED execVars /\ DownloadState' = DownloadState
    BY <1>1 DEF Quiet, taskVars
  <2>2. DiskInv'
    BY <1>1, <2>1, QuietDisk DEF LiveInv
  <2> QED  BY <2>1, <2>2, SpentJobs DEF FilesInv
<1>2. CASE /\ NextStep(need, Rank[DownloadState]) # "none"
           /\ Continue(NextStep(need, Rank[DownloadState]), d, spoilt,
                       Head(uiQueue).task.path, FALSE)
  BY <1>2, ContinueFiles
<1> QED  BY <1>1, <1>2 DEF ListDone

\* What the result of a list tells of the disk.
LEMMA SuccessFresh ==
    ASSUME LiveInv, JobInv, uiQueue # <<>>, Head(uiQueue).kind = "success",
           DownloadState \in Lists
    PROVE  LET t == Head(uiQueue).task IN
           /\ t.step = DownloadState /\ DownloadState \in Files
           /\ t.path = PathOf(DownloadState) \/
                 (DownloadState = "offline" /\ "offline" \in suspect)
           /\ t.path \in Files => ~Clean(t.path)
           /\ t.path = PathOf(DownloadState) /\ toSave[DownloadState] # 0
                 /\ toSave[DownloadState] = boxVersion[DownloadState] =>
                 \/ disk[t.path] = <<DownloadState, boxVersion[DownloadState]>>
                 \/ DownloadState \in suspect /\ disk[t.path] = Part
<1> DEFINE t == Head(uiQueue).task
<1>1. 1 \in Results(uiQueue) /\ Head(uiQueue) = uiQueue[1] /\ t \in Tracked /\ t.live
  BY HandledTracked DEF ResultKinds
<1>2. t # NoTask
  BY <1>1 DEF NoTask
<1>3. DownloadState # "idle" /\ DownloadState \in Files
  BY ListState DEF LiveInv, Lists, Rank
<1>4. t.step = DownloadState
  BY <1>1, <1>2, <1>3 DEF JobInv, Named
<1>5. t.path = PathOf(DownloadState) \/ (DownloadState = "offline" /\ "offline" \in suspect)
  BY <1>1, <1>2, <1>4 DEF JobInv, Named
<1>6. PathOf(DownloadState) # "none"
  BY <1>3, FilesAreLists DEF PathOf
<1>7. t.path # "none" => Fresh(t)
  BY <1>1 DEF JobInv
<1> QED  BY <1>1, <1>3, <1>4, <1>5, <1>6, <1>7 DEF JobInv, PathInv, Fresh

LEMMA ListDownloadedFiles ==
    ASSUME LiveInv, FilesInv, ListDownloaded
    PROVE  FilesInv'
<1> DEFINE f == DownloadState
           t == Head(uiQueue).task
           inMemory == f = "offline" /\ intSvrModel = "SONCA"
<1>1. /\ uiQueue # <<>> /\ Head(uiQueue).kind = "success" /\ f \in Lists \ {"hidden"}
      /\ Head(uiQueue).kind \in ResultKinds
      /\ UNCHANGED <<boxVersion, toSave, need, intSvrModel>>
      /\ listed' = IF inMemory THEN toSave[f] ELSE listed
  BY DEF ListDownloaded, Delivers, ResultKinds, sessionVars, planVars
<1>2. TypeOK /\ JobInv /\ DiskInv
  BY DEF LiveInv, FilesInv
<1>3. /\ t.step = f /\ f \in Files /\ PathOf(f) = f
      /\ t.path = f \/ (f = "offline" /\ "offline" \in suspect)
      /\ t.path \in Files => ~Clean(t.path)
      /\ t.path = f /\ toSave[f] # 0 /\ toSave[f] = boxVersion[f] =>
            disk[f] = <<f, boxVersion[f]>> \/ (f \in suspect /\ disk[f] = Part)
  BY <1>1, <1>2, SuccessFresh DEF PathOf
<1>4. CASE inMemory /\ Quiet /\ UNCHANGED <<saved, disk, suspect>>
  <2>1. ~Clean("offline") /\ ~Clean("offline")'
    BY <1>1, <1>3, <1>4 DEF Clean, Current
  <2>2. uiQueue' = Handled /\ UNCHANGED execVars /\ DownloadState' = DownloadState
    BY <1>4 DEF Quiet, taskVars
  <2>3. VersionInv'
    BY <1>1, <1>2, <1>4 DEF DiskInv, VersionInv
  <2>4. \A g \in Files : g # "none" /\ (Clean(g)' => Clean(g) /\ disk'[g] = disk[g])
    BY <1>1, <1>4, FilesAreLists DEF Clean, Current
  <2>5. DiskInv'
    BY <1>1, <1>2, <2>1, <2>2, <2>3, <2>4, DiskStep
  <2>6. JobInv'
    BY <1>1, <1>2, <2>2, SpentJobs
  <2> QED  BY <2>5, <2>6 DEF FilesInv
<1>5. CASE Save(f) /\ ListDone(disk, Spoilt(disk, f))
  <2>1. saved' = [saved EXCEPT ![f] = toSave[f]]
    BY <1>5 DEF Save
  <2>2. VersionInv'
    BY <1>1, <1>2, <1>3, <2>1 DEF DiskInv, VersionInv, TypeOK
  <2>3. \/ listed' = listed /\ f # "offline"
        \/ listed' = saved'["offline"]
        \/ intSvrModel # "SONCA"
    BY <1>1, <1>2, <1>3, <2>1 DEF TypeOK
  <2>4. ASSUME NEW g \in Files, g \notin Spoilt(disk, f), saved'[g] = boxVersion[g],
               saved'[g] # 0
        PROVE  (g # f /\ Clean(g)) \/ (g = f /\ disk[g] = <<g, boxVersion[g]>>)
    <3>1. CASE g # f
      BY <1>2, <2>1, <2>4, <3>1 DEF Spoilt, Clean, Current, TypeOK
    <3>2. CASE g = f
      <4>1. saved'[f] = toSave[f]
        BY <1>2, <1>3, <2>1 DEF TypeOK
      <4>2. t.path = f \/ f \notin suspect
        BY <1>3, <2>4, <3>2 DEF Spoilt
      <4>3. ~(f \in suspect /\ disk[f] = Part)
        BY <1>1, <2>4, <3>2 DEF Spoilt, Part, Lists, Rank
      <4> QED  BY <1>3, <2>4, <3>2, <4>1, <4>2, <4>3
    <3> QED  BY <3>1, <3>2
  <2>5. Left(disk, Spoilt(disk, f), DownloadState)
    BY <1>1, <2>2, <2>3, <2>4 DEF Left
  <2> QED  BY <1>1, <1>5, <2>5, ListDoneFiles
<1> QED  BY <1>4, <1>5 DEF ListDownloaded

\* The hidden list is whole where it is in force when its .tmp file was copied whole.
LEMMA HiddenDownloadedFiles ==
    ASSUME LiveInv, FilesInv, HiddenDownloaded
    PROVE  FilesInv'
<1> DEFINE t == Head(uiQueue).task
<1>1. /\ uiQueue # <<>> /\ Head(uiQueue).kind = "success" /\ DownloadState = "hidden"
      /\ Head(uiQueue).kind \in ResultKinds /\ "hidden" \in Lists
      /\ UNCHANGED <<boxVersion, toSave, need, intSvrModel, listed>>
      /\ saved' = [saved EXCEPT !["hidden"] = toSave["hidden"]]
  BY DEF HiddenDownloaded, Delivers, ResultKinds, sessionVars, planVars, Save, Lists, Rank
<1>2. TypeOK /\ JobInv /\ DiskInv
  BY DEF LiveInv, FilesInv
<1>3. /\ t.path = "tmp" /\ "hidden" \in Files /\ PathOf("hidden") = "tmp"
      /\ toSave["hidden"] # 0 /\ toSave["hidden"] = boxVersion["hidden"] =>
            \/ disk["tmp"] = <<"hidden", boxVersion["hidden"]>>
            \/ "hidden" \in suspect /\ disk["tmp"] = Part
  BY <1>1, <1>2, SuccessFresh DEF PathOf
<1>4. PICK content \in {disk["tmp"], disk["hidden"], Part} :
         LET d == [disk EXCEPT !["hidden"] = content]
             spoilt == IF content = disk["tmp"] THEN Spoilt(d, "hidden")
                                                ELSE suspect \cup {"hidden"}
         IN ListDone(d, spoilt) \/ (disk' = d /\ suspect' = spoilt /\ Quiet)
  BY DEF HiddenDownloaded
<1> DEFINE d == [disk EXCEPT !["hidden"] = content]
           spoilt == IF content = disk["tmp"] THEN Spoilt(d, "hidden")
                                              ELSE suspect \cup {"hidden"}
<1>5. VersionInv'
  BY <1>1, <1>2, <1>3 DEF DiskInv, VersionInv, TypeOK
<1>6. ASSUME NEW g \in Files, g \notin spoilt, saved'[g] = boxVersion[g], saved'[g] # 0
      PROVE  \/ g # "hidden" /\ Clean(g) /\ d[g] = disk[g]
             \/ g = "hidden" /\ d[g] = <<g, boxVersion[g]>>
  <2>1. CASE g # "hidden"
    <3>1. g \notin suspect /\ saved'[g] = saved[g]
      BY <1>1, <1>2, <1>6, <2>1 DEF Spoilt, TypeOK
    <3>2. d[g] = disk[g]
      BY <1>2, <2>1 DEF TypeOK, Paths
    <3> QED  BY <1>6, <2>1, <3>1, <3>2 DEF Clean, Current
  <2>2. CASE g = "hidden"
    <3>1. content = disk["tmp"] /\ saved'[g] = toSave["hidden"]
      BY <1>1, <1>2, <1>3, <1>6, <2>2 DEF TypeOK
    <3>2. d[g] = disk["tmp"]
      BY <1>2, <1>3, <2>2, <3>1 DEF TypeOK, Paths
    <3>3. ~("hidden" \in suspect /\ disk["tmp"] = Part)
      BY <1>6, <2>2, <3>1, <3>2 DEF Spoilt, Part
    <3> QED  BY <1>3, <1>6, <2>2, <3>1, <3>2, <3>3
  <2> QED  BY <2>1, <2>2
<1>7. Left(d, spoilt, DownloadState)
  BY <1>1, <1>5, <1>6 DEF Left
<1>8. ListDone(d, spoilt) \/ (disk' = d /\ suspect' = spoilt /\ Quiet)
  BY <1>4
<1> HIDE DEF d, spoilt
<1> QED  BY <1>1, <1>7, <1>8, ListDoneFiles

-----------------------------------------------------------------------------
LEMMA FilesStep == ChainInv /\ FilesInv /\ [Next]_vars => FilesInv'
<1> SUFFICES ASSUME ChainInv, FilesInv, [Next]_vars PROVE FilesInv'
  OBVIOUS
<1> USE DEF ChainInv
<1>1. CASE Worker
  BY <1>1, WorkerJobs, WorkerDisk DEF FilesInv
<1>2. CASE UserConnect \/ UserDisconnect \/ ConnectFails \/ Disconnected \/ PingAnswers
  BY <1>2, DisconnectionFiles
<1>3. CASE UNCHANGED <<boxVersion, planVars, fileVars, taskVars, uiQueue, intSvrModel>>
  <2>1. UNCHANGED <<boxVersion, need, toSave, saved, listed, suspect, disk, DownloadState,
                    waiting, running, pc, uiQueue, intSvrModel>>
    BY <1>3 DEF planVars, fileVars, taskVars, execVars
  <2>2. JobInv'
    BY <2>1 DEF FilesInv, JobInv, PathInv, Tracked, Named, Fresh, Clean, Current
  <2>3. DiskInv'
    BY <2>1, DiskFrame DEF FilesInv, LiveInv
  <2> QED  BY <2>2, <2>3 DEF FilesInv
<1>4. CASE AnswerBusy
  <2>1. CASE \E then \in {"connecting", "off"} : DefaultView(then)
                /\ uiQueue' = Silenced(uiQueue, ResultKinds \cup StatusKinds)
    BY <1>4, <2>1, DisconnectionFiles
  <2>2. CASE UNCHANGED <<sessionVars, pingVars, taskVars, histVars, uiQueue>>
    BY <1>3, <1>4, <2>2 DEF AnswerBusy, sessionVars
  <2> QED  BY <1>4, <2>1, <2>2 DEF AnswerBusy
<1>5. CASE DownloadFailed \/ HiddenDownloaded \/ ListDownloaded \/ OtherDownloaded
  BY <1>5, DownloadFailedFiles, HiddenDownloadedFiles, ListDownloadedFiles,
     OtherDownloadedFiles
<1>6. CASE InvalidResponse \/ Cancelled
  BY <1>6, HandledOther DEF InvalidResponse, Cancelled, Delivers, Quiet, taskVars, sessionVars
<1>7. CASE StatusArrives
  BY <1>7, StatusArrivesFiles
<1>8. CASE StatusAsked
  <2>1. UNCHANGED <<boxVersion, need, toSave, saved, listed, suspect, disk, DownloadState,
                    intSvrModel>>
    BY <1>8 DEF StatusAsked, workerFrame, planVars, sessionVars
  <2> QED  BY <1>8, <2>1, StatusAskedJobs, DiskFrame DEF FilesInv, LiveInv
<1>9. CASE UserMidi
  <2>1. "midi" \in Steps \ Lists /\ uiQueue \in Seq(Messages)
        /\ \A i \in 1 .. Len(uiQueue) : uiQueue[i].task.path # "hidden"
    BY DEF Steps, Lists, Rank, LiveInv, TypeOK, FilesInv, JobInv, PathInv
  <2> QED  BY <1>9, <2>1, StartOther DEF UserMidi, LiveInv, sessionVars
<1>10. CASE ImportEnds
  <2>1. "info" \in Steps \ Lists /\ uiQueue \in Seq(Messages)
        /\ \A i \in 1 .. Len(uiQueue) : uiQueue[i].task.path # "hidden"
    BY DEF Steps, Lists, Rank, LiveInv, TypeOK, FilesInv, JobInv, PathInv
  <2>2. CASE Start("info", "none", Silenced(uiQueue, StatusKinds))
    <3>1. /\ Silenced(uiQueue, StatusKinds) \in Seq(Messages)
          /\ \A i \in 1 .. Len(Silenced(uiQueue, StatusKinds)) :
                Silenced(uiQueue, StatusKinds)[i].task.path # "hidden"
      BY <2>1, SilencedDead, SilencedPaths
    <3> QED  BY <1>10, <2>1, <2>2, <3>1, StartOther DEF ImportEnds, LiveInv, sessionVars
  <2>3. CASE UNCHANGED <<DownloadState, execVars, uiQueue>>
    BY <1>3, <1>10, <2>3 DEF ImportEnds, sessionVars, taskVars
  <2> QED  BY <1>10, <2>2, <2>3 DEF ImportEnds
<1>11. CASE \E m \in Models, plan \in SUBSET (Lists \cup {"main"}) : Login(m, plan)
  BY <1>11, LoginFiles
<1>12. CASE PingBegins \/ PingInVain \/ UNCHANGED vars
  BY <1>3, <1>12 DEF PingBegins, PingInVain, pingFrame, sessionVars, vars, taskVars
<1>13. CASE \E f \in Changing : BoxUpdates(f)
  BY <1>13, BoxUpdatesFiles DEF FilesInv, LiveInv
<1> QED  BY <1>1, <1>2, <1>4, <1>5, <1>6, <1>7, <1>8, <1>9, <1>10, <1>11, <1>12, <1>13
         DEF Next, User, Deliver

LEMMA FilesInit == Init => FilesInv
<1> SUFFICES ASSUME Init PROVE FilesInv
  OBVIOUS
<1>1. waiting = NoTask /\ running = NoTask /\ uiQueue = <<>> /\ intSvrModel = "none"
      /\ DownloadState = "idle" /\ "idle" \notin Lists
  BY DEF Init, Lists, Rank
<1>2. Results(uiQueue) = {} /\ 1 .. Len(uiQueue) = {} /\ "none" \notin Files
      /\ NoTask.path = "none" /\ ~NoTask.live
  BY <1>1, FilesAreLists DEF Results, NoTask
<1>3. \A f \in Files : saved[f] = 0 /\ toSave[f] = 0 /\ boxVersion[f] = 1
  BY DEF Init
<1>4. JobInv
  BY <1>1, <1>2 DEF JobInv, PathInv, Tracked
<1>5. DiskInv
  BY <1>1, <1>3 DEF DiskInv, VersionInv, NeedInv, WholeInv, AheadInv, ListedInv, Clean, Current
<1> QED  BY <1>4, <1>5 DEF FilesInv

\* A list that the next login takes for up to date is on disk, whole and of the box's
\* version, whatever failed, was cancelled or was started twice since it was fetched, if
\* none of the slips that suspect records has damaged it: a version is saved only by the
\* success of that very download, and nothing writes or drops the file afterwards without
\* the version being out of date.
THEOREM UpToDateListsAreWhole == Spec => []UpToDateMeansWhole
<1>1. ChainInv /\ FilesInv /\ [Next]_vars => ChainInv' /\ FilesInv'
  BY LiveStep, OrderStep, PingStep, FilesStep DEF ChainInv
<1>2. FilesInv => UpToDateMeansWhole
  BY DEF FilesInv, DiskInv, WholeInv, Clean, Current, UpToDateMeansWhole
<1> QED  BY <1>1, <1>2, ChainInit, FilesInit, PTL DEF Spec
=============================================================================
