------------------------- MODULE DownloadPlanProofs -------------------------
(***************************************************************************)
(* That no session of DownloadChain polls before the plan of its login has *)
(* been tried, and that none is left with nothing to come, for any plan    *)
(* and any number of sessions.                                             *)
(***************************************************************************)
EXTENDS DownloadFilesProofs

\* The lists of the plan up to list f have been started, and all of the plan.
Reached(f) == \A g \in need \cap Lists : Rank[g] <= Rank[f] => g \in attempted
PlanDone == need \cap Lists \subseteq attempted /\ ("main" \in need => "toc" \in attempted)

\* What is only met once the plan is done: the polling, a status it has brought,
\* the import, and the downloads that end a chain or follow a status.
Afterwards ==
    polling \/ HasStatus(uiQueue) \/ importing \/ (Due /\ DownloadState \in Main \cup {"add"})

PlanInv ==
    ~orphaned /\ session = "up" =>
        /\ Afterwards => PlanDone
        /\ Due /\ DownloadState \in Lists => Reached(DownloadState)

LEMMA PlanInit == Init => PlanInv
BY DEF Init, PlanInv

\* What NextStep leaves out of the plan has been started.
LEMMA NextReached ==
    ASSUME PlanTyped, NEW r \in Nat, NEW s, s = NextStep(need, r),
           \A g \in need \cap Lists : Rank[g] <= r => g \in attempted
    PROVE  /\ s \in Files \cup {"toc", "none"}
           /\ s = "none" => PlanDone
           /\ s = "toc" => need \cap Lists \subseteq attempted
           /\ s \in Lists =>
                 \A g \in need \cap Lists : Rank[g] <= Rank[s] => g = s \/ g \in attempted
<1>1. s \in Files \cup {"toc", "none"} /\ "toc" \notin Lists /\ "none" \notin Lists
  BY NextStepTyped DEF PlanTyped, Lists, Rank
<1>2. \A g \in Lists : Rank[g] \in Nat
  BY DEF Lists, Rank
<1>3. \A g \in need \cap Lists : g \in Later(need, r) \/ g \in attempted
  BY <1>2 DEF Later
<1>4. CASE Later(need, r) = {}
  BY <1>1, <1>3, <1>4, FilesAreLists DEF NextStep, PlanDone
<1>5. CASE Later(need, r) # {}
  <2>1. s \in Later(need, r) /\ \A g \in Later(need, r) : Rank[s] <= Rank[g]
    BY <1>5, FirstLater DEF NextStep
  <2>2. s \in Lists
    BY <2>1 DEF Later
  <2>3. ASSUME NEW g \in need \cap Lists, Rank[g] <= Rank[s], g \notin attempted
        PROVE  g = s
    <3>1. Rank[g] = Rank[s]
      BY <1>2, <1>3, <2>1, <2>2, <2>3
    <3> QED  BY <2>2, <3>1 DEF Lists, Rank
  <2> QED  BY <1>1, <2>2, <2>3
<1> QED  BY <1>4, <1>5

\* A step that starts nothing.
LEMMA KeepPlan ==
    ASSUME PlanInv, orphaned => orphaned', session' = "up" => session = "up",
           need' = need, attempted \subseteq attempted',
           ~orphaned' /\ session' = "up" =>
              /\ polling' \/ HasStatus(uiQueue)' \/ importing' => Afterwards \/ PlanDone
              /\ Due' => Due /\ DownloadState' = DownloadState
    PROVE  PlanInv'
<1> SUFFICES ASSUME ~orphaned', session' = "up" PROVE PlanInv'
  BY DEF PlanInv
<1>1. (Afterwards => PlanDone) /\ (Due /\ DownloadState \in Lists => Reached(DownloadState))
  BY DEF PlanInv
<1>2. PlanDone => PlanDone'
  BY DEF PlanDone
<1>3. Afterwards' => PlanDone'
  BY <1>1, <1>2 DEF Afterwards
<1>4. Due' /\ DownloadState' \in Lists => Reached(DownloadState)'
  BY <1>1 DEF Reached
<1> QED  BY <1>3, <1>4 DEF PlanInv

\* A download is started.
LEMMA StartPlan ==
    ASSUME PlanInv, NEW s, NEW p, NEW q \in Seq(Messages), Start(s, p, q),
           ~orphaned' /\ session' = "up" =>
              /\ polling' \/ HasStatus(q) \/ importing' \/ s \in Main \cup {"add"} => PlanDone'
              /\ s \in Lists => Reached(s)'
    PROVE  PlanInv'
<1>1. DownloadState' = s
  BY DEF Start
<1>2. HasStatus(uiQueue)' => HasStatus(q)
  BY SilencedStatus DEF Start
<1>3. s \in Lists => (Reached(s)' <=> Reached(DownloadState)')
  BY <1>1 DEF Reached
<1> QED  BY <1>1, <1>2, <1>3 DEF PlanInv, Afterwards

\* A live report is one that is due.
LEMMA HeadDue ==
    ASSUME ChainInv, uiQueue # <<>>, Head(uiQueue).task.live, Head(uiQueue).kind \in Tells
    PROVE  Due
<1>1. 1 \in 1 .. Len(uiQueue) /\ uiQueue[1] = Head(uiQueue)
  BY HandledMessages, Parts DEF ChainInv, LiveInv
<1> QED  BY <1>1 DEF Due, Telling

LEMMA HandledStatus ==
    ASSUME TypeOK, uiQueue # <<>>
    PROVE  Handled \in Seq(Messages) /\ (HasStatus(Handled) => HasStatus(uiQueue))
BY HandledMessages, HandledTyped, Parts DEF HasStatus

\* The report of a step of the plan has been handled and nothing started.
LEMMA EndPlan ==
    ASSUME ChainInv, PlanInv, uiQueue # <<>>, uiQueue' = Handled, UNCHANGED execVars,
           Head(uiQueue).kind \in Tells \cup {"invalid"},
           ~orphaned' => ~orphaned /\ Head(uiQueue).task.live,
           UNCHANGED <<session, importing, need, attempted>>,
           ~orphaned /\ session = "up" /\ polling' => polling \/ PlanDone
    PROVE  PlanInv'
<1>1. (HasStatus(uiQueue)' => HasStatus(uiQueue)) /\ (~orphaned' => ~Due')
  BY ReportEnds DEF ChainInv
<1> QED  BY <1>1, KeepPlan DEF Afterwards

\* The next list of the plan is started, or the report handled: Continue does either.
LEMMA ContinuePlan ==
    ASSUME ChainInv, PlanInv, uiQueue # <<>>, Head(uiQueue).kind \in Tells,
           NEW s, s = NextStep(need, Rank[DownloadState]), s # "none",
           NEW d, NEW spoilt, NEW savePath, NEW failed,
           Continue(s, d, spoilt, savePath, failed),
           ~orphaned' => ~orphaned /\ Head(uiQueue).task.live,
           DownloadState \in Lists,
           UNCHANGED <<session, importing, need, polling>>
    PROVE  PlanInv'
<1>1. CASE Quiet
  BY <1>1, EndPlan DEF Quiet, taskVars
<1>2. CASE \E p : Start(s, p, Handled) /\ attempted' = attempted \cup {s}
  <2>1. PICK p : Start(s, p, Handled) /\ attempted' = attempted \cup {s}
    BY <1>2
  <2>2. Handled \in Seq(Messages) /\ (HasStatus(Handled) => HasStatus(uiQueue))
    BY HandledStatus DEF ChainInv, LiveInv
  <2>3. SUFFICES ASSUME ~orphaned', session' = "up"
                 PROVE  /\ polling' \/ HasStatus(Handled) \/ importing'
                              \/ s \in Main \cup {"add"} => PlanDone'
                        /\ s \in Lists => Reached(s)'
    BY <2>1, <2>2, StartPlan
  <2>4. /\ Afterwards => PlanDone
        /\ Reached(DownloadState)
    BY <2>3, HeadDue DEF PlanInv
  <2>5. PlanDone => PlanDone'
    BY <2>1 DEF PlanDone
  <2>6. Rank[DownloadState] \in Nat /\ PlanTyped
    BY Parts DEF ChainInv, LiveInv, Lists, Rank
  <2>7. /\ s \in Files \cup {"toc"}
        /\ s = "toc" => need \cap Lists \subseteq attempted
        /\ s \in Lists =>
              \A g \in need \cap Lists : Rank[g] <= Rank[s] => g = s \/ g \in attempted
    BY <2>4, <2>6, NextReached DEF Reached
  <2>8. s \in Main \cup {"add"} => s = "toc"
    BY <2>7, FilesAreLists DEF Main, Lists, Rank
  <2>9. s = "toc" => PlanDone'
    BY <2>1, <2>7 DEF PlanDone
  <2>10. s \in Lists => Reached(s)'
    BY <2>1, <2>7 DEF Reached
  <2> QED  BY <2>2, <2>4, <2>5, <2>8, <2>9, <2>10 DEF Afterwards
<1> QED  BY <1>1, <1>2 DEF Continue

\* Nothing is left of the plan after the list that DownloadState names.
LEMMA PlanEnds ==
    ASSUME ChainInv, PlanInv, uiQueue # <<>>, Head(uiQueue).kind \in Tells,
           Head(uiQueue).task.live, ~orphaned, session = "up",
           DownloadState \in Lists, NextStep(need, Rank[DownloadState]) = "none"
    PROVE  PlanDone
<1>1. Reached(DownloadState)
  BY HeadDue DEF PlanInv
<1>2. Rank[DownloadState] \in Nat /\ PlanTyped
  BY Parts DEF ChainInv, LiveInv, Lists, Rank
<1> QED  BY <1>1, <1>2, NextReached DEF Reached

LEMMA DownloadFailedPlan ==
    ASSUME ChainInv, PlanInv, DownloadFailed
    PROVE  PlanInv'
<1>1. /\ uiQueue # <<>> /\ Head(uiQueue).kind \in Tells
      /\ ~orphaned' => ~orphaned /\ Head(uiQueue).task.live
      /\ UNCHANGED <<session, importing, need>>
  BY DEF DownloadFailed, Delivers, sessionVars, planVars, Tells
<1>2. CASE /\ uiQueue' = Handled /\ UNCHANGED <<execVars, attempted>>
           /\ polling' = polling \/ DownloadState \in {"add", "info"} \/
                 (DownloadState \in Lists /\ NextStep(need, Rank[DownloadState]) = "none")
  <2>1. ASSUME ~orphaned', session = "up", polling' PROVE polling \/ PlanDone
    <3>1. Due
      BY <1>1, <2>1, HeadDue
    <3>2. DownloadState \in {"add", "info"} => PlanDone
      BY <1>1, <2>1, <3>1 DEF PlanInv, Afterwards, Main
    <3> QED  BY <1>1, <1>2, <2>1, <3>2, PlanEnds
  <2>2. ~orphaned' => ~orphaned
    BY <1>1
  <2>3. orphaned' => PlanInv'
    BY DEF PlanInv
  <2>4. CASE ~orphaned'
    BY <1>1, <1>2, <2>1, <2>4, EndPlan
  <2> QED  BY <2>3, <2>4
<1>3. CASE /\ DownloadState \in Lists /\ UNCHANGED polling
           /\ NextStep(need, Rank[DownloadState]) # "none"
           /\ \E d, spoilt, savePath, failed :
                 Continue(NextStep(need, Rank[DownloadState]), d, spoilt, savePath, failed)
  BY <1>1, <1>3, ContinuePlan
<1> QED  BY <1>2, <1>3 DEF DownloadFailed, Quiet, taskVars

LEMMA ListsPlan ==
    ASSUME ChainInv, PlanInv, HiddenDownloaded \/ ListDownloaded
    PROVE  PlanInv'
<1>1. /\ uiQueue # <<>> /\ Head(uiQueue).kind = "success" /\ Head(uiQueue).kind \in Tells
      /\ UNCHANGED <<session, importing, orphaned, need>> /\ DownloadState \in Lists
  BY DEF HiddenDownloaded, ListDownloaded, Delivers, sessionVars, dialogVars, histVars,
     planVars, Lists, Rank, Tells
<1>2. Head(uiQueue).task.live
  BY <1>1, SuccessPing
<1>3. CASE Quiet /\ UNCHANGED polling
  BY <1>1, <1>2, <1>3, EndPlan DEF Quiet, taskVars
<1>4. CASE \E d, spoilt : ListDone(d, spoilt)
  <2>1. CASE /\ NextStep(need, Rank[DownloadState]) # "none" /\ UNCHANGED polling
             /\ \E d, spoilt, savePath, failed :
                 Continue(NextStep(need, Rank[DownloadState]), d, spoilt, savePath, failed)
    BY <1>1, <1>2, <2>1, ContinuePlan
  <2>2. CASE NextStep(need, Rank[DownloadState]) = "none" /\ Quiet
    <3>1. ~orphaned /\ session = "up" => PlanDone
      BY <1>1, <1>2, <2>2, PlanEnds
    <3> QED  BY <1>1, <1>2, <2>2, <3>1, EndPlan DEF Quiet, taskVars
  <2> QED  BY <1>4, <2>1, <2>2 DEF ListDone
<1>5. CASE HiddenDownloaded
  BY <1>3, <1>4, <1>5 DEF HiddenDownloaded
<1>6. CASE ListDownloaded
  BY <1>3, <1>4, <1>6 DEF ListDownloaded
<1> QED  BY <1>5, <1>6

LEMMA OtherDownloadedPlan ==
    ASSUME ChainInv, PlanInv, OtherDownloaded
    PROVE  PlanInv'
<1>1. /\ uiQueue # <<>> /\ Head(uiQueue).kind = "success" /\ Head(uiQueue).kind \in Tells
      /\ UNCHANGED <<session, orphaned, need>>
  BY DEF OtherDownloaded, Delivers, sessionVars, histVars, planVars, Tells
<1>2. Head(uiQueue).task.live /\ Due
  BY <1>1, SuccessPing
<1>3. Handled \in Seq(Messages) /\ (HasStatus(Handled) => HasStatus(uiQueue))
  BY <1>1, HandledStatus DEF ChainInv, LiveInv
<1>4. ~orphaned /\ session = "up" /\ DownloadState \in Main => PlanDone
  BY <1>2 DEF PlanInv, Afterwards
<1>5. CASE /\ DownloadState = "toc" /\ Start("lyrics", "none", Handled)
           /\ UNCHANGED <<attempted, importing>>
  <2>1. PlanDone' <=> PlanDone
    BY <1>1, <1>5 DEF PlanDone
  <2>2. "lyrics" \notin Lists /\ DownloadState \in Main
    BY <1>5 DEF Lists, Rank, Main
  <2> QED  BY <1>1, <1>3, <1>4, <1>5, <2>1, <2>2, StartPlan
<1>6. CASE /\ DownloadState = "lyrics" /\ ~polling' /\ UNCHANGED taskVars
           /\ uiQueue' = Silenced(Handled, StatusKinds)
  <2>1. AllDead(uiQueue)' /\ ~HasStatus(uiQueue)'
    BY <1>3, <1>6, SilencedDead, SilencedStatus
  <2>2. Due' => Due /\ DownloadState' = DownloadState
    BY <1>2, <1>6 DEF taskVars
  <2> QED  BY <1>1, <1>4, <1>6, <2>1, <2>2, KeepPlan DEF Main, taskVars
<1>7. CASE /\ uiQueue' = Handled /\ UNCHANGED <<execVars, importing, attempted>>
           /\ polling' = polling \/ DownloadState \in {"info", "idle"}
  <2>1. ~orphaned => DownloadState # "idle"
    <3>1. Head(uiQueue).task.step \in Steps \cup {"none"}
      BY <1>1, HandledTyped, Parts DEF ChainInv, LiveInv, Messages, Tasks
    <3>2. "idle" \notin Steps \cup {"none"}
      BY FilesAreLists DEF Steps, Lists, Rank
    <3> QED  BY <1>1, <3>1, <3>2, LeftInQueue DEF ChainInv
  <2> QED  BY <1>1, <1>2, <1>4, <1>7, <2>1, EndPlan DEF Main
<1> QED  BY <1>5, <1>6, <1>7 DEF OtherDownloaded, Quiet, taskVars, pingVars

\* The executor makes nothing due and brings no status.
LEMMA WorkerPlan ==
    ASSUME ChainInv, PlanInv, Worker
    PROVE  PlanInv'
<1> USE DEF ChainInv
<1>1. UNCHANGED <<orphaned, DownloadState, session, importing, polling, need, attempted>>
  BY DEF Worker, StartDownload, ExchangeLost, Refused, Empty, HeaderArrives, BodyComplete,
     StrayComplete, BodyShort, BodyThrows, ReturnsInvalid, Ends, workerFrame, histVars,
     dialogVars, pingVars,
     sessionVars, planVars
<1>2. ~NoTask.live
  BY DEF NoTask
<1>3. CASE StartDownload
  <2>1. (Due' => Due) /\ uiQueue' = uiQueue
    BY <1>2, <1>3 DEF StartDownload, Due, Telling
  <2> QED  BY <1>1, <2>1, KeepPlan DEF HasStatus, Afterwards
<1>4. CASE HeaderArrives
  <2>1. (Due' => Due) /\ uiQueue' = uiQueue
    BY <1>4 DEF HeaderArrives, workerFrame, Due, Telling
  <2> QED  BY <1>1, <2>1, KeepPlan DEF HasStatus, Afterwards
<1>5. CASE ExchangeLost \/ Refused \/ Empty \/ BodyComplete \/ StrayComplete \/ BodyShort
           \/ BodyThrows \/ ReturnsInvalid
  <2>1. PICK k \in ResultKinds \cup {"failed"} :
           /\ Report(k) /\ waiting' = waiting
           /\ running' = NoTask \/ (running' = running /\ pc' = "failed")
           /\ k \in Tells => pc # "failed"
    BY <1>5 DEF ExchangeLost, Refused, Empty, BodyComplete, StrayComplete, BodyShort,
       BodyThrows, ReturnsInvalid, Ends, workerFrame, ResultKinds, Tells
  <2>2. CASE ~running.live
    <3>1. uiQueue' = uiQueue /\ ~running'.live
      BY <1>2, <2>1, <2>2 DEF Report
    <3>2. Due' => Due
      BY <2>1, <3>1 DEF Due, Telling
    <3> QED  BY <1>1, <3>1, <3>2, KeepPlan DEF HasStatus, Afterwards
  <2>3. CASE running.live
    <3>1. /\ Len(uiQueue') = Len(uiQueue) + 1 /\ Len(uiQueue) \in Nat
          /\ uiQueue'[Len(uiQueue) + 1] = [kind |-> k, task |-> running]
          /\ \A i \in 1 .. Len(uiQueue) : uiQueue'[i] = uiQueue[i]
      BY <2>1, <2>3, ReportInv, Parts DEF ExecTyped, LiveInv, Tells
    <3>2. k \notin StatusKinds
      BY DEF ResultKinds, StatusKinds
    <3>3. HasStatus(uiQueue)' => HasStatus(uiQueue)
      BY <3>1, <3>2 DEF HasStatus
    <3>4. Telling(uiQueue)' => Telling(uiQueue) \/ k \in Tells
      BY <3>1 DEF Telling
    <3>5. Due' => Due
      BY <1>2, <2>1, <2>3, <3>4 DEF Due
    <3> QED  BY <1>1, <3>3, <3>5, KeepPlan DEF Afterwards
  <2> QED  BY <2>2, <2>3
<1> QED  BY <1>3, <1>4, <1>5 DEF Worker

\* The polling brings statuses; it runs only after the plan.
LEMMA StatusAskedPlan ==
    ASSUME ChainInv, PlanInv, StatusAsked
    PROVE  PlanInv'
<1>1. /\ polling
      /\ UNCHANGED <<orphaned, DownloadState, session, importing, polling, need, attempted,
                     waiting, running, pc>>
  BY DEF StatusAsked, workerFrame, histVars, dialogVars, pingVars, sessionVars, planVars
<1>2. PICK k \in StatusKinds : uiQueue' = Append(uiQueue, [kind |-> k, task |-> NoTask])
  BY DEF StatusAsked
<1>3. [kind |-> k, task |-> NoTask] \in Messages /\ uiQueue \in Seq(Messages) /\ ~NoTask.live
  BY Parts DEF ChainInv, LiveInv, ExecTyped, Messages, Tasks, NoTask
<1>4. /\ Len(uiQueue') = Len(uiQueue) + 1 /\ Len(uiQueue) \in Nat
      /\ uiQueue'[Len(uiQueue) + 1] = [kind |-> k, task |-> NoTask]
      /\ \A i \in 1 .. Len(uiQueue) : uiQueue'[i] = uiQueue[i]
  BY <1>2, <1>3
<1>5. Due' => Due
  <2>1. Telling(uiQueue)' => Telling(uiQueue)
    BY <1>3, <1>4 DEF Telling
  <2> QED  BY <1>1, <2>1 DEF Due
<1> QED  BY <1>1, <1>5, KeepPlan DEF Afterwards

\* A status: whatever it starts comes after the plan.
LEMMA StatusArrivesPlan ==
    ASSUME ChainInv, PlanInv, StatusArrives
    PROVE  PlanInv'
<1>1. /\ uiQueue # <<>> /\ Head(uiQueue).kind = "status"
      /\ UNCHANGED <<session, orphaned, importing, polling, need, attempted>>
  BY DEF StatusArrives, Delivers, sessionVars, histVars, dialogVars
<1>2. Handled \in Seq(Messages) /\ (HasStatus(Handled) => HasStatus(uiQueue))
  BY <1>1, HandledStatus DEF ChainInv, LiveInv
<1>3. HasStatus(uiQueue)
  <2>1. 1 \in 1 .. Len(uiQueue) /\ uiQueue[1] = Head(uiQueue)
    BY <1>1, HandledMessages, Parts DEF ChainInv, LiveInv
  <2> QED  BY <1>1, <2>1 DEF HasStatus, StatusKinds
<1>4. ~orphaned' /\ session' = "up" => PlanDone /\ PlanDone'
  BY <1>1, <1>3 DEF PlanInv, Afterwards, PlanDone
<1>5. CASE \E s, p : Start(s, p, Handled)
  <2>1. PICK s, p : Start(s, p, Handled)
    BY <1>5
  <2>2. PlanDone' => (s \in Lists => Reached(s)')
    BY DEF PlanDone, Reached
  <2> QED  BY <1>2, <1>4, <2>1, <2>2, StartPlan
<1>6. CASE uiQueue' = Handled /\ UNCHANGED <<DownloadState, execVars>>
  <2>1. (Due' => Due) /\ (HasStatus(uiQueue)' => HasStatus(uiQueue))
    BY <1>1, <1>6, ReportEnds DEF ChainInv
  <2> QED  BY <1>1, <1>4, <1>6, <2>1, KeepPlan
<1> QED  BY <1>5, <1>6 DEF StatusArrives

LEMMA UserMidiPlan ==
    ASSUME ChainInv, PlanInv, UserMidi
    PROVE  PlanInv'
<1>1. /\ Start("midi", "none", uiQueue) /\ uiQueue \in Seq(Messages)
      /\ UNCHANGED <<session, importing, orphaned, polling, need, attempted>>
  BY Parts DEF ChainInv, LiveInv, ExecTyped, UserMidi, sessionVars, histVars, dialogVars, planVars
<1>2. "midi" \notin Main \cup {"add"} /\ "midi" \notin Lists
  BY DEF Main, Lists, Rank
<1>3. PlanDone' <=> PlanDone
  BY <1>1 DEF PlanDone
<1>4. ~orphaned' /\ session' = "up" => (Afterwards => PlanDone)
  BY <1>1 DEF PlanInv
<1> QED  BY <1>1, <1>2, <1>3, <1>4, StartPlan DEF Afterwards

LEMMA ImportEndsPlan ==
    ASSUME ChainInv, PlanInv, ImportEnds
    PROVE  PlanInv'
<1>1. /\ importing /\ uiQueue \in Seq(Messages)
      /\ UNCHANGED <<session, orphaned, need, attempted>>
  BY Parts DEF ChainInv, LiveInv, ExecTyped, ImportEnds, sessionVars, histVars, planVars
<1>2. ~orphaned' /\ session' = "up" => PlanDone /\ PlanDone'
  BY <1>1 DEF PlanInv, Afterwards, PlanDone
<1>3. CASE Start("info", "none", Silenced(uiQueue, StatusKinds))
  <2>1. Silenced(uiQueue, StatusKinds) \in Seq(Messages)
    BY <1>1, SilencedDead
  <2>2. "info" \notin Lists
    BY DEF Lists, Rank
  <2> QED  BY <1>2, <1>3, <2>1, <2>2, StartPlan
<1>4. CASE UNCHANGED <<DownloadState, execVars, uiQueue>>
  <2>1. Due' <=> Due
    BY <1>4 DEF Due, Telling, execVars
  <2> QED  BY <1>1, <1>2, <1>4, <2>1, KeepPlan
<1> QED  BY <1>3, <1>4 DEF ImportEnds

\* The plan of a new session.  Of the old one at most a melody is left.
LEMMA LoginPlan ==
    ASSUME ChainInv, NEW m \in Models, NEW plan \in SUBSET (Lists \cup {"main"}),
           Login(m, plan)
    PROVE  PlanInv'
<1> USE DEF ChainInv
<1> DEFINE s == NextStep(plan, 0)
<1>1. /\ session = "connecting" /\ session' = "up" /\ ~importing' /\ uiQueue \in Seq(Messages)
      /\ UNCHANGED orphaned /\ need' = plan /\ attempted' = {s}
  BY Parts DEF LiveInv, ExecTyped, Login, dialogVars
<1>2. ~orphaned => /\ ~polling /\ ~running.live /\ AllDead(uiQueue) /\ ~HasStatus(uiQueue)
                   /\ waiting # NoTask => waiting.step = "midi"
  BY <1>1 DEF PingInv, ConnectingInv
<1>3. /\ s = "none" => PlanDone'
      /\ s = "toc" => PlanDone'
      /\ s \in Lists => Reached(s)'
      /\ s \in Lists \cup {"toc", "none"}
  <2>1. \A g \in Lists : Rank[g] \in Nat \ {0}
    BY DEF Lists, Rank
  <2>2. "toc" \notin Lists /\ "none" \notin Lists
    BY DEF Lists, Rank
  <2>3. \A g \in plan \cap Lists : g \in Later(plan, 0)
    BY <2>1 DEF Later
  <2>4. CASE Later(plan, 0) = {}
    BY <1>1, <2>2, <2>3, <2>4 DEF NextStep, PlanDone
  <2>5. CASE Later(plan, 0) # {}
    <3>1. s \in Later(plan, 0) /\ \A g \in Later(plan, 0) : Rank[s] <= Rank[g]
      BY <2>5, FirstLater DEF NextStep
    <3>2. s \in Lists
      BY <3>1 DEF Later
    <3>3. ASSUME NEW g \in plan \cap Lists, Rank[g] <= Rank[s]
          PROVE  g = s
      <4>1. Rank[g] = Rank[s]
        BY <2>1, <2>3, <3>1, <3>2, <3>3
      <4> QED  BY <3>2, <4>1 DEF Lists, Rank
    <3> QED  BY <1>1, <2>2, <3>2, <3>3 DEF Reached
  <2> QED  BY <2>4, <2>5
<1>4. s \notin {"lyrics", "info", "add"}
  BY <1>3 DEF Lists, Rank
<1> HIDE DEF s
<1>5. CASE s # "none" /\ (\E p : Start(s, p, uiQueue)) /\ UNCHANGED polling
  BY <1>1, <1>2, <1>3, <1>4, <1>5, StartPlan DEF PlanInv, Main
<1>6. CASE s = "none" /\ UNCHANGED <<DownloadState, execVars, uiQueue>>
  <2>1. "midi" \notin Lists
    BY DEF Lists, Rank
  <2>2. ~orphaned /\ waiting # NoTask => DownloadState = "midi"
    BY <1>2 DEF LiveInv, WorkInv
  <2>3. ~orphaned => ~Telling(uiQueue)
    BY <1>2 DEF AllDead, Telling
  <2>4. ~orphaned /\ Due' => DownloadState' = "midi"
    BY <1>2, <1>6, <2>2, <2>3 DEF Due, Telling, execVars
  <2> QED  BY <1>1, <1>3, <1>6, <2>1, <2>4 DEF PlanInv
<1> QED  BY <1>5, <1>6 DEF Login, s

\* No step depends on anything else.
LEMMA OthersPlan ==
    ASSUME PlanInv,
           UNCHANGED <<orphaned, DownloadState, session, importing, polling, need, attempted,
                       waiting, running, pc, uiQueue>>
    PROVE  PlanInv'
BY DEF PlanInv, Afterwards, PlanDone, Reached, HasStatus, Due, Telling

LEMMA PlanStep == ChainInv /\ PlanInv /\ [Next]_vars => PlanInv'
<1> SUFFICES ASSUME ChainInv, PlanInv, [Next]_vars PROVE PlanInv'
  OBVIOUS
<1>1. CASE Worker
  BY <1>1, WorkerPlan
<1>2. CASE UserConnect \/ UserDisconnect \/ ConnectFails \/ Disconnected \/ PingAnswers
  <2>1. session' \in {"connecting", "off"}
    BY <1>2 DEF UserConnect, UserDisconnect, ConnectFails, Disconnected, PingAnswers,
       DefaultView, Disconnect
  <2> QED  BY <2>1 DEF PlanInv
<1>3. CASE AnswerBusy
  <2>1. CASE \E then \in {"connecting", "off"} : DefaultView(then)
    <3>1. session' # "up"
      BY <2>1 DEF DefaultView, Disconnect
    <3> QED  BY <3>1 DEF PlanInv
  <2>2. CASE UNCHANGED <<sessionVars, pingVars, taskVars, histVars, uiQueue>>
    BY <1>3, <2>2, OthersPlan DEF AnswerBusy, sessionVars, pingVars, taskVars, execVars,
       histVars, planVars
  <2> QED  BY <1>3, <2>1, <2>2 DEF AnswerBusy
<1>4. CASE DownloadFailed \/ HiddenDownloaded \/ ListDownloaded \/ OtherDownloaded
  BY <1>4, DownloadFailedPlan, ListsPlan, OtherDownloadedPlan
<1>5. CASE InvalidResponse
  <2>1. uiQueue # <<>> /\ Head(uiQueue).kind = "invalid"
    BY <1>5 DEF InvalidResponse, Delivers
  <2>2. Head(uiQueue).task.live
    <3>1. 1 \in 1 .. Len(uiQueue) /\ uiQueue[1] = Head(uiQueue)
      BY <2>1, HandledMessages, Parts DEF ChainInv, LiveInv
    <3> QED  BY <2>1, <3>1 DEF ChainInv, LiveInv, QueueInv, QueueOk, Results, ResultKinds
  <2> QED  BY <1>5, <2>1, <2>2, EndPlan DEF InvalidResponse, Quiet, taskVars, histVars,
              dialogVars, sessionVars, planVars
<1>6. CASE Cancelled
  <2>1. /\ uiQueue # <<>> /\ uiQueue' = Handled
        /\ UNCHANGED <<orphaned, DownloadState, session, importing, polling, need, attempted,
                       execVars>>
    BY <1>6 DEF Cancelled, Delivers, Quiet, taskVars, pingVars, dialogVars, histVars,
       sessionVars, planVars
  <2>2. (Due' => Due) /\ (HasStatus(uiQueue)' => HasStatus(uiQueue))
    BY <2>1, ReportEnds DEF ChainInv
  <2> QED  BY <2>1, <2>2, KeepPlan DEF Afterwards
<1>7. CASE StatusArrives
  BY <1>7, StatusArrivesPlan
<1>8. CASE StatusAsked
  BY <1>8, StatusAskedPlan
<1>9. CASE UserMidi
  BY <1>9, UserMidiPlan
<1>10. CASE ImportEnds
  BY <1>10, ImportEndsPlan
<1>11. CASE \E m \in Models, plan \in SUBSET (Lists \cup {"main"}) : Login(m, plan)
  BY <1>11, LoginPlan
<1>12. CASE PingBegins \/ PingInVain \/ (\E f \in Changing : BoxUpdates(f)) \/ UNCHANGED vars
  BY <1>12, OthersPlan DEF PingBegins, PingInVain, BoxUpdates, vars, pingFrame, sessionVars,
     pingVars, dialogVars, taskVars, execVars, histVars, planVars
<1> QED  BY <1>1, <1>2, <1>3, <1>4, <1>5, <1>6, <1>7, <1>8, <1>9, <1>10, <1>11, <1>12
         DEF Next, User, Deliver

\* A session that polls has tried everything that its login found to fetch, whichever
\* downloads failed or were interrupted on the way: every handler, for success and for
\* failure, finds the next list, and no other message starts the polling in between.
THEOREM PollingAfterThePlan == Spec => []PollingMeansAttempted
<1>1. ChainInv /\ PlanInv /\ [Next]_vars => ChainInv' /\ PlanInv'
  BY LiveStep, OrderStep, PingStep, PlanStep DEF ChainInv
<1>2. PlanInv => PollingMeansAttempted
  BY DEF PlanInv, PollingMeansAttempted, Afterwards, PlanDone
<1> QED  BY <1>1, <1>2, ChainInit, PlanInit, PTL DEF Spec

-----------------------------------------------------------------------------
(* No session is left with nothing to come.                                *)

\* A session that has inherited nothing and does not poll yet.
Resting == session = "up" /\ ~polling /\ inherited = {}

\* Of any session: a queued download can report, statuses come of a polling only, and
\* a session's import follows its LYRICS.
StillInv ==
    /\ waiting # NoTask => waiting.live
    /\ ~polling => ~HasStatus(uiQueue)
    /\ session = "up" => intSvrModel # "none"
    /\ importing /\ session = "up" => DownloadState = "lyrics" /\ ~polling /\ ~serverStatus

\* Until it polls, a session fetches its chain only, and no list for a status.
RestInv ==
    Resting =>
        /\ ~serverStatus /\ DownloadState \in Lists \cup Main
        /\ DownloadState \in Lists => ~flagDownloadingHidden /\ ~flagDownloadingDD
        /\ asking = "info" => importing \/ DownloadState = "info"
        /\ asking = "toc" \/ Underway \/ importing \/ allowTimerPing

MoveInv == StillInv /\ RestInv

LEMMA MoveInit == Init => MoveInv
<1>1. ~HasStatus(<<>>)
  BY DEF HasStatus
<1> QED  BY <1>1 DEF Init, MoveInv, StillInv, RestInv, Resting

LEMMA ListNames ==
    /\ Lists = {"yt", "offline", "luckyData", "luckyImage", "hidden", "samba"}
    /\ Main = {"toc", "lyrics", "info"} /\ Lists \cap Main = {}
BY DEF Lists, Rank, Main

\* A step that at most ends what is under way, and then lets the timer thread in.
LEMMA KeepMoves ==
    ASSUME MoveInv,
           UNCHANGED <<session, intSvrModel, inherited, polling, serverStatus, importing,
                       asking, DownloadState, flagVars>>,
           waiting' # NoTask => waiting'.live,
           HasStatus(uiQueue)' => HasStatus(uiQueue) \/ polling,
           Underway => Underway' \/ allowTimerPing', allowTimerPing => allowTimerPing'
    PROVE  MoveInv'
BY DEF MoveInv, StillInv, RestInv, Resting, flagVars

\* A download is started.
LEMMA StartMoves ==
    ASSUME NEW s, NEW p, NEW q \in Seq(Messages), Start(s, p, q),
           ~polling' => ~HasStatus(q), session' = "up" => intSvrModel' # "none",
           importing' /\ session' = "up" => s = "lyrics" /\ ~polling' /\ ~serverStatus',
           Resting' =>
              /\ ~serverStatus' /\ s \in Lists \cup Main
              /\ s \in Lists => ~flagDownloadingHidden' /\ ~flagDownloadingDD'
              /\ asking' = "info" => importing' \/ s = "info"
    PROVE  MoveInv'
<1>1. DownloadState' = s /\ waiting' = Task(s, p) /\ waiting'.live /\ waiting' # NoTask
  BY DEF Start, Task, NoTask
<1>2. HasStatus(uiQueue)' => HasStatus(q)
  BY SilencedStatus DEF Start
<1>3. Underway'
  BY <1>1 DEF Underway
<1> QED  BY <1>1, <1>2, <1>3 DEF MoveInv, StillInv, RestInv

\* The session is closed.
LEMMA CloseMoves ==
    ASSUME NEW then \in {"off", "connecting"}, Disconnect(then), NEW q \in Seq(Messages),
           uiQueue' = Silenced(q, ResultKinds \cup StatusKinds)
    PROVE  MoveInv'
<1>1. ~HasStatus(uiQueue)'
  BY SilencedStatus
<1>2. session' # "up" /\ waiting' = NoTask
  BY DEF Disconnect
<1> QED  BY <1>1, <1>2 DEF MoveInv, StillInv, RestInv, Resting

\* A report has been handled: nothing started, and the session polls, asks or rests as before.
LEMMA EndMoves ==
    ASSUME TypeOK, MoveInv, uiQueue # <<>>, uiQueue' = Handled, UNCHANGED execVars,
           UNCHANGED <<session, intSvrModel, inherited, importing>>, polling => polling',
           importing /\ session = "up" =>
              UNCHANGED <<DownloadState, polling, serverStatus>>,
           Resting' =>
              /\ UNCHANGED <<DownloadState, serverStatus, flagVars, allowTimerPing>>
              /\ importing \/ asking' = "toc"
              /\ asking' \in {asking, "toc"}
    PROVE  MoveInv'
<1>1. HasStatus(Handled) => HasStatus(uiQueue)
  BY HandledStatus
<1>2. StillInv'
  BY <1>1 DEF MoveInv, StillInv, execVars
<1>3. Resting' => Resting
  BY DEF Resting
<1>4. RestInv'
  BY <1>3 DEF MoveInv, RestInv, Resting, flagVars
<1> QED  BY <1>2, <1>4 DEF MoveInv

\* The next list is for the box of the session, so Continue starts it.
LEMMA ContinueMoves ==
    ASSUME TypeOK, NeedInv, MoveInv, uiQueue # <<>>, DownloadState \in Lists,
           NEW s, s = NextStep(need, Rank[DownloadState]), s # "none",
           NEW d, NEW spoilt, NEW savePath, NEW failed,
           Continue(s, d, spoilt, savePath, failed),
           UNCHANGED <<session, intSvrModel, inherited, importing, polling, serverStatus,
                       asking, flagDownloadingDD>>,
           flagDownloadingHidden' \in {flagDownloadingHidden, FALSE}
    PROVE  MoveInv'
<1>1. s \in Files \cup {"toc"} /\ (s \in Files => s \in need)
  BY NextLater
<1>2. s \in Lists \cup Main /\ s \notin {"lyrics", "info"}
  BY <1>1, FilesAreLists, ListNames
<1>3. ~(importing /\ session = "up")
  BY ListNames DEF MoveInv, StillInv
<1>4. Resting' <=> Resting
  BY DEF Resting
<1>5. CASE s \in {"luckyData", "luckyImage"} /\ intSvrModel # "SMARTK" /\ Quiet
  <2>1. ~Resting
    <3>1. SUFFICES ASSUME Resting PROVE FALSE
      OBVIOUS
    <3>2. intSvrModel \in Models /\ intSvrModel = "SONCA"
      BY <1>5, <3>1, DownloadChainAssumption DEF MoveInv, StillInv, Resting, TypeOK
    <3>3. FilesOf[intSvrModel] \subseteq {"yt", "offline", "hidden"}
      BY <3>2, DownloadChainAssumption
    <3>4. s \in FilesOf[intSvrModel] \cup {"main"}
      BY <1>1, <1>5, <3>2, DownloadChainAssumption DEF NeedInv
    <3> QED  BY <1>5, <3>3, <3>4
  <2> QED  BY <1>3, <1>4, <1>5, <2>1, EndMoves DEF Quiet, taskVars
<1>6. CASE \E p : Start(s, p, Handled)
  <2>1. Handled \in Seq(Messages) /\ (HasStatus(Handled) => HasStatus(uiQueue))
    BY HandledStatus
  <2>2. Resting' =>
           /\ ~serverStatus' /\ ~flagDownloadingHidden' /\ ~flagDownloadingDD'
           /\ asking' # "info"
    BY <1>3, <1>4, ListNames DEF MoveInv, RestInv, Resting
  <2>3. (~polling => ~HasStatus(uiQueue)) /\ (session = "up" => intSvrModel # "none")
    BY DEF MoveInv, StillInv
  <2>4. PICK p : Start(s, p, Handled)
    BY <1>6
  <2> QED  BY <1>2, <1>3, <2>1, <2>2, <2>3, <2>4, StartMoves
<1> QED  BY <1>5, <1>6 DEF Continue

LEMMA DownloadFailedMoves ==
    ASSUME ChainInv, NeedInv, MoveInv, DownloadFailed
    PROVE  MoveInv'
<1> DEFINE s == NextStep(need, Rank[DownloadState])
           single == \/ DownloadState = "hidden" /\ flagDownloadingHidden
                     \/ DownloadState = "offline" /\ flagDownloadingDD
<1>1. TypeOK /\ uiQueue # <<>>
      /\ UNCHANGED <<session, intSvrModel, inherited, importing, serverStatus>>
  BY DEF ChainInv, LiveInv, DownloadFailed, Delivers, sessionVars, planVars
<1>2. importing /\ session = "up" => DownloadState = "lyrics"
  BY DEF MoveInv, StillInv
<1>3. Resting => DownloadState \in Lists \cup Main /\ ~single
  BY ListNames DEF MoveInv, RestInv
<1>4. polling' = polling => (Resting' <=> Resting)
  BY <1>1 DEF Resting
<1>5. CASE /\ DownloadState = "midi" \/ (DownloadState \in Lists /\ single)
           /\ uiQueue' = Handled /\ UNCHANGED <<execVars, polling>>
  <2>1. ~Resting' /\ ~(importing /\ session = "up")
    BY <1>2, <1>3, <1>4, <1>5, ListNames
  <2> QED  BY <1>1, <1>5, <2>1, EndMoves
<1>6. CASE /\ DownloadState \in Lists /\ s # "none"
           /\ Continue(s, disk, suspect, Head(uiQueue).task.path, TRUE)
           /\ UNCHANGED <<polling, flagVars, asking>>
  BY <1>1, <1>6, ContinueMoves DEF flagVars
<1>7. CASE DownloadState \in Lists \cup {"add", "info"} /\ polling' = TRUE /\ Quiet
  <2>1. ~Resting' /\ ~(importing /\ session = "up")
    BY <1>2, <1>7, ListNames DEF Resting
  <2> QED  BY <1>1, <1>7, <2>1, EndMoves DEF Quiet, taskVars
<1>8. CASE /\ DownloadState \in {"toc", "lyrics", "idle"} /\ Quiet
           /\ asking' = IF asking = "none" THEN "toc" ELSE asking
           /\ UNCHANGED <<polling, allowTimerPing, flagVars>>
  <2>1. asking \in {"none", "toc", "info"}
    BY <1>1 DEF TypeOK
  <2>2. Resting' => (asking = "info" => importing)
    BY <1>4, <1>8 DEF MoveInv, RestInv
  <2> QED  BY <1>1, <1>8, <2>1, <2>2, EndMoves DEF Quiet, taskVars
<1> QED  BY <1>5, <1>6, <1>7, <1>8, ListNames DEF DownloadFailed, ProcessHinh, Quiet, taskVars

\* A list has been fetched, and none for a status: Continue or the end of the plan.
LEMMA ListsMoves ==
    ASSUME ChainInv, NeedInv, MoveInv, HiddenDownloaded \/ ListDownloaded
    PROVE  MoveInv'
<1>1. /\ TypeOK /\ uiQueue # <<>> /\ DownloadState \in Lists
      /\ UNCHANGED <<session, intSvrModel, inherited, importing, asking>>
  BY ListNames DEF ChainInv, LiveInv, HiddenDownloaded, ListDownloaded, Delivers, sessionVars,
     planVars, dialogVars
<1>2. ~(importing /\ session = "up")
  BY <1>1, ListNames DEF MoveInv, StillInv
<1>3. CASE /\ flagDownloadingHidden \/ flagDownloadingDD
           /\ Quiet /\ UNCHANGED polling
  <2>1. ~Resting'
    BY <1>1, <1>3 DEF MoveInv, RestInv, Resting
  <2> QED  BY <1>1, <1>2, <1>3, <2>1, EndMoves DEF Quiet, taskVars
<1>4. CASE /\ \E d, spoilt : ListDone(d, spoilt)
           /\ flagDownloadingHidden' \in {flagDownloadingHidden, FALSE}
           /\ UNCHANGED flagDownloadingDD
  <2>1. CASE /\ NextStep(need, Rank[DownloadState]) # "none"
             /\ UNCHANGED <<polling, serverStatus>>
             /\ \E d, spoilt, savePath, failed :
                 Continue(NextStep(need, Rank[DownloadState]), d, spoilt, savePath, failed)
    BY <1>1, <1>4, <2>1, ContinueMoves
  <2>2. CASE polling' = TRUE /\ Quiet
    <3>1. ~Resting'
      BY <2>2 DEF Resting
    <3> QED  BY <1>1, <1>2, <2>2, <3>1, EndMoves DEF Quiet, taskVars
  <2> QED  BY <1>4, <2>1, <2>2 DEF ListDone
<1>5. CASE HiddenDownloaded
  BY <1>3, <1>4, <1>5 DEF HiddenDownloaded
<1>6. CASE ListDownloaded
  BY <1>3, <1>4, <1>6 DEF ListDownloaded
<1> QED  BY <1>5, <1>6

LEMMA OtherDownloadedMoves ==
    ASSUME ChainInv, MoveInv, OtherDownloaded
    PROVE  MoveInv'
<1>1. /\ TypeOK /\ uiQueue # <<>>
      /\ UNCHANGED <<session, intSvrModel, inherited, asking, flagVars>>
  BY DEF ChainInv, LiveInv, OtherDownloaded, Delivers, sessionVars, planVars
<1>2. Handled \in Seq(Messages) /\ (HasStatus(Handled) => HasStatus(uiQueue))
  BY <1>1, HandledStatus
<1>3. importing /\ session = "up" => DownloadState = "lyrics"
  BY DEF MoveInv, StillInv
<1>4. polling' = polling => (Resting' <=> Resting)
  BY <1>1 DEF Resting
<1>5. CASE /\ DownloadState = "toc" /\ Start("lyrics", "none", Handled)
           /\ UNCHANGED <<polling, serverStatus, importing>>
  <2>1. ~(importing /\ session = "up")
    BY <1>3, <1>5
  <2>2. Resting' => ~serverStatus' /\ asking' # "info"
    BY <1>1, <1>4, <1>5, <2>1 DEF MoveInv, RestInv, Resting
  <2>3. "lyrics" \in Main /\ "lyrics" \notin Lists
    BY ListNames
  <2>4. (~polling => ~HasStatus(uiQueue)) /\ (session = "up" => intSvrModel # "none")
    BY DEF MoveInv, StillInv
  <2> QED  BY <1>1, <1>2, <1>5, <2>1, <2>2, <2>3, <2>4, StartMoves
<1>6. CASE /\ DownloadState = "lyrics" /\ importing' = TRUE
           /\ polling' = FALSE /\ serverStatus' = FALSE
           /\ uiQueue' = Silenced(Handled, StatusKinds) /\ UNCHANGED taskVars
  <2>1. ~HasStatus(uiQueue)'
    BY <1>2, <1>6, SilencedStatus
  <2>2. "lyrics" \in Main /\ "lyrics" \notin Lists
    BY ListNames
  <2> QED  BY <1>1, <1>6, <2>1, <2>2 DEF MoveInv, StillInv, RestInv, taskVars, execVars
<1>7. CASE /\ DownloadState \in {"info", "idle"} /\ polling' = TRUE /\ Quiet
           /\ UNCHANGED <<serverStatus, importing>>
  <2>1. ~Resting' /\ ~(importing /\ session = "up")
    BY <1>3, <1>7 DEF Resting
  <2> QED  BY <1>1, <1>7, <2>1, EndMoves DEF Quiet, taskVars
<1>8. CASE /\ DownloadState \in {"add", "midi"}
           /\ uiQueue' = Handled /\ UNCHANGED <<execVars, polling, serverStatus, importing>>
  <2>1. ~Resting'
    BY <1>4, <1>8, ListNames DEF MoveInv, RestInv
  <2>2. ~(importing /\ session = "up")
    BY <1>3, <1>8
  <2> QED  BY <1>1, <1>8, <2>1, <2>2, EndMoves
<1> QED  BY <1>5, <1>6, <1>7, <1>8 DEF OtherDownloaded, ProcessHinh, Quiet, taskVars, pingVars

\* The executor goes on with what is under way or reports it.
LEMMA WorkerMoves ==
    ASSUME ChainInv, MoveInv, Worker
    PROVE  MoveInv'
<1>1. /\ UNCHANGED <<session, intSvrModel, inherited, polling, serverStatus, importing,
                     asking, DownloadState, flagVars, allowTimerPing>>
  BY DEF Worker, StartDownload, ExchangeLost, Refused, Empty, HeaderArrives, BodyComplete,
     StrayComplete, BodyShort, BodyThrows, ReturnsInvalid, Ends, workerFrame, sessionVars,
     pingVars,
     planVars, dialogVars
<1>2. ~NoTask.live /\ (waiting # NoTask => waiting.live)
  BY DEF NoTask, MoveInv, StillInv
<1>3. CASE StartDownload
  <2>1. Underway' /\ waiting' = NoTask /\ uiQueue' = uiQueue
    BY <1>2, <1>3 DEF StartDownload, Underway
  <2> QED  BY <1>1, <2>1, KeepMoves DEF HasStatus
<1>4. CASE HeaderArrives
  <2>1. UNCHANGED <<waiting, running, uiQueue>>
    BY <1>4 DEF HeaderArrives, workerFrame
  <2> QED  BY <1>1, <1>2, <2>1, KeepMoves DEF HasStatus, Underway
<1>5. CASE ExchangeLost \/ Refused \/ Empty \/ BodyComplete \/ StrayComplete \/ BodyShort
           \/ BodyThrows \/ ReturnsInvalid
  <2>1. PICK k \in ResultKinds \cup {"failed"} :
           /\ Report(k) /\ waiting' = waiting
           /\ running' = NoTask \/ (running' = running /\ pc' = "failed")
           /\ k \in Tells => pc # "failed"
    BY <1>5 DEF ExchangeLost, Refused, Empty, BodyComplete, StrayComplete, BodyShort,
       BodyThrows, ReturnsInvalid, Ends, workerFrame, ResultKinds, Tells
  <2>2. CASE ~running.live
    <3>1. uiQueue' = uiQueue /\ ~running'.live
      BY <1>2, <2>1, <2>2 DEF Report
    <3>2. Underway => Underway'
      BY <2>1, <2>2, <3>1 DEF Underway
    <3> QED  BY <1>1, <1>2, <2>1, <3>1, <3>2, KeepMoves DEF HasStatus
  <2>3. CASE running.live
    <3>1. /\ Len(uiQueue') = Len(uiQueue) + 1 /\ Len(uiQueue) \in Nat
          /\ uiQueue'[Len(uiQueue) + 1] = [kind |-> k, task |-> running]
          /\ \A i \in 1 .. Len(uiQueue) : uiQueue'[i] = uiQueue[i]
      BY <2>1, <2>3, ReportInv, Parts DEF ChainInv, ExecTyped, LiveInv, Tells
    <3>2. k \notin StatusKinds
      BY DEF ResultKinds, StatusKinds
    <3>3. HasStatus(uiQueue)' => HasStatus(uiQueue)
      BY <3>1, <3>2 DEF HasStatus
    <3>4. Len(uiQueue) + 1 \in DOMAIN uiQueue'
      <4>1. uiQueue' = Append(uiQueue, [kind |-> k, task |-> running])
        BY <2>1, <2>3 DEF Report
      <4>2. uiQueue \in Seq(Messages)
        BY Parts DEF ChainInv, LiveInv, ExecTyped
      <4> QED  BY <4>1, <4>2
    <3>5. Underway'
      BY <2>3, <3>1, <3>4 DEF Underway
    <3> QED  BY <1>1, <1>2, <2>1, <3>3, <3>5, KeepMoves
  <2> QED  BY <2>2, <2>3
<1> QED  BY <1>3, <1>4, <1>5 DEF Worker

\* A message that is no report, or that tells nothing but to let the timer thread in.
LEMMA SilentMoves ==
    ASSUME ChainInv, MoveInv, Cancelled \/ InvalidResponse
    PROVE  MoveInv'
<1>1. /\ uiQueue # <<>> /\ uiQueue' = Handled
      /\ UNCHANGED <<session, intSvrModel, inherited, polling, serverStatus, importing,
                     asking, DownloadState, flagVars, execVars>>
      /\ allowTimerPing => allowTimerPing'
  BY DEF Cancelled, InvalidResponse, Delivers, Quiet, taskVars, sessionVars, pingVars,
     planVars, dialogVars
<1>2. HasStatus(Handled) => HasStatus(uiQueue)
  BY <1>1, HandledStatus DEF ChainInv, LiveInv
<1>3. waiting # NoTask => waiting.live
  BY DEF MoveInv, StillInv
<1>4. CASE InvalidResponse
  BY <1>1, <1>2, <1>3, <1>4, KeepMoves DEF InvalidResponse, execVars
<1>5. CASE Cancelled
  <2>1. /\ Len(uiQueue) \in Nat \ {0} /\ Len(Handled) = Len(uiQueue) - 1
        /\ Head(uiQueue) = uiQueue[1]
        /\ \A i \in 1 .. Len(Handled) :
              Handled[i] = uiQueue[i + 1] /\ i + 1 \in 1 .. Len(uiQueue)
    BY <1>1, HandledMessages, Parts DEF ChainInv, LiveInv
  <2>2. DOMAIN uiQueue = 1 .. Len(uiQueue) /\ DOMAIN Handled = 1 .. Len(Handled)
    <3>1. uiQueue \in Seq(Messages) /\ Handled \in Seq(Messages)
      BY <1>1, HandledTyped, Parts DEF ChainInv, LiveInv, ExecTyped
    <3> QED  BY <3>1
  <2>3. uiQueue[1].kind \notin ResultKinds \cup {"failed"}
    BY <1>5, <2>1 DEF Cancelled, Delivers, ResultKinds
  <2>4. ASSUME NEW i \in DOMAIN uiQueue, uiQueue[i].kind \in ResultKinds \cup {"failed"}
        PROVE  i - 1 \in DOMAIN Handled /\ Handled[i - 1] = uiQueue[i]
    <3>1. i # 1 /\ i \in 1 .. Len(uiQueue)
      BY <2>2, <2>3, <2>4
    <3>2. i - 1 \in 1 .. Len(Handled) /\ (i - 1) + 1 = i
      BY <2>1, <3>1
    <3>3. Handled[i - 1] = uiQueue[(i - 1) + 1]
      BY <2>1, <3>2
    <3> QED  BY <2>2, <3>2, <3>3
  <2>5. Underway => Underway'
    BY <1>1, <2>4 DEF Underway, execVars
  <2> QED  BY <1>1, <1>2, <1>3, <2>5, KeepMoves DEF execVars
<1> QED  BY <1>4, <1>5

\* Statuses come of a polling, which they leave as it is.
LEMMA StatusMoves ==
    ASSUME ChainInv, MoveInv, StatusAsked \/ StatusArrives
    PROVE  MoveInv'
<1>1. uiQueue \in Seq(Messages) /\ TypeOK
  BY Parts DEF ChainInv, LiveInv, ExecTyped
<1>2. CASE StatusAsked
  <2>1. /\ polling
        /\ UNCHANGED <<session, intSvrModel, inherited, polling, serverStatus, importing,
                       asking, DownloadState, waiting>>
    BY <1>2 DEF StatusAsked, workerFrame, sessionVars, pingVars, planVars, dialogVars
  <2> QED  BY <2>1 DEF MoveInv, StillInv, RestInv, Resting
<1>3. CASE StatusArrives
  <2>1. /\ uiQueue # <<>> /\ Head(uiQueue).kind = "status"
        /\ UNCHANGED <<session, intSvrModel, importing, polling>>
    BY <1>3 DEF StatusArrives, Delivers, sessionVars, dialogVars
  <2>2. HasStatus(uiQueue)
    <3>1. 1 \in 1 .. Len(uiQueue) /\ uiQueue[1] = Head(uiQueue)
      BY <1>1, <2>1, HandledMessages, Parts
    <3> QED  BY <2>1, <3>1 DEF HasStatus, StatusKinds
  <2>3. /\ polling /\ polling' /\ ~Resting'
        /\ ~(importing' /\ session' = "up")
        /\ session' = "up" => intSvrModel' # "none"
    BY <2>1, <2>2 DEF MoveInv, StillInv, Resting
  <2>4. CASE \E s, p : Start(s, p, Handled)
    <3>1. Handled \in Seq(Messages)
      BY <1>1, <2>1, HandledTyped, Parts
    <3> QED  BY <2>3, <2>4, <3>1, StartMoves
  <2>5. CASE UNCHANGED execVars
    BY <2>3, <2>5 DEF MoveInv, StillInv, RestInv, execVars
  <2> QED  BY <1>3, <2>4, <2>5 DEF StatusArrives
<1> QED  BY <1>2, <1>3

\* The player's melody: only with a status, which a resting session has not.
LEMMA UserMidiMoves ==
    ASSUME ChainInv, MoveInv, UserMidi
    PROVE  MoveInv'
<1>1. /\ Start("midi", "none", uiQueue) /\ uiQueue \in Seq(Messages) /\ serverStatus
      /\ UNCHANGED <<session, intSvrModel, importing, polling, inherited>>
  BY Parts DEF ChainInv, LiveInv, ExecTyped, UserMidi, sessionVars, dialogVars, planVars
<1>2. ~Resting'
  BY <1>1 DEF MoveInv, RestInv, Resting
<1>3. ~(importing /\ session = "up")
  BY <1>1 DEF MoveInv, StillInv
<1> QED  BY <1>1, <1>2, <1>3, StartMoves DEF MoveInv, StillInv

\* After the import the session polls or fetches its list of pictures.
LEMMA ImportEndsMoves ==
    ASSUME ChainInv, MoveInv, ImportEnds
    PROVE  MoveInv'
<1>1. /\ importing /\ ~importing' /\ uiQueue \in Seq(Messages)
      /\ UNCHANGED <<session, intSvrModel, serverStatus>>
  BY Parts DEF ChainInv, LiveInv, ExecTyped, ImportEnds, sessionVars
<1>2. CASE /\ polling' = FALSE
           /\ Start("info", "none", Silenced(uiQueue, StatusKinds))
  <2>1. /\ Silenced(uiQueue, StatusKinds) \in Seq(Messages)
        /\ ~HasStatus(Silenced(uiQueue, StatusKinds))
    BY <1>1, SilencedDead, SilencedStatus
  <2>2. "info" \in Main /\ "info" \notin Lists
    BY ListNames
  <2>3. /\ session' = "up" => intSvrModel' # "none"
        /\ Resting' => ~serverStatus'
    BY <1>1 DEF MoveInv, StillInv, Resting
  <2> QED  BY <1>1, <1>2, <2>1, <2>2, <2>3, StartMoves
<1>3. CASE polling' = TRUE /\ UNCHANGED <<DownloadState, execVars, uiQueue>>
  BY <1>1, <1>3 DEF MoveInv, StillInv, RestInv, Resting, execVars
<1> QED  BY <1>2, <1>3 DEF ImportEnds, ProcessHinh

\* A new session that has inherited nothing has its first download, or polls.
LEMMA LoginMoves ==
    ASSUME ChainInv, MoveInv, NEW m \in Models, NEW plan \in SUBSET (Lists \cup {"main"}),
           Login(m, plan)
    PROVE  MoveInv'
<1> DEFINE s == NextStep(plan, 0)
<1>1. /\ session' = "up" /\ intSvrModel' = m /\ ~importing' /\ uiQueue \in Seq(Messages)
      /\ ~flagDownloadingDD' /\ UNCHANGED <<asking, flagDownloadingHidden>>
  BY Parts DEF ChainInv, LiveInv, ExecTyped, Login, dialogVars
<1>2. m # "none"
  BY DownloadChainAssumption
<1>3. inherited' = {} => ~flagDownloadingHidden /\ ~serverStatus /\ asking = "none"
  BY DEF Login, Inheritable
<1>4. s # "none" => s \in Lists \cup Main
  <2>1. CASE Later(plan, 0) # {}
    BY <2>1, FirstLater DEF NextStep, Later
  <2>2. CASE Later(plan, 0) = {}
    BY <2>2, ListNames DEF NextStep
  <2> QED  BY <2>1, <2>2
<1>5. ~polling => ~HasStatus(uiQueue)
  BY DEF MoveInv, StillInv
<1> HIDE DEF s
<1>6. CASE /\ s # "none" /\ (\E p : Start(s, p, uiQueue))
           /\ UNCHANGED <<polling, serverStatus>>
  BY <1>1, <1>2, <1>3, <1>4, <1>5, <1>6, StartMoves DEF Resting
<1>7. CASE polling' = TRUE /\ UNCHANGED <<DownloadState, execVars, uiQueue>>
  BY <1>1, <1>2, <1>7 DEF MoveInv, StillInv, RestInv, Resting, execVars
<1> QED  BY <1>6, <1>7 DEF Login, s

LEMMA MoveStep == ChainInv /\ NeedInv /\ MoveInv /\ [Next]_vars => MoveInv'
<1> SUFFICES ASSUME ChainInv, NeedInv, MoveInv, [Next]_vars PROVE MoveInv'
  OBVIOUS
<1>1. /\ uiQueue \in Seq(Messages) /\ (uiQueue # <<>> => Handled \in Seq(Messages))
      /\ waiting # NoTask => waiting.live
  BY HandledTyped, Parts DEF ChainInv, LiveInv, ExecTyped, MoveInv, StillInv
<1>2. CASE UserConnect \/ UserDisconnect \/ ConnectFails \/ Disconnected \/ PingAnswers
  BY <1>1, <1>2, CloseMoves DEF UserConnect, UserDisconnect, ConnectFails, Disconnected,
     Delivers, PingAnswers, DefaultView
<1>3. CASE AnswerBusy
  <2>1. CASE /\ \E then \in {"connecting", "off"} : DefaultView(then)
             /\ uiQueue' = Silenced(uiQueue, ResultKinds \cup StatusKinds)
    BY <1>1, <2>1, CloseMoves DEF DefaultView
  <2>2. CASE asking = "info" /\ UNCHANGED <<sessionVars, pingVars, taskVars, histVars, uiQueue>>
    <3>1. /\ asking' = "none" /\ ~importing /\ uiQueue' = uiQueue
          /\ UNCHANGED <<session, intSvrModel, inherited, polling, serverStatus, importing,
                         DownloadState, flagVars, allowTimerPing, waiting, running>>
      BY <1>3, <2>2 DEF AnswerBusy, sessionVars, pingVars, taskVars, execVars, planVars
    <3> QED  BY <2>2, <3>1 DEF MoveInv, StillInv, RestInv, Resting, Underway, HasStatus,
                flagVars
  <2> QED  BY <1>3, <2>1, <2>2 DEF AnswerBusy
<1>4. CASE PingBegins \/ PingInVain \/ (\E f \in Changing : BoxUpdates(f)) \/ UNCHANGED vars
  <2>1. UNCHANGED <<session, intSvrModel, inherited, polling, serverStatus, importing, asking,
                    DownloadState, flagVars, allowTimerPing, waiting, running, uiQueue>>
    BY <1>4 DEF PingBegins, PingInVain, BoxUpdates, vars, pingFrame, sessionVars, pingVars,
       dialogVars, taskVars, execVars, planVars
  <2> QED  BY <1>1, <2>1, KeepMoves DEF Underway, HasStatus
<1>5. CASE Worker \/ DownloadFailed \/ HiddenDownloaded \/ ListDownloaded \/ OtherDownloaded
  BY <1>5, WorkerMoves, DownloadFailedMoves, ListsMoves, OtherDownloadedMoves
<1>6. CASE InvalidResponse \/ Cancelled \/ StatusArrives \/ StatusAsked
  BY <1>6, SilentMoves, StatusMoves
<1>7. CASE UserMidi \/ ImportEnds
  BY <1>7, UserMidiMoves, ImportEndsMoves
<1>8. CASE \E m \in Models, plan \in SUBSET (Lists \cup {"main"}) : Login(m, plan)
  BY <1>8, LoginMoves
<1> QED  BY <1>2, <1>3, <1>4, <1>5, <1>6, <1>7, <1>8 DEF Next, User, Deliver

\* A session that neither polls nor asks always has something to come, whatever fails in
\* it and in whichever order it is reported: a handler starts the next download, asks,
\* starts the polling or the import, or lets the timer thread in, which finds no status.
THEOREM NoSessionIsAbandoned == Spec => []ChainNeverStuck
<1>1. ChainInv /\ FilesInv /\ MoveInv /\ [Next]_vars => ChainInv' /\ FilesInv' /\ MoveInv'
  BY LiveStep, OrderStep, PingStep, FilesStep, MoveStep DEF ChainInv, FilesInv, DiskInv
<1>2. MoveInv => ChainNeverStuck
  BY DEF MoveInv, RestInv, Resting, ChainNeverStuck
<1> QED  BY <1>1, <1>2, ChainInit, FilesInit, MoveInit, PTL DEF Spec
=============================================================================
