------------------------ MODULE DownloadChainProofs ------------------------
(***************************************************************************)
(* Proofs about DownloadChain, for any boxes, lists, versions and number of *)
(* sessions, and a queue of any length.                                     *)
(*                                                                          *)
(* Four layers, each inductive on top of the one before: the types; whose   *)
(* report DownloadState is about (LiveInv: at most one download has a       *)
(* result to come); who may let the timer thread in (OrderInv and PingInv:  *)
(* while a chain is to be continued, nothing in the queue turns             *)
(* allowTimerPing on); and what a ping finds in the session it began in     *)
(* (SpareInv).                                                              *)
(***************************************************************************)
EXTENDS DownloadChain, TLAPS

\* TypeOK in five parts, so that a step is asked only about what it changes.
ControlTyped ==
    /\ session \in {"off", "connecting", "up"} /\ intSvrModel \in Models \cup {"none"}
    /\ serverStatus \in BOOLEAN /\ polling \in BOOLEAN
    /\ allowTimerPing \in BOOLEAN /\ pinging \in 0 .. MaxLogins
    /\ inherited \subseteq Inheritable
    /\ orphaned \in BOOLEAN /\ logins \in 0 .. MaxLogins
    /\ flagDownloadingHidden \in BOOLEAN /\ flagDownloadingDD \in BOOLEAN
    /\ importing \in BOOLEAN /\ asking \in {"none", "toc", "info"}

VersionsTyped ==
    /\ boxVersion \in [Files -> 0 .. MaxVersion]
    /\ toSave \in [Files -> 0 .. MaxVersion]
    /\ listed \in 0 .. MaxVersion /\ saved \in [Files -> 0 .. MaxVersion]

DiskTyped == disk \in [Paths -> Contents] /\ suspect \subseteq Files

PlanTyped ==
    /\ need \subseteq Files \cup {"main"}
    /\ attempted \subseteq Steps \cup {"none"}

ExecTyped ==
    /\ DownloadState \in Steps \cup {"idle"}
    /\ waiting \in Tasks /\ running \in Tasks
    /\ pc \in {"idle", "exchange", "body", "failed"}
    /\ uiQueue \in Seq(Messages)

LEMMA Parts ==
    /\ TypeOK <=> ControlTyped /\ VersionsTyped /\ DiskTyped /\ PlanTyped /\ ExecTyped
    /\ TypeOK' <=> /\ ControlTyped' /\ VersionsTyped' /\ DiskTyped'
                   /\ PlanTyped' /\ ExecTyped'
BY DEF TypeOK, ControlTyped, VersionsTyped, DiskTyped, PlanTyped, ExecTyped

LEMMA FilesAreLists ==
    /\ Files \subseteq Lists
    /\ \A m \in Models : FilesOf[m] \subseteq Files
    /\ "main" \notin Files /\ "none" \notin Files /\ "none" \notin Paths
BY DownloadChainAssumption DEF Files, Lists, Rank, Models, Paths

LEMMA FirstLater ==
    ASSUME NEW plan, NEW r \in Nat, Later(plan, r) # {}
    PROVE  \E f \in Later(plan, r) : \A g \in Later(plan, r) : Rank[f] <= Rank[g]
<1>1. /\ Later(plan, r) \subseteq Lists
      /\ Lists = {"yt", "offline", "luckyData", "luckyImage", "hidden", "samba"}
  BY DEF Later, Lists, Rank
<1> DEFINE L == Later(plan, r)
<1>2. CASE "yt" \in L
  BY <1>1, <1>2 DEF Rank
<1>3. CASE "yt" \notin L /\ "offline" \in L
  BY <1>1, <1>3 DEF Rank
<1>4. CASE {"yt", "offline"} \cap L = {} /\ "luckyData" \in L
  BY <1>1, <1>4 DEF Rank
<1>5. CASE {"yt", "offline", "luckyData"} \cap L = {} /\ "luckyImage" \in L
  BY <1>1, <1>5 DEF Rank
<1>6. CASE {"yt", "offline", "luckyData", "luckyImage"} \cap L = {} /\ "hidden" \in L
  BY <1>1, <1>6 DEF Rank
<1>7. CASE L \subseteq {"samba"}
  BY <1>1, <1>7 DEF Rank
<1> QED  BY <1>1, <1>2, <1>3, <1>4, <1>5, <1>6, <1>7

LEMMA NextStepTyped ==
    ASSUME NEW plan, plan \subseteq Files \cup {"main"}, NEW r \in Nat
    PROVE  /\ NextStep(plan, r) \in Files \cup {"toc", "none"}
           /\ NextStep(plan, r) \in Files => NextStep(plan, r) \in plan
<1>1. Later(plan, r) # {} =>
         \E f \in Later(plan, r) : \A g \in Later(plan, r) : Rank[f] <= Rank[g]
  BY FirstLater
<1>2. Later(plan, r) \subseteq plan \cap Files
  BY FilesAreLists DEF Later, Lists, Rank
<1>3. CASE Later(plan, r) # {}
  <2>1. NextStep(plan, r) \in Later(plan, r)
    BY <1>1, <1>3 DEF NextStep
  <2> QED  BY <2>1, <1>2
<1>4. CASE Later(plan, r) = {}
  BY <1>4, FilesAreLists DEF NextStep, Files, Lists, Rank
<1> QED  BY <1>3, <1>4

LEMMA SilencedTyped ==
    ASSUME NEW q \in Seq(Messages), NEW kinds
    PROVE  /\ Silenced(q, kinds) \in Seq(Messages)
           /\ Len(Silenced(q, kinds)) = Len(q)
           /\ \A i \in 1..Len(q) :
                /\ ~Silenced(q, kinds)[i].task.live
                /\ Silenced(q, kinds)[i].kind \in {q[i].kind, "cancelled"}
                /\ Silenced(q, kinds)[i].task.step \in Steps \cup {"none"}
<1> DEFINE S == Silenced(q, kinds)
<1>1. DOMAIN S = 1..Len(q) /\ Len(q) \in Nat
  BY DEF Silenced
<1>2. ASSUME NEW i \in 1..Len(q)
      PROVE  /\ S[i] \in Messages /\ ~S[i].task.live
             /\ S[i].kind \in {q[i].kind, "cancelled"}
             /\ S[i].task.step \in Steps \cup {"none"}
  <2>0. q[i] \in Messages
    OBVIOUS
  <2>1. /\ q[i] \in Messages /\ q[i].task \in Tasks
        /\ q[i] = [kind |-> q[i].kind, task |-> q[i].task]
        /\ q[i].task = [step |-> q[i].task.step, path |-> q[i].task.path,
                        live |-> q[i].task.live]
    BY <2>0 DEF Messages, Tasks
  <2>2. CASE q[i].kind \in kinds
    <3>1. S[i] = [kind |-> "cancelled", task |-> NoTask]
      BY <1>1, <2>2 DEF Silenced
    <3> QED  BY <3>1 DEF Messages, Tasks, NoTask
  <2>3. CASE q[i].kind \notin kinds
    <3> DEFINE t == [step |-> q[i].task.step, path |-> q[i].task.path, live |-> FALSE]
    <3>1. S[i] = [kind |-> q[i].kind, task |-> t]
      BY <1>1, <2>1, <2>3 DEF Silenced
    <3>2. t \in Tasks
      BY <2>1 DEF Tasks
    <3> QED  BY <2>1, <3>1, <3>2 DEF Messages, Tasks
  <2> QED  BY <2>2, <2>3
<1>3. S = [i \in 1..Len(q) |-> S[i]]
  BY <1>1 DEF Silenced
<1>4. S \in [1..Len(q) -> Messages]
  BY <1>2, <1>3
<1>5. S \in Seq(Messages) /\ Len(S) = Len(q)
  BY <1>1, <1>4
<1> QED  BY <1>2, <1>5

LEMMA StartTyped ==
    ASSUME ExecTyped, NEW s \in Steps, NEW p \in Paths \cup {"none"},
           p # "none" => s \in Files, NEW q \in Seq(Messages), Start(s, p, q)
    PROVE  ExecTyped'
<1>1. Task(s, p) \in Tasks
  BY DEF Task, Tasks
<1>2. [running EXCEPT !.live = FALSE] \in Tasks
  BY DEF ExecTyped, Tasks
<1>3. Silenced(q, ResultKinds) \in Seq(Messages)
  BY SilencedTyped
<1> QED  BY <1>1, <1>2, <1>3 DEF Start, ExecTyped

LEMMA HandledTyped ==
    ASSUME ExecTyped, uiQueue # <<>>
    PROVE  /\ Handled \in Seq(Messages) /\ Head(uiQueue) \in Messages
           /\ Head(uiQueue).task.path \in Paths \cup {"none"}
<1>1. Handled \in Seq(Messages) /\ Head(uiQueue) \in Messages
  BY DEF ExecTyped, Handled
<1> QED  BY <1>1 DEF Messages, Tasks

\* Disconnect leaves no live task.
LEMMA DisconnectTyped ==
    ASSUME TypeOK, NEW then \in {"off", "connecting"}, Disconnect(then),
           NEW q \in Seq(Messages), NEW kinds, uiQueue' = Silenced(q, kinds)
    PROVE  /\ ExecTyped' /\ session' \in {"off", "connecting"} /\ attempted' = {}
           /\ polling' = FALSE /\ orphaned' = FALSE /\ logins' = logins
<1>1. [running EXCEPT !.live = FALSE] \in Tasks /\ NoTask \in Tasks
  BY DEF TypeOK, Tasks, NoTask
<1>2. uiQueue' \in Seq(Messages)
  BY SilencedTyped
<1> QED  BY <1>1, <1>2 DEF TypeOK, ExecTyped, Disconnect

LEMMA PathTyped ==
    ASSUME NEW s \in Steps
    PROVE  /\ PathOf(s) \in Paths \cup {"none"}
           /\ PathOf(s) # "none" => s \in Files
BY FilesAreLists DEF PathOf, Paths, Steps, Lists, Rank

LEMMA WithoutTyped ==
    ASSUME NEW d \in [Paths -> Contents], NEW paths
    PROVE  Without(d, paths) \in [Paths -> Contents]
BY DEF Without, Contents

LEMMA ReportTyped ==
    ASSUME ExecTyped, NEW k \in ResultKinds \cup {"failed"}, Report(k)
    PROVE  uiQueue' \in Seq(Messages)
<1>1. [kind |-> k, task |-> running] \in Messages
  BY DEF ExecTyped, Messages
<1> QED  BY <1>1 DEF Report, ExecTyped

LEMMA EndsTyped ==
    ASSUME TypeOK, NEW k \in ResultKinds, Ends(k)
    PROVE  ControlTyped' /\ VersionsTyped' /\ PlanTyped' /\ ExecTyped'
<1>1. uiQueue' \in Seq(Messages)
  BY Parts, ReportTyped DEF Ends
<1>2. NoTask \in Tasks
  BY DEF Tasks, NoTask
<1>3. ExecTyped'
  BY <1>1, <1>2, Parts DEF Ends, ExecTyped, workerFrame
<1>4. ControlTyped' /\ VersionsTyped' /\ PlanTyped'
  BY Parts DEF Ends, workerFrame, sessionVars, pingVars, planVars, flagVars, dialogVars,
               histVars, ControlTyped, VersionsTyped, PlanTyped
<1> QED  BY <1>3, <1>4

\* Continue starts the next list or, on another model, only drops the report.
LEMMA ContinueTyped ==
    ASSUME TypeOK, uiQueue # <<>>, NEW s \in Files \cup {"toc"},
           NEW d \in [Paths -> Contents], NEW spoilt \in SUBSET Files,
           NEW savePath \in Paths \cup {"none"}, NEW failed \in BOOLEAN,
           Continue(s, d, spoilt, savePath, failed)
    PROVE  /\ ExecTyped' /\ DiskTyped' /\ allowTimerPing' \in BOOLEAN
           /\ attempted' \subseteq Steps \cup {"none"}
<1> USE Parts
<1> DEFINE other == s \in {"luckyData", "luckyImage"} /\ intSvrModel # "SMARTK"
           wrong == failed /\ DownloadState = "yt" /\ s = "offline"
           p == IF wrong THEN savePath ELSE PathOf(s)
<1>1. CASE other
  <2>1. Handled \in Seq(Messages)
    BY HandledTyped
  <2> QED  BY <1>1, <2>1 DEF Continue, Quiet, taskVars, execVars, ExecTyped, DiskTyped,
              ControlTyped, PlanTyped
<1>2. CASE ~other
  <2>1. Start(s, p, Handled) /\ allowTimerPing' = FALSE /\ attempted' = attempted \cup {s}
    BY <1>2 DEF Continue, HoldPing
  <2>2. s \in Steps /\ p \in Paths \cup {"none"} /\ (p # "none" => s \in Files)
    <3>1. s \in Steps
      BY DEF Steps
    <3> QED  BY <3>1, PathTyped, FilesAreLists
  <2>3. ExecTyped'
    BY <2>1, <2>2, HandledTyped, StartTyped
  <2>4. disk' \in [Paths -> Contents]
    BY <1>2, WithoutTyped DEF Continue
  <2>5. suspect' \subseteq Files
    BY <1>2 DEF Continue
  <2> QED  BY <2>1, <2>2, <2>3, <2>4, <2>5 DEF DiskTyped, PlanTyped
<1> QED  BY <1>1, <1>2

LEMMA SpoiltTyped ==
    ASSUME TypeOK, NEW d, NEW f \in Files
    PROVE  Spoilt(d, f) \in SUBSET Files
BY DEF TypeOK, Spoilt

\* A list that is the step of DownloadState is one of the boxes' lists.
LEMMA ListState ==
    ASSUME TypeOK, DownloadState \in Lists
    PROVE  DownloadState \in Files /\ Rank[DownloadState] \in Nat
BY DEF TypeOK, Steps, Lists, Rank

LEMMA ListDoneTyped ==
    ASSUME TypeOK, uiQueue # <<>>, DownloadState \in Lists,
           NEW d \in [Paths -> Contents], NEW spoilt \in SUBSET Files, ListDone(d, spoilt)
    PROVE  /\ ExecTyped' /\ DiskTyped' /\ allowTimerPing' \in BOOLEAN
           /\ attempted' \subseteq Steps \cup {"none"}
           /\ polling' \in BOOLEAN /\ serverStatus' \in BOOLEAN
<1> DEFINE s == NextStep(need, Rank[DownloadState])
<1>1. s \in Files \cup {"toc", "none"}
  BY ListState, NextStepTyped DEF TypeOK
<1>2. CASE s # "none"
  <2>1. Continue(s, d, spoilt, Head(uiQueue).task.path, FALSE)
        /\ UNCHANGED <<polling, serverStatus>>
    BY <1>2 DEF ListDone
  <2>2. s \in Files \cup {"toc"}
    BY <1>1, <1>2
  <2>3. Head(uiQueue).task.path \in Paths \cup {"none"}
    BY HandledTyped, Parts
  <2> QED  BY <2>1, <2>2, <2>3, ContinueTyped DEF TypeOK
<1>3. CASE s = "none"
  <2>1. Handled \in Seq(Messages)
    BY HandledTyped, Parts
  <2> QED  BY <1>3, <2>1 DEF ListDone, Quiet, taskVars, execVars, TypeOK, ExecTyped, DiskTyped
<1> QED  BY <1>2, <1>3

LEMMA DownloadFailedTyped ==
    ASSUME TypeOK, DownloadFailed
    PROVE  TypeOK'
<1> DEFINE savePath == Head(uiQueue).task.path
           s == IF DownloadState \in Lists THEN NextStep(need, Rank[DownloadState])
                                           ELSE "none"
<1>1. uiQueue # <<>> /\ Handled \in Seq(Messages) /\ savePath \in Paths \cup {"none"}
      /\ Head(uiQueue) \in Messages
  BY HandledTyped, Parts DEF DownloadFailed, Delivers
<1>2. /\ ExecTyped' /\ DiskTyped' /\ allowTimerPing' \in BOOLEAN
      /\ attempted' \subseteq Steps \cup {"none"} /\ polling' \in BOOLEAN
      /\ flagDownloadingHidden' \in BOOLEAN /\ flagDownloadingDD' \in BOOLEAN
      /\ asking' \in {"none", "toc", "info"}
  <2>1. CASE DownloadState \in Lists /\ s # "none"
                /\ Continue(s, disk, suspect, savePath, TRUE)
                /\ UNCHANGED <<polling, flagVars, asking>>
    <3>1. s \in Files \cup {"toc"}
      BY <2>1, ListState, NextStepTyped DEF TypeOK
    <3>2. disk \in [Paths -> Contents] /\ suspect \in SUBSET Files
      BY DEF TypeOK
    <3> QED  BY <1>1, <2>1, <3>1, <3>2, ContinueTyped DEF TypeOK, flagVars
  <2>2. CASE /\ DownloadState' \in {DownloadState, "idle"} /\ uiQueue' = Handled
             /\ UNCHANGED <<attempted, execVars, allowTimerPing, disk, suspect>>
             /\ polling' \in {polling, TRUE}
             /\ flagDownloadingHidden' \in BOOLEAN /\ flagDownloadingDD' \in BOOLEAN
             /\ asking' \in {asking, "toc", "info"}
    BY <1>1, <2>2 DEF TypeOK, ExecTyped, DiskTyped, execVars
  <2> QED  BY <2>1, <2>2 DEF DownloadFailed, Quiet, ProcessHinh, taskVars, flagVars, TypeOK
<1>3. orphaned' \in BOOLEAN
  BY <1>1 DEF DownloadFailed, TypeOK, Messages, Tasks
<1>4. ControlTyped'
  BY <1>2, <1>3, Parts DEF DownloadFailed, ControlTyped, sessionVars, planVars
<1>5. VersionsTyped' /\ PlanTyped'
  BY <1>2, Parts DEF DownloadFailed, VersionsTyped, PlanTyped, planVars
<1> QED  BY <1>2, <1>4, <1>5, Parts
LEMMA HiddenDownloadedTyped ==
    ASSUME TypeOK, HiddenDownloaded
    PROVE  TypeOK'
<1>1. uiQueue # <<>> /\ DownloadState = "hidden" /\ DownloadState \in Lists
      /\ "hidden" \in Files /\ "hidden" \in Paths /\ "tmp" \in Paths
  BY ListState DEF HiddenDownloaded, Delivers, Lists, Rank, Paths
<1>2. /\ ExecTyped' /\ DiskTyped' /\ allowTimerPing' \in BOOLEAN
      /\ attempted' \subseteq Steps \cup {"none"} /\ polling' \in BOOLEAN
      /\ serverStatus' \in BOOLEAN
  <2>1. PICK content \in {disk["tmp"], disk["hidden"], Part} :
          LET d == [disk EXCEPT !["hidden"] = content]
              spoilt == IF content = disk["tmp"] THEN Spoilt(d, "hidden")
                                                 ELSE suspect \cup {"hidden"}
          IN \/ /\ flagDownloadingHidden
                /\ disk' = d /\ suspect' = spoilt /\ Quiet
                /\ UNCHANGED <<allowTimerPing, polling, serverStatus>>
             \/ ~flagDownloadingHidden /\ ListDone(d, spoilt)
    BY DEF HiddenDownloaded
  <2> DEFINE d == [disk EXCEPT !["hidden"] = content]
             spoilt == IF content = disk["tmp"] THEN Spoilt(d, "hidden")
                                                ELSE suspect \cup {"hidden"}
  <2>2. d \in [Paths -> Contents]
    BY <1>1 DEF TypeOK, Contents
  <2>3. spoilt \in SUBSET Files
    BY <1>1, SpoiltTyped DEF TypeOK
  <2>4. CASE disk' = d /\ suspect' = spoilt /\ Quiet
             /\ UNCHANGED <<allowTimerPing, polling, serverStatus>>
    <3>1. Handled \in Seq(Messages)
      BY <1>1, HandledTyped, Parts
    <3> QED  BY <2>2, <2>3, <2>4, <3>1 DEF Quiet, taskVars, execVars, TypeOK, ExecTyped,
                DiskTyped
  <2>5. CASE ListDone(d, spoilt)
    BY <1>1, <2>2, <2>3, <2>5, ListDoneTyped
  <2> QED  BY <2>1, <2>4, <2>5
<1>3. saved' \in [Files -> 0 .. MaxVersion]
  BY <1>1 DEF HiddenDownloaded, Save, TypeOK
<1>4. ControlTyped' /\ VersionsTyped' /\ PlanTyped'
  BY <1>2, <1>3, Parts DEF HiddenDownloaded, ControlTyped, VersionsTyped, PlanTyped,
     sessionVars, planVars, dialogVars, histVars
<1> QED  BY <1>2, <1>4, Parts

LEMMA ListDownloadedTyped ==
    ASSUME TypeOK, ListDownloaded
    PROVE  TypeOK'
<1> DEFINE inMemory == DownloadState = "offline" /\ intSvrModel = "SONCA"
<1>1. uiQueue # <<>> /\ DownloadState \in Lists /\ DownloadState \in Files
  BY ListState DEF ListDownloaded, Delivers
<1>2. /\ ExecTyped' /\ DiskTyped' /\ allowTimerPing' \in BOOLEAN
      /\ attempted' \subseteq Steps \cup {"none"} /\ polling' \in BOOLEAN
      /\ serverStatus' \in BOOLEAN /\ flagDownloadingDD' \in BOOLEAN
      /\ saved' \in [Files -> 0 .. MaxVersion]
  <2>1. CASE /\ flagDownloadingDD' = FALSE
             /\ Quiet
             /\ UNCHANGED <<saved, disk, suspect, allowTimerPing, polling, serverStatus>>
    <3>1. Handled \in Seq(Messages)
      BY <1>1, HandledTyped, Parts
    <3> QED  BY <2>1, <3>1 DEF Quiet, taskVars, execVars, TypeOK, ExecTyped, DiskTyped
  <2>2. CASE /\ Save(DownloadState) /\ ListDone(disk, Spoilt(disk, DownloadState))
             /\ UNCHANGED flagDownloadingDD
    <3>1. disk \in [Paths -> Contents] /\ Spoilt(disk, DownloadState) \in SUBSET Files
      BY <1>1, SpoiltTyped DEF TypeOK
    <3>2. saved' \in [Files -> 0 .. MaxVersion] /\ flagDownloadingDD' \in BOOLEAN
      BY <1>1, <2>2 DEF Save, TypeOK
    <3> QED  BY <1>1, <2>2, <3>1, <3>2, ListDoneTyped
  <2> QED  BY <2>1, <2>2 DEF ListDownloaded
<1>3. listed' \in 0 .. MaxVersion
  BY <1>1 DEF ListDownloaded, TypeOK
<1>4. ControlTyped' /\ VersionsTyped' /\ PlanTyped'
  BY <1>2, <1>3, Parts DEF ListDownloaded, ControlTyped, VersionsTyped, PlanTyped,
     sessionVars, planVars, dialogVars, histVars
<1> QED  BY <1>2, <1>4, Parts

LEMMA OtherDownloadedTyped ==
    ASSUME TypeOK, OtherDownloaded
    PROVE  TypeOK'
<1>1. uiQueue # <<>> /\ Handled \in Seq(Messages)
  BY HandledTyped, Parts DEF OtherDownloaded, Delivers
<1>2. /\ ExecTyped' /\ allowTimerPing' \in BOOLEAN /\ serverStatus' \in BOOLEAN
      /\ attempted' \subseteq Steps \cup {"none"} /\ polling' \in BOOLEAN
      /\ pinging' = pinging /\ importing' \in BOOLEAN
  <2>1. CASE /\ Start("lyrics", "none", Handled)
             /\ UNCHANGED <<attempted, pingVars, importing>>
    <3>1. "lyrics" \in Steps
      BY DEF Steps
    <3>2. ExecTyped'
      BY <1>1, <2>1, <3>1, StartTyped, Parts
    <3> QED  BY <2>1, <3>2 DEF pingVars, TypeOK
  <2>2. CASE /\ uiQueue' = Silenced(Handled, StatusKinds)
             /\ importing' = TRUE /\ polling' = FALSE /\ serverStatus' = FALSE
             /\ UNCHANGED <<taskVars, allowTimerPing, pinging>>
    <3>1. uiQueue' \in Seq(Messages)
      BY <1>1, <2>2, SilencedTyped
    <3> QED  BY <2>2, <3>1 DEF taskVars, execVars, TypeOK, ExecTyped
  <2>3. CASE /\ uiQueue' = Handled /\ DownloadState' \in {DownloadState, "idle"}
             /\ UNCHANGED <<attempted, execVars>>
             /\ polling' \in {polling, TRUE} /\ allowTimerPing' \in {allowTimerPing, TRUE}
             /\ UNCHANGED <<serverStatus, pinging, importing>>
    BY <1>1, <2>3 DEF execVars, TypeOK, ExecTyped
  <2> QED  BY <2>1, <2>2, <2>3 DEF OtherDownloaded, Quiet, ProcessHinh, taskVars, pingVars
<1>3. ControlTyped' /\ VersionsTyped' /\ PlanTyped' /\ DiskTyped'
  BY <1>2, Parts DEF OtherDownloaded, ControlTyped, VersionsTyped, PlanTyped, DiskTyped,
     sessionVars, planVars, flagVars, fileVars, histVars
<1> QED  BY <1>2, <1>3, Parts

LEMMA StatusArrivesTyped ==
    ASSUME TypeOK, StatusArrives
    PROVE  TypeOK'
<1>1. uiQueue # <<>> /\ Handled \in Seq(Messages)
  BY HandledTyped, Parts DEF StatusArrives, Delivers
<1>2. ExecTyped' /\ allowTimerPing' \in BOOLEAN
  <2>1. CASE \E s \in {"hidden", "offline"} \cap Files :
                Start(s, PathOf(s), Handled) /\ HoldPing
    <3>1. PICK s \in {"hidden", "offline"} \cap Files :
                Start(s, PathOf(s), Handled) /\ HoldPing
      BY <2>1
    <3>2. s \in Steps
      BY DEF Steps
    <3>3. ExecTyped'
      BY <1>1, <3>1, <3>2, PathTyped, StartTyped, Parts
    <3> QED  BY <3>1, <3>3 DEF HoldPing
  <2>2. CASE allowTimerPing' = TRUE /\ uiQueue' = Handled
             /\ UNCHANGED <<DownloadState, execVars>>
    BY <1>1, <2>2 DEF TypeOK, ExecTyped, execVars
  <2>3. CASE Start("add", "none", Handled) /\ HoldPing
    <3>1. "add" \in Steps
      BY DEF Steps
    <3>2. ExecTyped'
      BY <1>1, <2>3, <3>1, StartTyped, Parts
    <3> QED  BY <2>3, <3>2 DEF HoldPing
  <2>4. intSvrModel \in Models => FilesOf[intSvrModel] \subseteq Files
    BY FilesAreLists
  <2> QED
    <3> DEFINE later == serverStatus /\ intSvrModel = "SONCA"
               hidden == /\ later /\ ~flagDownloadingHidden /\ "hidden" \in Files
                         /\ saved["hidden"] # boxVersion["hidden"]
               removed == hidden /\ boxVersion["hidden"] = 0
               offline == /\ later /\ ~flagDownloadingDD
                          /\ "offline" \in FilesOf[intSvrModel]
                          /\ listed # boxVersion["offline"]
               fetched == (IF hidden /\ ~removed THEN {"hidden"} ELSE {}) \cup
                          (IF offline THEN {"offline"} ELSE {})
    <3>1. fetched \subseteq {"hidden", "offline"} \cap Files
      BY <2>4 DEF TypeOK
    <3>2. \/ \E s \in {"hidden", "offline"} :
               /\ s \in fetched /\ (s = "hidden" => ~offline)
               /\ Start(s, PathOf(s), Handled) /\ HoldPing
          \/ allowTimerPing' = TRUE /\ uiQueue' = Handled
             /\ UNCHANGED <<DownloadState, execVars>>
          \/ Start("add", "none", Handled) /\ HoldPing
      BY DEF StatusArrives
    <3> QED  BY <2>1, <2>2, <2>3, <3>1, <3>2
<1>3. /\ toSave' \in [Files -> 0 .. MaxVersion] /\ saved' \in [Files -> 0 .. MaxVersion]
      /\ disk' \in [Paths -> Contents] /\ serverStatus' \in BOOLEAN
      /\ flagDownloadingHidden' \in BOOLEAN /\ flagDownloadingDD' \in BOOLEAN
  BY WithoutTyped, DownloadChainAssumption DEF StatusArrives, TypeOK
<1>4. ControlTyped' /\ VersionsTyped' /\ PlanTyped' /\ DiskTyped'
  BY <1>2, <1>3, Parts DEF StatusArrives, ControlTyped, VersionsTyped, PlanTyped, DiskTyped,
     sessionVars, dialogVars, histVars
<1> QED  BY <1>2, <1>4, Parts
LEMMA LoginTyped ==
    ASSUME TypeOK, NEW m \in Models, NEW plan, Login(m, plan)
    PROVE  TypeOK'
<1> DEFINE s == NextStep(plan, 0)
           d == Without(disk, Gone(m))
<1>1. plan \subseteq Files \cup {"main"} /\ s \in Files \cup {"toc", "none"}
  <2>1. plan \subseteq Files \cup {"main"}
    BY FilesAreLists DEF Login, Differs
  <2> QED  BY <2>1, NextStepTyped
<1>2. d \in [Paths -> Contents]
  BY WithoutTyped DEF TypeOK
<1>3. /\ ExecTyped' /\ DiskTyped' /\ allowTimerPing' \in BOOLEAN
      /\ polling' \in BOOLEAN /\ serverStatus' \in BOOLEAN
  <2>1. CASE /\ polling' = TRUE /\ serverStatus' = FALSE
             /\ disk' = d
             /\ UNCHANGED <<allowTimerPing, DownloadState, execVars, uiQueue, suspect>>
    BY <1>2, <2>1 DEF TypeOK, ExecTyped, DiskTyped, execVars
  <2>2. CASE /\ s # "none"
             /\ Start(s, PathOf(s), uiQueue) /\ HoldPing
             /\ disk' = Without(d, {s} \cap (Replaced \cup {"samba"}))
             /\ UNCHANGED <<serverStatus, polling, suspect>>
    <3>1. s \in Steps
      BY <1>1, <2>2 DEF Steps
    <3>2. ExecTyped'
      BY <2>2, <3>1, PathTyped, StartTyped, Parts DEF TypeOK
    <3> QED  BY <1>2, <2>2, <3>2, WithoutTyped DEF HoldPing, TypeOK, DiskTyped
  <2> QED  BY <2>1, <2>2 DEF Login
<1>4. /\ session' = "up" /\ intSvrModel' \in Models /\ inherited' \subseteq Inheritable
      /\ logins' \in 0 .. MaxLogins
  BY DownloadChainAssumption DEF Login, TypeOK
<1>5. ControlTyped'
  BY <1>3, <1>4 DEF Login, TypeOK, ControlTyped, dialogVars
<1>6. toSave' \in [Files -> 0 .. MaxVersion] /\ saved' \in [Files -> 0 .. MaxVersion]
  BY DownloadChainAssumption DEF Login, TypeOK
<1>7. listed' \in 0 .. MaxVersion
  BY FilesAreLists, DownloadChainAssumption DEF Login, TypeOK, AppVersion
<1>8. VersionsTyped' /\ PlanTyped'
  BY <1>1, <1>6, <1>7 DEF Login, TypeOK, VersionsTyped, PlanTyped, Steps
<1> QED  BY <1>3, <1>5, <1>8, Parts

LEMMA WorkerTyped ==
    ASSUME TypeOK, Worker
    PROVE  TypeOK'
<1> USE Parts
<1>1. CASE StartDownload
  BY <1>1 DEF StartDownload, sessionVars, pingVars, planVars, flagVars, fileVars, dialogVars,
     histVars, TypeOK, Tasks, NoTask
<1>2. CASE \E k \in ResultKinds : Ends(k) /\ UNCHANGED <<disk, suspect>>
  BY <1>2, EndsTyped DEF DiskTyped
<1>3. CASE HeaderArrives
  BY <1>3 DEF HeaderArrives, workerFrame, sessionVars, pingVars, planVars, flagVars,
     dialogVars, histVars, TypeOK, Contents
<1>4. CASE BodyComplete
  <2>1. disk \in [Paths -> Contents] /\ running \in Tasks /\ boxVersion \in [Files -> 0 .. MaxVersion]
    BY DEF TypeOK
  <2>2. running.path # "none" => <<running.step, boxVersion[running.step]>> \in Contents
    BY <2>1 DEF Tasks, Contents, Steps
  <2>3. disk' \in [Paths -> Contents]
    BY <1>4, <2>1, <2>2, FilesAreLists DEF BodyComplete
  <2> QED  BY <1>4, <2>3, EndsTyped DEF BodyComplete, DiskTyped, ResultKinds
<1>5. CASE BodyThrows
  <2>1. uiQueue' \in Seq(Messages)
    BY <1>5, ReportTyped DEF BodyThrows
  <2> QED  BY <1>5, <2>1 DEF BodyThrows, workerFrame, sessionVars, pingVars, planVars,
              flagVars, dialogVars, histVars, TypeOK
<1>6. CASE StrayComplete
  <2>1. DiskTyped'
    BY <1>6 DEF StrayComplete, DiskTyped
  <2> QED  BY <1>6, <2>1, EndsTyped DEF StrayComplete, ResultKinds
<1> QED  BY <1>1, <1>2, <1>3, <1>4, <1>5, <1>6 DEF Worker, ExchangeLost, Refused, Empty,
            BodyShort, ReturnsInvalid, ResultKinds

\* The actions that drop the session.
LEMMA DisconnectionTyped ==
    ASSUME TypeOK,
           UserConnect \/ UserDisconnect \/ ConnectFails \/ Disconnected \/ AnswerBusy
           \/ PingAnswers
    PROVE  TypeOK'
<1>1. uiQueue \in Seq(Messages) /\ (Disconnected => Handled \in Seq(Messages))
  BY HandledTyped, Parts DEF TypeOK, Disconnected, Delivers
<1>2. CASE \E then \in {"off", "connecting"}, q \in Seq(Messages) :
              /\ Disconnect(then)
              /\ uiQueue' = Silenced(q, ResultKinds \cup StatusKinds)
              /\ serverStatus' \in {serverStatus, FALSE} /\ pinging' \in {pinging, 0}
              /\ intSvrModel' \in {intSvrModel, "none"} /\ asking' \in {asking, "none"}
              /\ UNCHANGED <<boxVersion, allowTimerPing, planVars, flagVars, fileVars,
                             importing>>
  <2>1. PICK then \in {"off", "connecting"}, q \in Seq(Messages) :
              /\ Disconnect(then)
              /\ uiQueue' = Silenced(q, ResultKinds \cup StatusKinds)
    BY <1>2
  <2>2. /\ ExecTyped' /\ session' \in {"off", "connecting"} /\ attempted' = {}
        /\ polling' = FALSE /\ orphaned' = FALSE /\ logins' = logins
    BY <2>1, DisconnectTyped
  <2>3. ControlTyped'
    <3>1. /\ serverStatus' \in BOOLEAN /\ pinging' \in 0 .. MaxLogins
          /\ intSvrModel' \in Models \cup {"none"} /\ asking' \in {"none", "toc", "info"}
      <4>1. 0 \in 0 .. MaxLogins
        BY DownloadChainAssumption
      <4> QED  BY <1>2, <4>1 DEF TypeOK
    <3> QED  BY <1>2, <2>2, <3>1, Parts, Zenon DEF ControlTyped, planVars, flagVars
  <2>4. VersionsTyped' /\ PlanTyped' /\ DiskTyped'
    BY <1>2, <2>2, Parts DEF VersionsTyped, PlanTyped, DiskTyped, planVars, fileVars
  <2> QED  BY <2>2, <2>3, <2>4, Parts
<1>3. CASE AnswerBusy /\ UNCHANGED <<sessionVars, pingVars, taskVars, histVars, uiQueue>>
  BY <1>3 DEF AnswerBusy, sessionVars, pingVars, planVars, flagVars, fileVars, taskVars,
     execVars, histVars, TypeOK
<1>4. CASE UserConnect
  BY <1>1, <1>2, <1>4 DEF UserConnect, dialogVars
<1>5. CASE UserDisconnect \/ ConnectFails
  BY <1>1, <1>2, <1>5 DEF UserDisconnect, ConnectFails, DefaultView, dialogVars
<1>6. CASE Disconnected
  BY <1>1, <1>2, <1>6 DEF Disconnected, DefaultView, dialogVars
<1>7. CASE AnswerBusy /\ ~UNCHANGED <<sessionVars, pingVars, taskVars, histVars, uiQueue>>
  BY <1>1, <1>2, <1>7 DEF AnswerBusy, DefaultView
<1>8. CASE PingAnswers
  BY <1>1, <1>2, <1>8 DEF PingAnswers, pingFrame, dialogVars
<1> QED  BY <1>3, <1>4, <1>5, <1>6, <1>7, <1>8

LEMMA TypeInit == Init => TypeOK
<1> SUFFICES ASSUME Init PROVE TypeOK
  OBVIOUS
<1>0. logins \in 0 .. MaxLogins
  BY DownloadChainAssumption DEF Init
<1>1. ControlTyped
  BY <1>0, Zenon DEF Init, ControlTyped
<1>4. VersionsTyped /\ PlanTyped
  BY DownloadChainAssumption DEF Init, VersionsTyped, PlanTyped
<1>2. DiskTyped
  BY DEF Init, DiskTyped, Contents
<1>3. ExecTyped
  BY DEF Init, ExecTyped, Tasks, NoTask
<1> QED  BY <1>1, <1>2, <1>3, <1>4, Parts

LEMMA TypeStep == TypeOK /\ [Next]_vars => TypeOK'
<1> SUFFICES ASSUME TypeOK, [Next]_vars PROVE TypeOK'
  OBVIOUS
<1>1. CASE Worker
  BY <1>1, WorkerTyped
<1>2. CASE UserConnect \/ UserDisconnect \/ ConnectFails \/ Disconnected \/ AnswerBusy
           \/ PingAnswers
  BY <1>2, DisconnectionTyped
<1>3. CASE DownloadFailed \/ HiddenDownloaded \/ ListDownloaded \/ OtherDownloaded
           \/ StatusArrives
  BY <1>3, DownloadFailedTyped, HiddenDownloadedTyped, ListDownloadedTyped,
     OtherDownloadedTyped, StatusArrivesTyped
<1>4. CASE InvalidResponse \/ Cancelled
  <2>1. Handled \in Seq(Messages)
    BY <1>4, HandledTyped, Parts DEF InvalidResponse, Cancelled, Delivers
  <2>2. ControlTyped'
    <3>1. allowTimerPing' \in BOOLEAN
      BY <1>4 DEF InvalidResponse, Cancelled, pingVars, TypeOK
    <3>2. UNCHANGED <<sessionVars, serverStatus, polling, pinging, planVars, flagVars,
                      dialogVars, histVars>>
      BY <1>4 DEF InvalidResponse, Cancelled, pingVars
    <3> QED  BY <3>1, <3>2, Parts, Zenon DEF sessionVars, planVars, flagVars, dialogVars,
                histVars, ControlTyped
  <2>3. VersionsTyped' /\ DiskTyped' /\ PlanTyped' /\ ExecTyped'
    BY <1>4, <2>1, Parts DEF InvalidResponse, Cancelled, Quiet, planVars, fileVars, taskVars,
       execVars, VersionsTyped, DiskTyped, PlanTyped, ExecTyped
  <2> QED  BY <2>2, <2>3, Parts
<1>5. CASE StatusAsked
  <2>1. \A k \in StatusKinds : [kind |-> k, task |-> NoTask] \in Messages
    BY DEF Messages, Tasks, NoTask
  <2>2. uiQueue' \in Seq(Messages)
    BY <1>5, <2>1 DEF StatusAsked, TypeOK
  <2> QED  BY <1>5, <2>2 DEF StatusAsked, workerFrame, sessionVars, pingVars, planVars,
              flagVars, dialogVars, histVars, TypeOK
<1>6. CASE UserMidi
  <2>1. "midi" \in Steps /\ uiQueue \in Seq(Messages)
    BY DEF Steps, TypeOK
  <2>2. ExecTyped'
    BY <1>6, <2>1, StartTyped, Parts DEF UserMidi
  <2> QED  BY <1>6, <2>2, Parts DEF UserMidi, HoldPing, sessionVars, planVars, flagVars,
              fileVars, dialogVars, histVars, TypeOK, ControlTyped, VersionsTyped,
              PlanTyped, DiskTyped
<1>7. CASE ImportEnds
  <2>1. ExecTyped' /\ polling' \in BOOLEAN
    <3>1. CASE Start("info", "none", Silenced(uiQueue, StatusKinds)) /\ polling' = FALSE
      <4>1. "info" \in Steps /\ Silenced(uiQueue, StatusKinds) \in Seq(Messages)
        BY SilencedTyped DEF Steps, TypeOK
      <4> QED  BY <3>1, <4>1, StartTyped, Parts
    <3>2. CASE polling' = TRUE /\ UNCHANGED <<DownloadState, execVars, uiQueue>>
      BY <3>2 DEF TypeOK, ExecTyped, execVars
    <3> QED  BY <1>7, <3>1, <3>2 DEF ImportEnds, ProcessHinh
  <2> QED  BY <1>7, <2>1, Parts DEF ImportEnds, sessionVars, planVars, flagVars, fileVars,
              histVars, TypeOK, ControlTyped, VersionsTyped, PlanTyped, DiskTyped
<1>8. CASE PingBegins \/ PingInVain
  <2>0. 0 \in 0 .. MaxLogins
    BY DownloadChainAssumption
  <2>1. ControlTyped'
    BY <1>8, <2>0, Parts, Zenon DEF PingBegins, PingInVain, pingFrame, sessionVars, planVars,
       flagVars, dialogVars, histVars, ControlTyped
  <2>2. VersionsTyped' /\ DiskTyped' /\ PlanTyped' /\ ExecTyped'
    BY <1>8, Parts DEF PingBegins, PingInVain, pingFrame, planVars, fileVars, taskVars,
       execVars, VersionsTyped, DiskTyped, PlanTyped, ExecTyped
  <2> QED  BY <2>1, <2>2, Parts
<1>9. CASE \E f \in Changing : BoxUpdates(f)
  <2>1. boxVersion' \in [Files -> 0 .. MaxVersion]
    BY <1>9, DownloadChainAssumption DEF BoxUpdates, TypeOK
  <2> QED  BY <1>9, <2>1 DEF BoxUpdates, sessionVars, pingVars, planVars, flagVars, fileVars,
              dialogVars, taskVars, execVars, histVars, TypeOK
<1>10. CASE \E m \in Models, plan \in SUBSET (Lists \cup {"main"}) : Login(m, plan)
  BY <1>10, LoginTyped
<1>11. CASE UNCHANGED vars
  BY <1>11 DEF vars, sessionVars, pingVars, planVars, flagVars, fileVars, dialogVars,
     execVars, histVars, TypeOK
<1> QED  BY <1>1, <1>2, <1>3, <1>4, <1>5, <1>6, <1>7, <1>8, <1>9, <1>10, <1>11
            DEF Next, User, Deliver

\* The variables keep to their values in every behaviour, for any boxes, versions
\* and queues: lists are only fetched into their paths, and only versions that
\* some box had are remembered.
THEOREM DownloadsTypeCorrect == Spec => []TypeOK
BY TypeInit, TypeStep, PTL DEF Spec
-----------------------------------------------------------------------------
(* What DownloadState is about.                                            *)
(*                                                                         *)
(* At most one download has a report to come: the one waiting, the one     *)
(* running or the one whose result is in the queue.  It is the one that    *)
(* DownloadState names, as long as no failure of a cancelled download has  *)
(* been taken for its own.                                                 *)

AllDead(q) == \A i \in 1 .. Len(q) : ~q[i].task.live
Results(q) == {i \in 1 .. Len(q) : q[i].kind \in ResultKinds}

WorkInv ==
    /\ waiting # NoTask =>
          /\ ~running.live /\ AllDead(uiQueue)
          /\ waiting.step = DownloadState \/ orphaned
    /\ running.live => Results(uiQueue) = {}
    /\ running.live /\ pc # "failed" =>
          /\ AllDead(uiQueue)
          /\ running.step = DownloadState \/ orphaned

\* The results in queue q, when DownloadState is state.
QueueOk(q, state, orphan) ==
    \A i \in Results(q) :
        /\ q[i].task.live
        /\ \A j \in Results(q) : j = i
        /\ q[i].kind = "success" =>
              /\ q[i].task.step = state \/ orphan
              /\ \A j \in 1 .. Len(q) : q[j].task.live => j = i

QueueInv ==
    /\ QueueOk(uiQueue, DownloadState, orphaned)
    /\ Results(uiQueue) # {} => waiting = NoTask /\ ~running.live

LiveInv == TypeOK /\ WorkInv /\ QueueInv

LEMMA SilencedDead ==
    ASSUME NEW q \in Seq(Messages), NEW kinds
    PROVE  /\ Silenced(q, kinds) \in Seq(Messages) /\ AllDead(Silenced(q, kinds))
           /\ ResultKinds \subseteq kinds \/ Results(q) = {} =>
                 Results(Silenced(q, kinds)) = {}
<1> DEFINE S == Silenced(q, kinds)
<1>1. S \in Seq(Messages) /\ Len(S) = Len(q) /\ AllDead(S)
  BY SilencedTyped DEF AllDead
<1>2. ASSUME NEW i \in 1 .. Len(q)
      PROVE  S[i].kind = IF q[i].kind \in kinds THEN "cancelled" ELSE q[i].kind
  <2>1. q[i] \in Messages
    OBVIOUS
  <2>2. i \in DOMAIN q
    OBVIOUS
  <2> QED  BY <2>1, <2>2 DEF Silenced, Messages, Tasks
<1> QED  BY <1>1, <1>2 DEF Results, ResultKinds

LEMMA HandledMessages ==
    ASSUME ExecTyped, uiQueue # <<>>
    PROVE  /\ Len(uiQueue) \in Nat \ {0} /\ Len(Handled) = Len(uiQueue) - 1
           /\ Head(uiQueue) = uiQueue[1]
           /\ \A i \in 1 .. Len(Handled) :
                 Handled[i] = uiQueue[i + 1] /\ i + 1 \in 1 .. Len(uiQueue)
BY DEF ExecTyped, Handled

\* A download has just been started, or all of them cancelled.
LEMMA FreshInv ==
    ASSUME AllDead(uiQueue)', (Results(uiQueue) = {})', ~running'.live,
           waiting' = NoTask \/ waiting'.step = DownloadState'
    PROVE  WorkInv' /\ QueueInv'
BY DEF WorkInv, QueueInv, QueueOk

LEMMA StartInv ==
    ASSUME TypeOK, NEW s, NEW p, NEW q \in Seq(Messages), Start(s, p, q)
    PROVE  WorkInv' /\ QueueInv'
<1>1. ~running'.live
  BY DEF Start, TypeOK, Tasks
<1>2. waiting'.step = DownloadState'
  BY DEF Start, Task
<1>3. AllDead(uiQueue)' /\ (Results(uiQueue) = {})'
  BY SilencedDead DEF Start
<1> QED  BY <1>1, <1>2, <1>3, FreshInv

LEMMA DisconnectInv ==
    ASSUME TypeOK, NEW then, Disconnect(then), NEW q \in Seq(Messages),
           uiQueue' = Silenced(q, ResultKinds \cup StatusKinds)
    PROVE  WorkInv' /\ QueueInv'
<1>1. ~running'.live /\ waiting' = NoTask
  BY DEF Disconnect, TypeOK, Tasks
<1>2. AllDead(uiQueue)' /\ (Results(uiQueue) = {})'
  BY SilencedDead
<1> QED  BY <1>1, <1>2, FreshInv

\* What is left in the queue when a message is handled.
LEMMA LeftInQueue ==
    ASSUME LiveInv, uiQueue # <<>>
    PROVE  /\ AllDead(uiQueue) => AllDead(Handled)
           /\ \A i \in Results(Handled) : i + 1 \in Results(uiQueue)
           /\ Head(uiQueue).kind \in ResultKinds =>
                 Results(Handled) = {} /\ waiting = NoTask /\ ~running.live
           /\ Head(uiQueue).kind = "success" =>
                 /\ AllDead(Handled)
                 /\ Head(uiQueue).task.step = DownloadState \/ orphaned
           /\ Head(uiQueue).kind = "failed" /\ Head(uiQueue).task.live =>
                 /\ waiting = NoTask /\ (running.live => pc = "failed")
                 /\ \A i \in Results(Handled) : Handled[i].kind # "success"
           /\ QueueOk(Handled, DownloadState, orphaned)
<1> USE HandledMessages, Parts DEF LiveInv
<1>1. AllDead(uiQueue) => AllDead(Handled)
  BY DEF AllDead
<1>2. \A i \in Results(Handled) : i + 1 \in Results(uiQueue)
  BY DEF Results
<1>3. 1 \in 1 .. Len(uiQueue) /\ (Head(uiQueue).kind \in ResultKinds => 1 \in Results(uiQueue))
  BY DEF Results
<1>4. Head(uiQueue).kind \in ResultKinds =>
         Results(Handled) = {} /\ waiting = NoTask /\ ~running.live
  <2>1. SUFFICES ASSUME Head(uiQueue).kind \in ResultKinds
                 PROVE  Results(Handled) = {} /\ waiting = NoTask /\ ~running.live
    OBVIOUS
  <2>2. ASSUME NEW i \in Results(Handled) PROVE FALSE
    <3>1. i + 1 = 1 /\ i \in 1 .. Len(Handled)
      BY <1>2, <1>3, <2>1 DEF QueueInv, QueueOk, Results
    <3> QED  BY <3>1
  <2> QED  BY <1>3, <2>1, <2>2 DEF QueueInv
<1>5. Head(uiQueue).kind = "success" =>
         /\ AllDead(Handled)
         /\ Head(uiQueue).task.step = DownloadState \/ orphaned
  <2>1. SUFFICES ASSUME Head(uiQueue).kind = "success"
                 PROVE  /\ AllDead(Handled)
                        /\ Head(uiQueue).task.step = DownloadState \/ orphaned
    OBVIOUS
  <2>2. 1 \in Results(uiQueue)
    BY <1>3, <2>1 DEF ResultKinds
  <2>3. ASSUME NEW i \in 1 .. Len(Handled), Handled[i].task.live PROVE FALSE
    <3>1. i + 1 = 1
      BY <2>1, <2>2, <2>3 DEF QueueInv, QueueOk
    <3> QED  BY <3>1
  <2> QED  BY <2>1, <2>2, <2>3 DEF QueueInv, QueueOk, AllDead
<1>6. Head(uiQueue).kind = "failed" /\ Head(uiQueue).task.live =>
         /\ waiting = NoTask /\ (running.live => pc = "failed")
         /\ \A i \in Results(Handled) : Handled[i].kind # "success"
  <2>1. SUFFICES ASSUME Head(uiQueue).kind = "failed", Head(uiQueue).task.live
                 PROVE  /\ waiting = NoTask /\ (running.live => pc = "failed")
                        /\ \A i \in Results(Handled) : Handled[i].kind # "success"
    OBVIOUS
  <2>2. waiting = NoTask /\ (running.live => pc = "failed")
    BY <1>3, <2>1 DEF WorkInv, AllDead
  <2>3. ASSUME NEW i \in Results(Handled), Handled[i].kind = "success" PROVE FALSE
    <3>1. i + 1 \in Results(uiQueue) /\ uiQueue[i + 1].kind = "success" /\ i \in Nat \ {0}
      BY <1>2, <2>3 DEF Results
    <3>2. 1 = i + 1
      BY <1>3, <2>1, <3>1 DEF QueueInv, QueueOk
    <3> QED  BY <3>1, <3>2
  <2> QED  BY <2>2, <2>3
<1>7. QueueOk(Handled, DownloadState, orphaned)
  <2>1. SUFFICES ASSUME NEW i \in Results(Handled)
                 PROVE  /\ Handled[i].task.live
                        /\ \A j \in Results(Handled) : j = i
                        /\ Handled[i].kind = "success" =>
                              /\ Handled[i].task.step = DownloadState \/ orphaned
                              /\ \A j \in 1 .. Len(Handled) : Handled[j].task.live => j = i
    BY DEF QueueOk
  <2>2. /\ i + 1 \in Results(uiQueue) /\ Handled[i] = uiQueue[i + 1] /\ i \in Nat
        /\ \A j \in Results(Handled) : j \in Nat /\ j + 1 \in Results(uiQueue)
    BY <1>2 DEF Results
  <2>3. Handled[i].task.live /\ \A j \in Results(Handled) : j + 1 = i + 1
    BY <2>2 DEF QueueInv, QueueOk
  <2>4. \A j \in Results(Handled) : j = i
    BY <2>2, <2>3
  <2>5. Handled[i].kind = "success" =>
           /\ Handled[i].task.step = DownloadState \/ orphaned
           /\ \A j \in 1 .. Len(Handled) : Handled[j].task.live => j + 1 = i + 1
    BY <2>2 DEF QueueInv, QueueOk
  <2> QED  BY <2>2, <2>3, <2>4, <2>5
<1> QED  BY <1>1, <1>2, <1>4, <1>5, <1>6, <1>7

\* A message has been handled and nothing started.
LEMMA HandledInv ==
    ASSUME LiveInv, uiQueue # <<>>, uiQueue' = Handled, UNCHANGED execVars,
           \/ DownloadState' = DownloadState /\ (orphaned => orphaned')
           \/ orphaned'
           \/ Head(uiQueue).kind = "success"
           \/ Head(uiQueue).kind = "failed" /\ Head(uiQueue).task.live
    PROVE  WorkInv' /\ QueueInv'
<1> USE LeftInQueue DEF LiveInv
<1>1. Results(Handled) # {} => waiting' = NoTask /\ ~running'.live
  BY DEF QueueInv, execVars
<1>2. CASE DownloadState' = DownloadState /\ (orphaned => orphaned')
  BY <1>1, <1>2 DEF WorkInv, QueueInv, QueueOk, execVars
<1>3. CASE orphaned'
  BY <1>1, <1>3 DEF WorkInv, QueueInv, QueueOk, execVars
<1>4. CASE Head(uiQueue).kind = "success"
  <2>1. Results(Handled) = {} /\ waiting = NoTask /\ ~running.live
    BY <1>4 DEF ResultKinds
  <2> QED  BY <2>1 DEF WorkInv, QueueInv, QueueOk, execVars
<1>5. CASE Head(uiQueue).kind = "failed" /\ Head(uiQueue).task.live
  <2>1. /\ waiting = NoTask /\ (running.live => pc = "failed")
        /\ \A i \in Results(Handled) : Handled[i].kind # "success"
    BY <1>5
  <2>2. running.live => Results(Handled) = {}
    BY DEF WorkInv
  <2> QED  BY <1>1, <2>1, <2>2 DEF WorkInv, QueueInv, QueueOk, execVars
<1> QED  BY <1>2, <1>3, <1>4, <1>5

\* What is in the queue once the task on the executor has reported.
LEMMA ReportInv ==
    ASSUME LiveInv, NEW k \in ResultKinds \cup {"failed"}, Report(k), running.live,
           pc # "failed" \/ k # "success"
    PROVE  /\ uiQueue' \in Seq(Messages) /\ Len(uiQueue') = Len(uiQueue) + 1
           /\ uiQueue'[Len(uiQueue) + 1] = [kind |-> k, task |-> running]
           /\ \A i \in 1 .. Len(uiQueue) : uiQueue'[i] = uiQueue[i]
           /\ Results(uiQueue') = IF k \in ResultKinds THEN {Len(uiQueue) + 1} ELSE {}
           /\ QueueOk(uiQueue', DownloadState, orphaned)
<1> USE Parts DEF LiveInv
<1> DEFINE m == [kind |-> k, task |-> running]
<1>1. uiQueue' = Append(uiQueue, m) /\ m \in Messages /\ uiQueue \in Seq(Messages)
  BY DEF Report, ExecTyped, Messages
<1>2. /\ uiQueue' \in Seq(Messages) /\ Len(uiQueue') = Len(uiQueue) + 1
      /\ Len(uiQueue) \in Nat
      /\ uiQueue'[Len(uiQueue) + 1] = m
      /\ \A i \in 1 .. Len(uiQueue) : uiQueue'[i] = uiQueue[i]
  BY <1>1
<1>3. Results(uiQueue) = {}
  BY DEF WorkInv
<1>4. Results(uiQueue') = IF k \in ResultKinds THEN {Len(uiQueue) + 1} ELSE {}
  BY <1>2, <1>3 DEF Results
<1>5. k = "success" => /\ running.step = DownloadState \/ orphaned
                       /\ AllDead(uiQueue)
  BY DEF WorkInv
<1>6. QueueOk(uiQueue', DownloadState, orphaned)
  BY <1>2, <1>4, <1>5 DEF QueueOk, AllDead
<1> QED  BY <1>2, <1>4, <1>6

LEMMA EndsInv ==
    ASSUME LiveInv, NEW k \in ResultKinds, Ends(k), pc # "failed" \/ k # "success"
    PROVE  WorkInv' /\ QueueInv'
<1> USE DEF LiveInv
<1>1. /\ Report(k) /\ running' = NoTask /\ UNCHANGED <<waiting, DownloadState, orphaned>>
  BY DEF Ends, workerFrame, histVars
<1>2. ~running'.live
  BY <1>1 DEF NoTask
<1>3. CASE running.live
  <2>1. waiting = NoTask
    BY <1>3 DEF WorkInv
  <2> QED  BY <1>1, <1>2, <1>3, <2>1, ReportInv DEF WorkInv, QueueInv
<1>4. CASE ~running.live
  BY <1>1, <1>2, <1>4 DEF Report, WorkInv, QueueInv
<1> QED  BY <1>3, <1>4

LEMMA WorkerInv ==
    ASSUME LiveInv, Worker
    PROVE  WorkInv' /\ QueueInv'
<1> USE DEF LiveInv
<1>1. CASE StartDownload
  <2>1. /\ running' = waiting /\ waiting' = NoTask /\ waiting # NoTask
        /\ UNCHANGED <<uiQueue, DownloadState, orphaned>>
    BY <1>1 DEF StartDownload, histVars
  <2>2. Results(uiQueue) = {} /\ AllDead(uiQueue)
        /\ (waiting.step = DownloadState \/ orphaned)
    BY <2>1 DEF WorkInv, QueueInv
  <2> QED  BY <2>1, <2>2 DEF WorkInv, QueueInv, QueueOk
<1>2. CASE HeaderArrives
  BY <1>2 DEF HeaderArrives, workerFrame, histVars, WorkInv, QueueInv
<1>3. CASE BodyThrows
  <2>1. /\ Report("failed") /\ pc' = "failed"
        /\ UNCHANGED <<running, waiting, DownloadState, orphaned>>
    BY <1>3 DEF BodyThrows, workerFrame, histVars
  <2>2. CASE running.live
    <3>1. waiting = NoTask /\ Results(uiQueue') = {}
          /\ QueueOk(uiQueue', DownloadState, orphaned)
      BY <2>1, <2>2, ReportInv DEF WorkInv, ResultKinds
    <3> QED  BY <2>1, <3>1 DEF WorkInv, QueueInv
  <2>3. CASE ~running.live
    BY <2>1, <2>3 DEF Report, WorkInv, QueueInv
  <2> QED  BY <2>2, <2>3
<1>4. CASE BodyComplete \/ StrayComplete
  BY <1>4, EndsInv DEF BodyComplete, StrayComplete, ResultKinds
<1>5. CASE ExchangeLost \/ Refused \/ Empty \/ BodyShort \/ ReturnsInvalid
  BY <1>5, EndsInv DEF ExchangeLost, Refused, Empty, BodyShort, ReturnsInvalid, ResultKinds
<1> QED  BY <1>1, <1>2, <1>3, <1>4, <1>5 DEF Worker

LEMMA DisconnectionInv ==
    ASSUME LiveInv,
           \/ UserConnect \/ UserDisconnect \/ ConnectFails \/ Disconnected \/ PingAnswers
           \/ AnswerBusy /\ session' # session
    PROVE  WorkInv' /\ QueueInv'
<1>1. TypeOK /\ uiQueue \in Seq(Messages) /\ (Disconnected => Handled \in Seq(Messages))
  BY HandledTyped, Parts DEF LiveInv, TypeOK, Disconnected, Delivers
<1>2. \E then \in {"off", "connecting"}, q \in Seq(Messages) :
         Disconnect(then) /\ uiQueue' = Silenced(q, ResultKinds \cup StatusKinds)
  BY <1>1 DEF UserConnect, UserDisconnect, ConnectFails, Disconnected, PingAnswers, AnswerBusy,
     DefaultView, sessionVars
<1> QED  BY <1>1, <1>2, DisconnectInv

\* The next download is started, or the report handled: Continue does either.
LEMMA ContinueInv ==
    ASSUME LiveInv, uiQueue # <<>>, NEW s, NEW d, NEW spoilt, NEW savePath,
           NEW failed, Continue(s, d, spoilt, savePath, failed), orphaned => orphaned'
    PROVE  WorkInv' /\ QueueInv'
<1>1. CASE \E p : Start(s, p, Handled)
  BY <1>1, StartInv, HandledTyped, Parts DEF LiveInv
<1>2. CASE Quiet
  BY <1>2, HandledInv DEF Quiet, taskVars
<1> QED  BY <1>1, <1>2 DEF Continue

LEMMA ReportHandledInv ==
    ASSUME LiveInv, DownloadFailed \/ HiddenDownloaded \/ ListDownloaded
    PROVE  WorkInv' /\ QueueInv'
<1>1. uiQueue # <<>>
  BY DEF DownloadFailed, HiddenDownloaded, ListDownloaded, Delivers
<1>2. orphaned => orphaned'
  BY DEF DownloadFailed, HiddenDownloaded, ListDownloaded, histVars
<1>3. CASE \E s, d, spoilt, savePath, failed : Continue(s, d, spoilt, savePath, failed)
  BY <1>1, <1>2, <1>3, ContinueInv
<1>4. CASE Quiet
  BY <1>1, <1>2, <1>4, HandledInv DEF Quiet, taskVars
<1>5. CASE DownloadFailed /\ uiQueue' = Handled /\ UNCHANGED execVars
           /\ DownloadState = "midi"
  <2>1. Head(uiQueue).kind = "failed" \/ Head(uiQueue).kind \in ResultKinds
    BY <1>5 DEF DownloadFailed, Delivers, ResultKinds
  <2>2. orphaned' \/ Head(uiQueue).task.live
    BY <1>5 DEF DownloadFailed
  <2>3. CASE Head(uiQueue).kind = "failed"
    BY <1>1, <1>5, <2>2, <2>3, HandledInv
  <2>4. CASE Head(uiQueue).kind \in ResultKinds
    <3>1. Results(Handled) = {} /\ waiting = NoTask /\ ~running.live
      BY <1>1, <2>4, LeftInQueue
    <3> QED  BY <1>5, <3>1 DEF WorkInv, QueueInv, QueueOk, execVars
  <2> QED  BY <2>1, <2>3, <2>4
<1>6. CASE HiddenDownloaded
  BY <1>3, <1>4, <1>6 DEF HiddenDownloaded, ListDone
<1>7. CASE ListDownloaded
  BY <1>3, <1>4, <1>7 DEF ListDownloaded, ListDone
<1>8. CASE DownloadFailed
  BY <1>3, <1>4, <1>5, <1>8 DEF DownloadFailed
<1> QED  BY <1>6, <1>7, <1>8

LEMMA OtherDownloadedInv ==
    ASSUME LiveInv, OtherDownloaded
    PROVE  WorkInv' /\ QueueInv'
<1>1. uiQueue # <<>> /\ Head(uiQueue).kind = "success" /\ Handled \in Seq(Messages)
  BY HandledTyped, Parts DEF LiveInv, OtherDownloaded, Delivers
<1>2. CASE Start("lyrics", "none", Handled)
  BY <1>1, <1>2, StartInv DEF LiveInv
<1>3. CASE uiQueue' = Silenced(Handled, StatusKinds) /\ UNCHANGED taskVars
  <2>1. Results(Handled) = {} /\ waiting = NoTask /\ ~running.live
    BY <1>1, LeftInQueue DEF ResultKinds
  <2>2. AllDead(uiQueue)' /\ (Results(uiQueue) = {})'
    BY <1>1, <1>3, <2>1, SilencedDead
  <2> QED  BY <1>3, <2>1, <2>2, FreshInv DEF taskVars, execVars
<1>4. CASE uiQueue' = Handled /\ UNCHANGED execVars
  BY <1>1, <1>4, HandledInv
<1> QED  BY <1>2, <1>3, <1>4 DEF OtherDownloaded, Quiet, taskVars

LEMMA StatusAskedInv ==
    ASSUME LiveInv, StatusAsked
    PROVE  WorkInv' /\ QueueInv'
<1> USE Parts DEF LiveInv
<1>1. PICK k \in StatusKinds : uiQueue' = Append(uiQueue, [kind |-> k, task |-> NoTask])
  BY DEF StatusAsked
<1> DEFINE m == [kind |-> k, task |-> NoTask]
<1>2. m \in Messages /\ ~m.task.live /\ m.kind \notin ResultKinds
  BY DEF Messages, Tasks, NoTask, StatusKinds, ResultKinds
<1>3. /\ Len(uiQueue') = Len(uiQueue) + 1 /\ Len(uiQueue) \in Nat
      /\ uiQueue'[Len(uiQueue) + 1] = m
      /\ \A i \in 1 .. Len(uiQueue) : uiQueue'[i] = uiQueue[i]
  BY <1>1, <1>2 DEF ExecTyped
<1>4. UNCHANGED <<waiting, running, pc, DownloadState, orphaned>>
  BY DEF StatusAsked, workerFrame, histVars
<1>5. Results(uiQueue') = Results(uiQueue) /\ (AllDead(uiQueue) => AllDead(uiQueue'))
  BY <1>2, <1>3 DEF Results, AllDead
<1>6. QueueOk(uiQueue', DownloadState, orphaned)
  <2>1. Results(uiQueue) \subseteq 1 .. Len(uiQueue)
    BY DEF Results
  <2> QED  BY <1>2, <1>3, <1>5, <2>1 DEF QueueInv, QueueOk
<1> QED  BY <1>4, <1>5, <1>6 DEF WorkInv, QueueInv

LEMMA StatusArrivesInv ==
    ASSUME LiveInv, StatusArrives
    PROVE  WorkInv' /\ QueueInv'
<1>1. uiQueue # <<>> /\ Handled \in Seq(Messages)
  BY HandledTyped, Parts DEF LiveInv, StatusArrives, Delivers
<1>2. CASE \E s, p : Start(s, p, Handled)
  BY <1>1, <1>2, StartInv DEF LiveInv
<1>3. CASE uiQueue' = Handled /\ UNCHANGED <<DownloadState, execVars>>
  BY <1>1, <1>3, HandledInv DEF StatusArrives, histVars
<1> QED  BY <1>2, <1>3 DEF StatusArrives

\* No step depends on anything else.
LEMMA OthersInv ==
    ASSUME LiveInv, UNCHANGED <<DownloadState, orphaned, waiting, running, pc, uiQueue>>
    PROVE  WorkInv' /\ QueueInv'
BY DEF LiveInv, WorkInv, QueueInv

LEMMA LiveStep == LiveInv /\ [Next]_vars => LiveInv'
<1> SUFFICES ASSUME LiveInv, [Next]_vars PROVE WorkInv' /\ QueueInv'
  BY TypeStep DEF LiveInv
<1>1. CASE Worker
  BY <1>1, WorkerInv
<1>2. CASE UserConnect \/ UserDisconnect \/ ConnectFails \/ Disconnected \/ PingAnswers
  BY <1>2, DisconnectionInv
<1>3. CASE AnswerBusy
  <2>1. CASE \E then \in {"connecting", "off"} : DefaultView(then)
                /\ uiQueue' = Silenced(uiQueue, ResultKinds \cup StatusKinds)
    BY <2>1, DisconnectInv, Parts DEF LiveInv, ExecTyped, DefaultView
  <2>2. CASE UNCHANGED <<taskVars, histVars, uiQueue>>
    BY <2>2, OthersInv DEF taskVars, execVars, histVars
  <2> QED  BY <1>3, <2>1, <2>2 DEF AnswerBusy
<1>4. CASE DownloadFailed \/ HiddenDownloaded \/ ListDownloaded
  BY <1>4, ReportHandledInv
<1>5. CASE OtherDownloaded
  BY <1>5, OtherDownloadedInv
<1>6. CASE StatusArrives
  BY <1>6, StatusArrivesInv
<1>7. CASE StatusAsked
  BY <1>7, StatusAskedInv
<1>8. CASE InvalidResponse \/ Cancelled
  BY <1>8, HandledInv DEF InvalidResponse, Cancelled, Delivers, Quiet, taskVars, histVars
<1>9. CASE UserMidi
  BY <1>9, StartInv, Parts DEF UserMidi, LiveInv, ExecTyped
<1>10. CASE ImportEnds
  <2>1. CASE Start("info", "none", Silenced(uiQueue, StatusKinds))
    BY <2>1, StartInv, SilencedTyped, Parts DEF LiveInv, ExecTyped
  <2>2. CASE UNCHANGED <<DownloadState, execVars, uiQueue>>
    BY <1>10, <2>2, OthersInv DEF ImportEnds, execVars, histVars
  <2> QED  BY <1>10, <2>1, <2>2 DEF ImportEnds
<1>11. CASE \E m \in Models, plan \in SUBSET (Lists \cup {"main"}) : Login(m, plan)
  <2>1. UNCHANGED orphaned
    BY <1>11 DEF Login
  <2>2. CASE \E s, p : Start(s, p, uiQueue)
    BY <2>2, StartInv, Parts DEF LiveInv, ExecTyped
  <2>3. CASE UNCHANGED <<DownloadState, execVars, uiQueue>>
    BY <2>1, <2>3, OthersInv DEF execVars
  <2> QED  BY <1>11, <2>2, <2>3 DEF Login
<1>12. CASE PingBegins \/ PingInVain
  BY <1>12, OthersInv DEF PingBegins, PingInVain, taskVars, execVars, histVars
<1>13. CASE \E f \in Changing : BoxUpdates(f)
  BY <1>13, OthersInv DEF BoxUpdates, taskVars, execVars, histVars
<1>14. CASE UNCHANGED vars
  BY <1>14, OthersInv DEF vars, execVars, histVars
<1> QED  BY <1>1, <1>2, <1>3, <1>4, <1>5, <1>6, <1>7, <1>8, <1>9, <1>10, <1>11, <1>12, <1>13,
            <1>14 DEF Next, User, Deliver

LEMMA LiveInit == Init => LiveInv
<1> SUFFICES ASSUME Init PROVE LiveInv
  OBVIOUS
<1>1. waiting = NoTask /\ ~running.live /\ Len(uiQueue) = 0
  BY DEF Init, NoTask
<1> QED  BY <1>1, TypeInit DEF LiveInv, WorkInv, QueueInv, QueueOk, Results

\* A success is only ever handled in the name of the download it is about, however
\* clicks, statuses, disconnections and other failures come in between: a list's
\* version is never saved for another list's file.
THEOREM SuccessesNameTheirDownload == Spec => []SuccessNamesState
<1>1. LiveInv => SuccessNamesState
  <2> SUFFICES ASSUME LiveInv, Delivers({"success"}), ~orphaned
               PROVE  DownloadState = Head(uiQueue).task.step
    BY DEF SuccessNamesState
  <2>1. uiQueue # <<>> /\ Head(uiQueue).kind = "success"
    BY DEF Delivers
  <2> QED  BY <2>1, LeftInQueue
<1> QED  BY <1>1, LiveInit, LiveStep, PTL DEF Spec
-----------------------------------------------------------------------------
(* Who may turn allowTimerPing on.                                         *)
(*                                                                         *)
(* PingTask is let in again by a status, by an invalid response and by the *)
(* added songs.  None of them can come in the middle of a chain: the first *)
(* needs the polling, which starts when nothing is fetched any more or is  *)
(* fetched on its own (Flagged); the others are the last live message.     *)

HasStatus(q) == \E i \in 1 .. Len(q) : q[i].kind \in StatusKinds

\* The reports that continue a chain, and a chain to be continued.
Tells == {"success", "refused", "failed"}
Telling(q) == \E i \in 1 .. Len(q) : q[i].task.live /\ q[i].kind \in Tells
Due == waiting # NoTask \/ (running.live /\ pc # "failed") \/ Telling(uiQueue)

\* A live report is alone, but for the second report of a download that failed.
OrderInv ==
    /\ \A i, j \in 1 .. Len(uiQueue) :
          uiQueue[i].task.live /\ uiQueue[j].task.live /\ uiQueue[i].kind \in Tells =>
             i = j \/ (uiQueue[i].kind = "failed" /\ uiQueue[j].kind = "invalid" /\ i < j)
    /\ Telling(uiQueue) => waiting = NoTask /\ (running.live => pc = "failed")

\* The current download was asked for by a status.
Flagged == \/ DownloadState = "hidden" /\ flagDownloadingHidden
           \/ DownloadState = "offline" /\ flagDownloadingDD /\ intSvrModel = "SONCA"

Main == {"toc", "lyrics", "info"}

PollInv ==
    ~orphaned /\ Due /\ DownloadState \in Chain /\ ~Flagged
        => ~polling /\ ~HasStatus(uiQueue)

HoldInv == ~orphaned /\ Due /\ DownloadState \in Chain /\ ~Flagged => ~allowTimerPing

ImportingInv ==
    ~orphaned /\ importing /\ session = "up" =>
        /\ ~allowTimerPing /\ ~polling /\ ~serverStatus
        /\ waiting = NoTask /\ ~running.live
        /\ AllDead(uiQueue) /\ ~HasStatus(uiQueue)

ConnectingInv ==
    ~orphaned /\ session = "connecting" =>
        /\ ~polling /\ ~running.live
        /\ AllDead(uiQueue) /\ ~HasStatus(uiQueue)
        /\ waiting # NoTask => waiting.step = "midi"

OffInv ==
    ~orphaned /\ session = "off" =>
        waiting = NoTask /\ ~running.live /\ AllDead(uiQueue)

SessionInv ==
    /\ session = "connecting" =>
          ~importing /\ \A i \in 1 .. Len(uiQueue) : uiQueue[i].kind # "success"
    /\ session = "off" => intSvrModel = "none"

\* No step of a chain is under way with allowTimerPing on and no status known.
PingHeldDuringChain ==
    Pending(waiting) \/ Pending(running)
        => serverStatus \/ ~allowTimerPing \/ orphaned

PingInv ==
    /\ PollInv /\ HoldInv /\ ImportingInv /\ ConnectingInv /\ OffInv /\ SessionInv
    /\ PingHeldDuringChain

ChainInv == LiveInv /\ OrderInv /\ PingInv

\* What a step does to the queue and the executor.
LEMMA QueueSteps ==
    ASSUME TypeOK, [Next]_vars
    PROVE  \/ \E s, p : \E q \in Seq(Messages) : Start(s, p, q)
           \/ \E then : \E q \in Seq(Messages) :
                 Disconnect(then) /\ uiQueue' = Silenced(q, ResultKinds \cup StatusKinds)
           \/ uiQueue # <<>> /\ uiQueue' = Handled /\ UNCHANGED execVars
           \/ Worker
           \/ StatusAsked
           \/ OtherDownloaded /\ uiQueue' = Silenced(Handled, StatusKinds)
              /\ UNCHANGED execVars
           \/ UNCHANGED <<execVars, uiQueue>>
<1> DEFINE starts == \E s, p : \E q \in Seq(Messages) : Start(s, p, q)
           drops == \E then : \E q \in Seq(Messages) :
                 Disconnect(then) /\ uiQueue' = Silenced(q, ResultKinds \cup StatusKinds)
           handles == uiQueue # <<>> /\ uiQueue' = Handled /\ UNCHANGED execVars
<1>1. uiQueue \in Seq(Messages) /\ (uiQueue # <<>> => Handled \in Seq(Messages))
  BY HandledTyped, Parts DEF TypeOK
<1>2. CASE UserConnect \/ UserDisconnect \/ ConnectFails \/ PingAnswers
  <2>1. drops
    BY <1>1, <1>2 DEF UserConnect, UserDisconnect, ConnectFails, PingAnswers, DefaultView
  <2> QED  BY <2>1
<1>3. CASE Disconnected
  BY <1>1, <1>3 DEF Disconnected, Delivers, DefaultView
<1>4. CASE AnswerBusy
  <2>1. CASE \E then : DefaultView(then)
             /\ uiQueue' = Silenced(uiQueue, ResultKinds \cup StatusKinds)
    BY <1>1, <2>1 DEF DefaultView
  <2>2. CASE UNCHANGED <<taskVars, uiQueue>>
    BY <2>2 DEF taskVars
  <2> QED  BY <1>4, <2>1, <2>2 DEF AnswerBusy
<1>5. CASE \E s, d, spoilt, savePath, failed :
              uiQueue # <<>> /\ Continue(s, d, spoilt, savePath, failed)
  BY <1>1, <1>5 DEF Continue, Quiet, taskVars
<1>6. CASE DownloadFailed
  <2>1. uiQueue # <<>>
    BY <1>6 DEF DownloadFailed, Delivers
  <2>2. CASE \E s, d, spoilt, savePath, failed : Continue(s, d, spoilt, savePath, failed)
    BY <1>5, <2>1, <2>2
  <2>3. CASE uiQueue' = Handled /\ UNCHANGED execVars
    BY <2>1, <2>3
  <2> QED  BY <1>6, <2>2, <2>3 DEF DownloadFailed, Quiet, taskVars
<1>7. CASE HiddenDownloaded \/ ListDownloaded
  <2>1. uiQueue # <<>>
    BY <1>7 DEF HiddenDownloaded, ListDownloaded, Delivers
  <2>2. CASE \E d, spoilt : ListDone(d, spoilt)
    BY <1>5, <2>1, <2>2 DEF ListDone, Quiet, taskVars
  <2>3. CASE Quiet
    BY <2>1, <2>3 DEF Quiet, taskVars
  <2> QED  BY <1>7, <2>2, <2>3 DEF HiddenDownloaded, ListDownloaded
<1>8. CASE OtherDownloaded
  BY <1>1, <1>8 DEF OtherDownloaded, Delivers, Quiet, taskVars
<1>9. CASE InvalidResponse \/ Cancelled
  BY <1>9 DEF InvalidResponse, Cancelled, Delivers, Quiet, taskVars
<1>10. CASE StatusArrives
  <2>1. uiQueue # <<>>
    BY <1>10 DEF StatusArrives, Delivers
  <2> QED  BY <1>1, <1>10, <2>1 DEF StatusArrives
<1>11. CASE UserMidi
  BY <1>1, <1>11 DEF UserMidi
<1>12. CASE ImportEnds
  <2>1. Silenced(uiQueue, StatusKinds) \in Seq(Messages)
    BY <1>1, SilencedTyped
  <2> QED  BY <1>12, <2>1 DEF ImportEnds
<1>13. CASE \E m \in Models, plan \in SUBSET (Lists \cup {"main"}) : Login(m, plan)
  BY <1>1, <1>13 DEF Login
<1>14. CASE PingBegins \/ PingInVain \/ \E f \in Changing : BoxUpdates(f)
  BY <1>14 DEF PingBegins, PingInVain, BoxUpdates, taskVars
<1>15. CASE UNCHANGED vars
  BY <1>15 DEF vars
<1> QED  BY <1>2, <1>3, <1>4, <1>6, <1>7, <1>8, <1>9, <1>10, <1>11, <1>12, <1>13, <1>14, <1>15
            DEF Next, User, Deliver

LEMMA DeadOrder ==
    ASSUME AllDead(uiQueue)'
    PROVE  OrderInv' /\ (Due' => waiting' # NoTask \/ (running'.live /\ pc' # "failed"))
BY DEF AllDead, OrderInv, Telling, Due

\* When a live report is handled and nothing started, nothing is due.
LEMMA ReportEnds ==
    ASSUME LiveInv, OrderInv, uiQueue # <<>>, uiQueue' = Handled, UNCHANGED execVars
    PROVE  /\ OrderInv'
           /\ Head(uiQueue).task.live /\ Head(uiQueue).kind \in Tells \cup {"invalid"} =>
                 ~Due'
           /\ Due' => Due
           /\ HasStatus(uiQueue') => HasStatus(uiQueue)
<1> USE HandledMessages, Parts DEF LiveInv
<1>1. \A i \in 1 .. Len(uiQueue') :
         uiQueue'[i] = uiQueue[i + 1] /\ i + 1 \in 1 .. Len(uiQueue) /\ i \in Nat \ {0}
  OBVIOUS
<1>2. Telling(uiQueue') => Telling(uiQueue)
  BY <1>1 DEF Telling
<1>3. HasStatus(uiQueue') => HasStatus(uiQueue)
  BY <1>1 DEF HasStatus
<1>4. OrderInv'
  <2>1. ASSUME NEW i \in 1 .. Len(uiQueue'), NEW j \in 1 .. Len(uiQueue'),
               uiQueue'[i].task.live, uiQueue'[j].task.live, uiQueue'[i].kind \in Tells
        PROVE  i = j \/ (uiQueue'[i].kind = "failed" /\ uiQueue'[j].kind = "invalid"
                         /\ i < j)
    <3>1. \/ i + 1 = j + 1
          \/ uiQueue[i + 1].kind = "failed" /\ uiQueue[j + 1].kind = "invalid" /\ i + 1 < j + 1
      BY <1>1, <2>1 DEF OrderInv
    <3> QED  BY <1>1, <3>1
  <2> QED  BY <1>2, <2>1 DEF OrderInv, execVars
<1>5. ASSUME Head(uiQueue).task.live, Head(uiQueue).kind \in Tells \cup {"invalid"}
      PROVE  ~Due'
  <2>1. 1 \in 1 .. Len(uiQueue)
    OBVIOUS
  <2>2. CASE Head(uiQueue).kind \in Tells
    <3>1. waiting = NoTask /\ (running.live => pc = "failed")
      BY <1>5, <2>1, <2>2 DEF OrderInv, Telling
    <3>2. ASSUME NEW i \in 1 .. Len(uiQueue'), uiQueue'[i].task.live,
                 uiQueue'[i].kind \in Tells
          PROVE  FALSE
      <4>1. \/ 1 = i + 1
            \/ uiQueue[i + 1].kind = "invalid"
        BY <1>1, <1>5, <2>1, <2>2, <3>2 DEF OrderInv
      <4> QED  BY <1>1, <3>2, <4>1 DEF Tells
    <3> QED  BY <3>1, <3>2 DEF Due, Telling, execVars
  <2>3. CASE Head(uiQueue).kind = "invalid"
    <3>1. waiting = NoTask /\ ~running.live
      BY <2>3, LeftInQueue DEF ResultKinds
    <3>2. ASSUME NEW i \in 1 .. Len(uiQueue'), uiQueue'[i].task.live,
                 uiQueue'[i].kind \in Tells
          PROVE  FALSE
      <4>1. i + 1 = 1 \/ i + 1 < 1
        BY <1>1, <1>5, <2>1, <3>2 DEF OrderInv
      <4> QED  BY <1>1, <4>1
    <3> QED  BY <3>1, <3>2 DEF Due, Telling, execVars
  <2> QED  BY <1>5, <2>2, <2>3
<1> QED  BY <1>2, <1>3, <1>4, <1>5 DEF Due, execVars

LEMMA ReportOrder ==
    ASSUME LiveInv, OrderInv, NEW k \in ResultKinds \cup {"failed"}, Report(k),
           k = "invalid" \/ pc # "failed",
           waiting' = waiting, k \in ResultKinds => running' = NoTask,
           k = "failed" => pc' = "failed"
    PROVE  OrderInv'
<1> USE Parts DEF LiveInv
<1>1. CASE ~running.live
  BY <1>1 DEF Report, OrderInv, NoTask, ResultKinds
<1>2. CASE running.live
  <2>1. /\ Len(uiQueue') = Len(uiQueue) + 1 /\ Len(uiQueue) \in Nat
        /\ uiQueue'[Len(uiQueue) + 1] = [kind |-> k, task |-> running]
        /\ \A i \in 1 .. Len(uiQueue) : uiQueue'[i] = uiQueue[i]
    BY <1>2, ReportInv DEF ExecTyped
  <2>2. waiting' = NoTask
    BY <1>2 DEF WorkInv
  <2>3. ~running'.live \/ pc' = "failed"
    BY DEF NoTask
  <2>4. CASE AllDead(uiQueue)
    <3>1. \A i \in 1 .. Len(uiQueue') : uiQueue'[i].task.live => i = Len(uiQueue')
      BY <2>1, <2>4 DEF AllDead
    <3> QED  BY <2>2, <2>3, <3>1 DEF OrderInv
  <2>5. CASE k = "invalid" /\ pc = "failed"
    <3>1. Results(uiQueue) = {}
      BY <1>2 DEF WorkInv
    <3>2. ASSUME NEW i \in 1 .. Len(uiQueue'), NEW j \in 1 .. Len(uiQueue'),
                 uiQueue'[i].task.live, uiQueue'[j].task.live, uiQueue'[i].kind \in Tells
          PROVE  i = j \/ (uiQueue'[i].kind = "failed" /\ uiQueue'[j].kind = "invalid"
                           /\ i < j)
      <4>1. i \in 1 .. Len(uiQueue) /\ uiQueue'[i].kind = "failed"
        BY <2>1, <2>5, <3>1, <3>2 DEF Results, Tells, ResultKinds
      <4>2. CASE j = Len(uiQueue')
        BY <2>1, <2>5, <4>1, <4>2
      <4>3. CASE j # Len(uiQueue')
        <5>1. j \in 1 .. Len(uiQueue)
          BY <2>1, <4>3
        <5> QED  BY <2>1, <3>2, <4>1, <5>1 DEF OrderInv
      <4> QED  BY <4>2, <4>3
    <3> QED  BY <2>2, <2>3, <3>2 DEF OrderInv
  <2> QED  BY <1>2, <2>4, <2>5 DEF WorkInv
<1> QED  BY <1>1, <1>2

LEMMA OrderStep == LiveInv /\ OrderInv /\ [Next]_vars => OrderInv'
<1> SUFFICES ASSUME LiveInv, OrderInv, [Next]_vars PROVE OrderInv'
  OBVIOUS
<1> USE DEF LiveInv
<1>1. CASE \E s, p : \E q \in Seq(Messages) : Start(s, p, q)
  BY <1>1, SilencedDead, DeadOrder DEF Start
<1>2. CASE \E then : \E q \in Seq(Messages) :
              Disconnect(then) /\ uiQueue' = Silenced(q, ResultKinds \cup StatusKinds)
  BY <1>2, SilencedDead, DeadOrder
<1>3. CASE uiQueue # <<>> /\ uiQueue' = Handled /\ UNCHANGED execVars
  BY <1>3, ReportEnds
<1>4. CASE Worker
  <2>1. CASE StartDownload
    BY <2>1, DeadOrder DEF StartDownload, WorkInv
  <2>2. CASE HeaderArrives
    BY <2>2 DEF HeaderArrives, workerFrame, OrderInv
  <2>3. CASE BodyThrows
    BY <2>3, ReportOrder DEF BodyThrows, workerFrame, ResultKinds
  <2>4. CASE ReturnsInvalid
    BY <2>4, ReportOrder DEF ReturnsInvalid, Ends, workerFrame, ResultKinds
  <2>5. CASE ExchangeLost \/ Refused \/ Empty \/ BodyComplete \/ StrayComplete \/ BodyShort
    BY <2>5, ReportOrder DEF ExchangeLost, Refused, Empty, BodyComplete, StrayComplete,
       BodyShort, Ends, workerFrame, ResultKinds
  <2> QED  BY <1>4, <2>1, <2>2, <2>3, <2>4, <2>5 DEF Worker
<1>5. CASE StatusAsked
  <2>1. PICK k \in StatusKinds : uiQueue' = Append(uiQueue, [kind |-> k, task |-> NoTask])
    BY <1>5 DEF StatusAsked
  <2>2. [kind |-> k, task |-> NoTask] \in Messages /\ uiQueue \in Seq(Messages)
        /\ ~NoTask.live
    BY Parts DEF ExecTyped, Messages, Tasks, NoTask
  <2>3. /\ Len(uiQueue') = Len(uiQueue) + 1 /\ Len(uiQueue) \in Nat
        /\ \A i \in 1 .. Len(uiQueue') :
              uiQueue'[i].task.live => i \in 1 .. Len(uiQueue) /\ uiQueue'[i] = uiQueue[i]
    BY <2>1, <2>2
  <2>4. Telling(uiQueue') => Telling(uiQueue)
    BY <2>3 DEF Telling
  <2> QED  BY <1>5, <2>3, <2>4 DEF OrderInv, StatusAsked, workerFrame
<1>6. CASE OtherDownloaded /\ uiQueue' = Silenced(Handled, StatusKinds)
  <2>1. Handled \in Seq(Messages)
    BY <1>6, HandledTyped, Parts DEF OtherDownloaded, Delivers
  <2> QED  BY <1>6, <2>1, SilencedDead, DeadOrder
<1>7. CASE UNCHANGED <<execVars, uiQueue>>
  BY <1>7 DEF OrderInv, execVars
<1> QED  BY <1>1, <1>2, <1>3, <1>4, <1>5, <1>6, <1>7, QueueSteps

LEMMA SilencedStatus ==
    ASSUME NEW q \in Seq(Messages), NEW kinds
    PROVE  /\ StatusKinds \subseteq kinds \/ ~HasStatus(q) => ~HasStatus(Silenced(q, kinds))
           /\ ResultKinds \subseteq kinds =>
                 \A i \in 1 .. Len(Silenced(q, kinds)) :
                    Silenced(q, kinds)[i].kind # "success"
<1> DEFINE S == Silenced(q, kinds)
<1>1. Len(S) = Len(q)
  BY SilencedTyped
<1>2. ASSUME NEW i \in 1 .. Len(q)
      PROVE  S[i].kind = IF q[i].kind \in kinds THEN "cancelled" ELSE q[i].kind
  <2>1. q[i] \in Messages
    OBVIOUS
  <2>2. i \in DOMAIN q
    OBVIOUS
  <2> QED  BY <2>1, <2>2 DEF Silenced, Messages, Tasks
<1> QED  BY <1>1, <1>2 DEF HasStatus, StatusKinds, ResultKinds

\* All downloads are cancelled and the polling stops.
LEMMA DisconnectPing ==
    ASSUME LiveInv, NEW then \in {"off", "connecting"}, Disconnect(then),
           NEW q \in Seq(Messages),
           uiQueue' = Silenced(q, ResultKinds \cup StatusKinds),
           then = "connecting" => ~importing', then = "off" => intSvrModel' = "none"
    PROVE  PingInv'
<1> USE DEF LiveInv
<1>1. /\ session' = then /\ ~polling' /\ waiting' = NoTask /\ ~running'.live
  BY DEF Disconnect, TypeOK, Tasks
<1>2. /\ AllDead(uiQueue)' /\ ~HasStatus(uiQueue)'
      /\ \A i \in 1 .. Len(uiQueue') : uiQueue'[i].kind # "success"
  BY SilencedDead, SilencedStatus
<1>3. ~Due' /\ ~Pending(waiting)' /\ ~Pending(running)'
  BY <1>1, <1>2, DeadOrder DEF Pending, NoTask
<1> QED  BY <1>1, <1>2, <1>3 DEF PingInv, PollInv, HoldInv, ImportingInv, ConnectingInv,
            OffInv, SessionInv, PingHeldDuringChain

LEMMA DisconnectionPing ==
    ASSUME ChainInv,
           \/ UserConnect \/ UserDisconnect \/ ConnectFails \/ Disconnected \/ PingAnswers
           \/ AnswerBusy /\ \E then \in {"connecting", "off"} :
                 /\ DefaultView(then)
                 /\ uiQueue' = Silenced(uiQueue, ResultKinds \cup StatusKinds)
    PROVE  PingInv'
<1>1. TypeOK /\ uiQueue \in Seq(Messages) /\ (Disconnected => Handled \in Seq(Messages))
  BY HandledTyped, Parts DEF ChainInv, LiveInv, TypeOK, Disconnected, Delivers
<1>3. CASE UserConnect \/ PingAnswers
  <2>1. Disconnect("connecting") /\ uiQueue' = Silenced(uiQueue, ResultKinds \cup StatusKinds)
    BY <1>3 DEF UserConnect, PingAnswers
  <2>2. ~importing'
    BY <1>3 DEF UserConnect, PingAnswers, pingFrame, dialogVars
  <2> QED  BY <1>1, <2>1, <2>2, DisconnectPing DEF ChainInv
<1>4. CASE UserDisconnect \/ ConnectFails \/ Disconnected
  BY <1>1, <1>4, DisconnectPing DEF UserDisconnect, ConnectFails, Disconnected, DefaultView,
     ChainInv
<1>5. CASE AnswerBusy /\ \E then \in {"connecting", "off"} :
              /\ DefaultView(then)
              /\ uiQueue' = Silenced(uiQueue, ResultKinds \cup StatusKinds)
  <2>1. ~importing'
    BY <1>5 DEF AnswerBusy
  <2> QED  BY <1>1, <1>5, <2>1, DisconnectPing DEF DefaultView, ChainInv
<1> QED  BY <1>3, <1>4, <1>5

\* While a live report or a status waits, a session is logged in and not importing.
LEMMA HeadPing ==
    ASSUME ChainInv, uiQueue # <<>>, ~orphaned,
           Head(uiQueue).task.live \/ (Head(uiQueue).kind = "status" /\ session # "off")
    PROVE  session = "up" /\ ~importing
<1> USE DEF ChainInv
<1>1. 1 \in 1 .. Len(uiQueue) /\ uiQueue[1] = Head(uiQueue)
  BY HandledMessages, Parts DEF LiveInv
<1>2. ~AllDead(uiQueue) \/ (HasStatus(uiQueue) /\ session # "off")
  BY <1>1 DEF AllDead, HasStatus, StatusKinds
<1>3. session \in {"off", "connecting", "up"}
  BY DEF LiveInv, TypeOK
<1> QED  BY <1>2, <1>3 DEF PingInv, ImportingInv, ConnectingInv, OffInv

\* A step of the chain, or a download for a status or the user, is started.
LEMMA StartPing ==
    ASSUME LiveInv, NEW s, NEW p, NEW q \in Seq(Messages), Start(s, p, q),
           ~orphaned' => session' = "up" /\ ~importing',
           session' = "connecting" => ~importing', session' = "off" => intSvrModel' = "none",
           ~orphaned' /\ s \in Chain /\ ~Flagged' => ~allowTimerPing',
           ~orphaned' /\ s \in Chain => serverStatus' \/ ~allowTimerPing',
           ~orphaned' /\ s \in Chain /\ ~Flagged' => ~polling' /\ ~HasStatus(q)
    PROVE  PingInv'
<1> USE DEF LiveInv
<1>1. ~running'.live /\ waiting' = Task(s, p) /\ DownloadState' = s /\ waiting'.step = s
  BY DEF Start, TypeOK, Tasks, Task
<1>2. /\ ~HasStatus(q) => ~HasStatus(uiQueue)'
      /\ \A i \in 1 .. Len(uiQueue') : uiQueue'[i].kind # "success"
  BY SilencedStatus DEF Start
<1>3. Pending(waiting)' => s \in Chain
  BY <1>1 DEF Pending
<1>4. ~Pending(running)'
  BY <1>1 DEF Pending
<1>5. PollInv' /\ HoldInv'
  BY <1>1, <1>2 DEF PollInv, HoldInv
<1> QED  BY <1>2, <1>3, <1>4, <1>5 DEF PingInv, ImportingInv, ConnectingInv, OffInv, SessionInv,
            PingHeldDuringChain

\* A report ends a download for good.
LEMMA EndPing ==
    ASSUME ChainInv, uiQueue # <<>>, uiQueue' = Handled, UNCHANGED execVars,
           Head(uiQueue).kind \in Tells \cup {"invalid"},
           ~orphaned' => ~orphaned /\ Head(uiQueue).task.live,
           UNCHANGED <<sessionVars, importing>>,
           UNCHANGED <<serverStatus, allowTimerPing>> \/ ~running.live
    PROVE  PingInv'
<1> USE DEF ChainInv
<1>1. ~orphaned' => ~Due' /\ waiting' = NoTask
  BY ReportEnds DEF Due
<1>2. ~orphaned' => session' = "up" /\ ~importing'
  BY HeadPing DEF sessionVars
<1>3. PingHeldDuringChain'
  BY <1>1 DEF PingInv, PingHeldDuringChain, Pending, NoTask, execVars
<1>4. SessionInv'
  BY HandledMessages, Parts DEF LiveInv, PingInv, SessionInv, sessionVars
<1> QED  BY <1>1, <1>2, <1>3, <1>4 DEF PingInv, PollInv, HoldInv, ImportingInv, ConnectingInv,
            OffInv

\* The next download of a chain is started, or the report ends it.
LEMMA ContinuePing ==
    ASSUME ChainInv, uiQueue # <<>>, Head(uiQueue).kind \in {"success", "refused", "failed"},
           NEW s, NEW d, NEW spoilt, NEW savePath, NEW failed,
           Continue(s, d, spoilt, savePath, failed),
           ~orphaned' => ~orphaned /\ Head(uiQueue).task.live,
           DownloadState \in Chain, ~Flagged,
           UNCHANGED <<sessionVars, importing, serverStatus, polling>>
    PROVE  PingInv'
<1> USE DEF ChainInv
<1>1. 1 \in 1 .. Len(uiQueue) /\ uiQueue[1] = Head(uiQueue) /\ Handled \in Seq(Messages)
  BY HandledMessages, HandledTyped, Parts DEF LiveInv
<1>2. ~orphaned' => Due
  BY <1>1 DEF Due, Telling, Tells
<1>3. ~orphaned' => ~polling /\ ~HasStatus(uiQueue)
  BY <1>2 DEF PingInv, PollInv
<1>4. ~HasStatus(uiQueue) => ~HasStatus(Handled)
  BY HandledMessages, Parts DEF HasStatus, LiveInv
<1>5. ~orphaned' => session' = "up" /\ ~importing'
  BY HeadPing DEF sessionVars
<1>6. SessionInv
  BY DEF PingInv
<1>7. CASE \E p : Start(s, p, Handled) /\ HoldPing
  BY <1>1, <1>3, <1>4, <1>5, <1>6, <1>7, StartPing DEF HoldPing, SessionInv, sessionVars
<1>8. CASE Quiet /\ UNCHANGED allowTimerPing
  BY <1>8, EndPing DEF Quiet, taskVars, Tells
<1> QED  BY <1>7, <1>8 DEF Continue

LEMMA DownloadFailedPing ==
    ASSUME ChainInv, DownloadFailed
    PROVE  PingInv'
<1>1. /\ uiQueue # <<>> /\ Head(uiQueue).kind \in {"failed", "refused"}
      /\ ~orphaned' => ~orphaned /\ Head(uiQueue).task.live
      /\ UNCHANGED <<sessionVars, importing, serverStatus>>
  BY DEF DownloadFailed, Delivers
<1>2. CASE uiQueue' = Handled /\ UNCHANGED <<execVars, allowTimerPing>>
  BY <1>1, <1>2, EndPing DEF Tells
<1>3. CASE /\ DownloadState \in Lists /\ UNCHANGED polling
           /\ ~(DownloadState = "hidden" /\ flagDownloadingHidden)
           /\ ~(DownloadState = "offline" /\ flagDownloadingDD)
           /\ \E s, d, spoilt, savePath, failed : Continue(s, d, spoilt, savePath, failed)
  <2>1. DownloadState \in Chain /\ ~Flagged
    BY <1>3 DEF Chain, Flagged
  <2> QED  BY <1>1, <1>3, <2>1, ContinuePing
<1> QED  BY <1>2, <1>3 DEF DownloadFailed, Quiet, taskVars

\* A success, whose task is live, has been handled.
LEMMA SuccessPing ==
    ASSUME ChainInv, uiQueue # <<>>, Head(uiQueue).kind = "success"
    PROVE  Head(uiQueue).task.live /\ ~running.live /\ Due /\ session # "connecting"
<1> USE DEF ChainInv
<1>1. 1 \in 1 .. Len(uiQueue) /\ uiQueue[1] = Head(uiQueue)
  BY HandledMessages, Parts DEF LiveInv
<1>2. Head(uiQueue).task.live
  BY <1>1 DEF LiveInv, QueueInv, QueueOk, Results, ResultKinds
<1> QED  BY <1>1, <1>2, LeftInQueue DEF Due, Telling, Tells, ResultKinds, PingInv, SessionInv

LEMMA ListsPing ==
    ASSUME ChainInv, HiddenDownloaded \/ ListDownloaded
    PROVE  PingInv'
<1>1. /\ uiQueue # <<>> /\ Head(uiQueue).kind = "success"
      /\ UNCHANGED <<sessionVars, importing, orphaned>> /\ DownloadState \in Chain
  BY DEF HiddenDownloaded, ListDownloaded, Delivers, dialogVars, histVars, Chain, Lists, Rank
<1>2. Head(uiQueue).task.live /\ ~running.live
  BY <1>1, SuccessPing
<1>3. CASE Quiet
  BY <1>1, <1>2, <1>3, EndPing DEF Quiet, taskVars, Tells
<1>4. CASE ~Flagged /\ \E d, spoilt : ListDone(d, spoilt)
  <2>1. CASE \E s, d, spoilt, savePath, failed : Continue(s, d, spoilt, savePath, failed)
             /\ UNCHANGED <<polling, serverStatus>>
    BY <1>1, <1>2, <1>4, <2>1, ContinuePing
  <2> QED  BY <1>3, <1>4, <2>1 DEF ListDone
<1>5. CASE HiddenDownloaded
  BY <1>3, <1>4, <1>5 DEF HiddenDownloaded, Flagged
<1>6. CASE ListDownloaded
  BY <1>3, <1>4, <1>6 DEF ListDownloaded, Flagged
<1> QED  BY <1>5, <1>6

\* LYRICS has come: the import begins.
LEMMA ImportBeginsPing ==
    ASSUME ChainInv, uiQueue # <<>>, Head(uiQueue).kind = "success",
           DownloadState = "lyrics", ~polling', ~serverStatus',
           uiQueue' = Silenced(Handled, StatusKinds),
           UNCHANGED <<taskVars, allowTimerPing, sessionVars, orphaned>>
    PROVE  PingInv'
<1> USE DEF ChainInv
<1>1. Head(uiQueue).task.live /\ ~running.live /\ Due /\ session # "connecting"
  BY SuccessPing
<1>2. Results(Handled) = {} /\ waiting = NoTask
  BY LeftInQueue DEF ResultKinds
<1>3. AllDead(uiQueue)' /\ ~HasStatus(uiQueue)'
  BY HandledTyped, Parts, SilencedDead, SilencedStatus DEF LiveInv
<1>4. waiting' = NoTask /\ ~running'.live
  BY <1>1, <1>2 DEF taskVars, execVars
<1>5. ~Due' /\ ~Pending(waiting)' /\ ~Pending(running)'
  BY <1>3, <1>4, DeadOrder DEF Pending, NoTask
<1>6. ~orphaned => ~allowTimerPing
  BY <1>1 DEF PingInv, HoldInv, Chain, Flagged
<1>7. session = "off" => intSvrModel = "none"
  BY DEF PingInv, SessionInv
<1> QED  BY <1>1, <1>3, <1>4, <1>5, <1>6, <1>7 DEF PingInv, PollInv, HoldInv, ImportingInv,
            ConnectingInv, OffInv, SessionInv, PingHeldDuringChain, sessionVars

LEMMA OtherDownloadedPing ==
    ASSUME ChainInv, OtherDownloaded
    PROVE  PingInv'
<1> USE DEF ChainInv
<1>1. /\ uiQueue # <<>> /\ Head(uiQueue).kind = "success" /\ Handled \in Seq(Messages)
      /\ UNCHANGED <<sessionVars, orphaned>>
  BY HandledTyped, Parts DEF LiveInv, OtherDownloaded, Delivers, histVars
<1>2. Head(uiQueue).task.live /\ ~running.live /\ Due /\ session # "connecting"
  BY <1>1, SuccessPing
<1>3. CASE DownloadState = "toc" /\ Start("lyrics", "none", Handled)
           /\ UNCHANGED <<pingVars, importing>>
  <2>1. ~orphaned => ~allowTimerPing /\ ~polling /\ ~HasStatus(uiQueue)
    BY <1>2, <1>3 DEF PingInv, PollInv, HoldInv, Chain, Flagged
  <2>2. ~HasStatus(uiQueue) => ~HasStatus(Handled)
    BY <1>1, HandledMessages, Parts DEF HasStatus, LiveInv
  <2>3. ~orphaned => session = "up" /\ ~importing
    BY <1>1, <1>2, HeadPing
  <2>4. SessionInv
    BY DEF PingInv
  <2> QED  BY <1>1, <1>3, <2>1, <2>2, <2>3, <2>4, StartPing DEF SessionInv, sessionVars, pingVars
<1>4. CASE /\ DownloadState = "lyrics" /\ ~polling' /\ ~serverStatus'
           /\ uiQueue' = Silenced(Handled, StatusKinds)
           /\ UNCHANGED <<taskVars, allowTimerPing>>
  BY <1>1, <1>4, ImportBeginsPing
<1>5. CASE uiQueue' = Handled /\ UNCHANGED <<execVars, importing>>
  BY <1>1, <1>2, <1>5, EndPing DEF Tells
<1>6. \/ DownloadState = "toc" /\ Start("lyrics", "none", Handled)
         /\ UNCHANGED <<pingVars, importing>>
      \/ /\ DownloadState = "lyrics" /\ ~polling' /\ ~serverStatus'
         /\ uiQueue' = Silenced(Handled, StatusKinds)
         /\ UNCHANGED <<taskVars, allowTimerPing>>
      \/ uiQueue' = Handled /\ UNCHANGED <<execVars, importing>>
  BY DEF OtherDownloaded, Quiet, taskVars
<1> QED  BY <1>3, <1>4, <1>5, <1>6

\* What a status leads to: a list that it asks for, the added songs, or nothing.
LEMMA StatusSteps ==
    ASSUME LiveInv, StatusArrives
    PROVE  \/ \E s \in {"hidden", "offline"} :
                 /\ Start(s, PathOf(s), Handled) /\ HoldPing
                 /\ intSvrModel = "SONCA"
                 /\ s = "hidden" => flagDownloadingHidden'
                 /\ s = "offline" => flagDownloadingDD'
           \/ Start("add", "none", Handled) /\ intSvrModel = "SMARTK"
           \/ /\ uiQueue' = Handled /\ UNCHANGED <<DownloadState, execVars>>
              /\ flagDownloadingHidden' = flagDownloadingHidden
              /\ flagDownloadingDD' = flagDownloadingDD
<1> DEFINE later == serverStatus /\ intSvrModel = "SONCA"
           hidden == /\ later /\ ~flagDownloadingHidden /\ "hidden" \in Files
                     /\ saved["hidden"] # boxVersion["hidden"]
           removed == hidden /\ boxVersion["hidden"] = 0
           offline == /\ later /\ ~flagDownloadingDD /\ "offline" \in FilesOf[intSvrModel]
                      /\ listed # boxVersion["offline"]
           fetched == (IF hidden /\ ~removed THEN {"hidden"} ELSE {}) \cup
                      (IF offline THEN {"offline"} ELSE {})
<1>10. /\ flagDownloadingHidden' = (flagDownloadingHidden \/ "hidden" \in fetched)
       /\ flagDownloadingDD' = (flagDownloadingDD \/ offline)
       /\ \/ \E s \in {"hidden", "offline"} :
                  /\ s \in fetched /\ (s = "hidden" => ~offline)
                  /\ Start(s, PathOf(s), Handled) /\ HoldPing
          \/ fetched = {} /\ uiQueue' = Handled /\ UNCHANGED <<DownloadState, execVars>>
          \/ intSvrModel = "SMARTK" /\ Start("add", "none", Handled)
  BY DEF StatusArrives
<1>11. ("hidden" \in fetched => later) /\ ("offline" \in fetched => later /\ offline)
  OBVIOUS
<1>12. fetched = {} => ~offline /\ "hidden" \notin fetched
  OBVIOUS
<1> HIDE DEF fetched, later, offline, hidden, removed
<1>13. CASE \E s \in {"hidden", "offline"} :
               s \in fetched /\ Start(s, PathOf(s), Handled) /\ HoldPing
  <2>1. PICK s \in {"hidden", "offline"} :
               s \in fetched /\ Start(s, PathOf(s), Handled) /\ HoldPing
    BY <1>13
  <2>2. intSvrModel = "SONCA"
    BY <1>11, <2>1 DEF later
  <2>3. (s = "hidden" => flagDownloadingHidden') /\ (s = "offline" => flagDownloadingDD')
    BY <1>10, <1>11, <2>1
  <2> QED  BY <2>1, <2>2, <2>3
<1>14. CASE fetched = {} /\ uiQueue' = Handled /\ UNCHANGED <<DownloadState, execVars>>
  <2>1. /\ flagDownloadingHidden' = (flagDownloadingHidden \/ FALSE)
        /\ flagDownloadingDD' = (flagDownloadingDD \/ FALSE)
    BY <1>10, <1>12, <1>14
  <2>2. flagDownloadingHidden \in BOOLEAN /\ flagDownloadingDD \in BOOLEAN
    BY DEF LiveInv, TypeOK
  <2>3. flagDownloadingHidden' = flagDownloadingHidden
        /\ flagDownloadingDD' = flagDownloadingDD
    BY <2>1, <2>2
  <2> QED  BY <1>14, <2>3
<1> QED  BY <1>10, <1>13, <1>14

\* The status that lets PingTask in again.
LEMMA StatusArrivesPing ==
    ASSUME ChainInv, StatusArrives
    PROVE  PingInv'
<1> USE DEF ChainInv
<1>1. /\ uiQueue # <<>> /\ Head(uiQueue).kind = "status" /\ Handled \in Seq(Messages)
      /\ serverStatus' /\ UNCHANGED <<sessionVars, orphaned, importing, polling>>
  BY HandledTyped, Parts DEF LiveInv, StatusArrives, Delivers, histVars, dialogVars
<1>2. 1 \in 1 .. Len(uiQueue) /\ uiQueue[1] = Head(uiQueue)
  BY <1>1, HandledMessages, Parts DEF LiveInv
<1>3. HasStatus(uiQueue)
  BY <1>1, <1>2 DEF HasStatus, StatusKinds
<1>4. ~orphaned => session # "connecting" /\ (session = "up" => ~importing)
  BY <1>3 DEF PingInv, ConnectingInv, ImportingInv
<1>5. SessionInv /\ (session = "off" => intSvrModel = "none")
  BY DEF PingInv, SessionInv
<1>6. CASE \E s \in {"hidden", "offline"} :
              /\ Start(s, PathOf(s), Handled) /\ HoldPing
              /\ intSvrModel = "SONCA"
              /\ s = "hidden" => flagDownloadingHidden'
              /\ s = "offline" => flagDownloadingDD'
  <2>1. PICK s \in {"hidden", "offline"} :
              /\ Start(s, PathOf(s), Handled) /\ HoldPing
              /\ intSvrModel = "SONCA"
              /\ s = "hidden" => flagDownloadingHidden'
              /\ s = "offline" => flagDownloadingDD'
    BY <1>6
  <2>2. DownloadState' = s /\ intSvrModel' = "SONCA"
    BY <1>1, <2>1 DEF Start, sessionVars
  <2>3. Flagged'
    BY <2>1, <2>2 DEF Flagged
  <2>4. ~orphaned' => session' = "up" /\ ~importing'
    BY <1>1, <1>4, <1>5, <2>2, Parts DEF LiveInv, TypeOK, sessionVars
  <2>5. (session' = "connecting" => ~importing') /\ (session' = "off" => intSvrModel' = "none")
    BY <1>1, <1>5 DEF SessionInv, sessionVars
  <2> QED  BY <1>1, <2>1, <2>3, <2>4, <2>5, StartPing DEF HoldPing
<1>7. CASE Start("add", "none", Handled) /\ intSvrModel = "SMARTK"
  <2>1. "add" \notin Chain
    BY DEF Chain, Lists, Rank
  <2>2. ~orphaned' => session' = "up" /\ ~importing'
    BY <1>1, <1>4, <1>5, <1>7, Parts DEF LiveInv, TypeOK, sessionVars
  <2>3. (session' = "connecting" => ~importing') /\ (session' = "off" => intSvrModel' = "none")
    BY <1>1, <1>5 DEF SessionInv, sessionVars
  <2> QED  BY <1>1, <1>7, <2>1, <2>2, <2>3, StartPing
<1>8. CASE /\ uiQueue' = Handled /\ UNCHANGED <<DownloadState, execVars>>
           /\ flagDownloadingHidden' = flagDownloadingHidden
           /\ flagDownloadingDD' = flagDownloadingDD
  <2>1. Due' => Due
    BY <1>1, <1>8, ReportEnds
  <2>2. Flagged' = Flagged
    BY <1>1, <1>8 DEF Flagged, sessionVars
  <2>4. ~orphaned /\ Due => DownloadState \notin Chain \/ Flagged
    BY <1>3 DEF PingInv, PollInv
  <2>5. PollInv' /\ HoldInv'
    BY <1>1, <1>8, <2>1, <2>2, <2>4 DEF PollInv, HoldInv
  <2>6. OffInv'
    <3>1. AllDead(uiQueue) => AllDead(Handled)
      BY <1>1, LeftInQueue
    <3>2. OffInv
      BY DEF PingInv
    <3> QED  BY <1>1, <1>8, <3>1, <3>2 DEF OffInv, sessionVars, execVars
  <2>7. SessionInv'
    BY <1>1, <1>5, <1>8, HandledMessages, Parts DEF LiveInv, SessionInv, sessionVars
  <2>8. ImportingInv' /\ ConnectingInv'
    BY <1>1, <1>4 DEF ImportingInv, ConnectingInv, sessionVars
  <2> QED  BY <1>1, <2>5, <2>6, <2>7, <2>8 DEF PingInv, PingHeldDuringChain
<1> QED  BY <1>6, <1>7, <1>8, StatusSteps

\* A step that starts nothing, turns nothing on and brings no status.
Keeps ==
    /\ UNCHANGED <<orphaned, DownloadState, flagVars, sessionVars, importing, polling,
                   allowTimerPing, serverStatus>>
    /\ Due' => Due
    /\ HasStatus(uiQueue)' => HasStatus(uiQueue)
    /\ Pending(waiting)' \/ Pending(running)' => Pending(waiting) \/ Pending(running)
    /\ waiting' = waiting \/ waiting' = NoTask
    /\ running'.live => running.live \/ (waiting # NoTask /\ session # "connecting")
    /\ AllDead(uiQueue) /\ ~running.live => AllDead(uiQueue)'
    /\ session = "connecting" /\ (\A i \in 1 .. Len(uiQueue) : uiQueue[i].kind # "success")
          => \A i \in 1 .. Len(uiQueue') : uiQueue'[i].kind # "success"

LEMMA KeepPing ==
    ASSUME ChainInv, Keeps
    PROVE  PingInv'
<1> USE DEF ChainInv, PingInv, Keeps
<1>1. Flagged' = Flagged
  BY DEF Flagged, flagVars, sessionVars
<1>2. PollInv'
  BY <1>1 DEF PollInv
<1>3. HoldInv'
  BY <1>1 DEF HoldInv
<1>4. ImportingInv' /\ ConnectingInv' /\ OffInv'
  BY DEF ImportingInv, ConnectingInv, OffInv, sessionVars
<1>5. SessionInv'
  BY DEF SessionInv, sessionVars
<1>6. PingHeldDuringChain'
  BY DEF PingHeldDuringChain
<1> QED  BY <1>2, <1>3, <1>4, <1>5, <1>6

\* The executor's steps; a success comes from a session that is logged in.
LEMMA WorkerKeeps ==
    ASSUME ChainInv, Worker
    PROVE  Keeps
<1> USE DEF ChainInv
<1>1. UNCHANGED <<orphaned, DownloadState, flagVars, sessionVars, importing, polling,
                  allowTimerPing, serverStatus>>
  BY DEF Worker, StartDownload, ExchangeLost, Refused, Empty, HeaderArrives, BodyComplete,
     StrayComplete, BodyShort, BodyThrows, ReturnsInvalid, Ends, workerFrame, histVars, dialogVars, pingVars
<1>2. ~NoTask.live /\ ~Pending(NoTask)
  BY DEF NoTask, Pending
<1>3. CASE StartDownload
  BY <1>1, <1>2, <1>3 DEF Keeps, StartDownload, Due, Telling
<1>4. CASE HeaderArrives
  <2>1. UNCHANGED <<waiting, running, uiQueue>> /\ pc = "exchange" /\ pc' = "body"
    BY <1>4 DEF HeaderArrives, workerFrame
  <2> QED  BY <1>1, <2>1 DEF Keeps, Due, Telling
<1>5. CASE ExchangeLost \/ Refused \/ Empty \/ BodyComplete \/ StrayComplete \/ BodyShort
           \/ BodyThrows \/ ReturnsInvalid
  <2>1. PICK k \in ResultKinds \cup {"failed"} :
           /\ Report(k) /\ waiting' = waiting
           /\ running' = NoTask \/ (running' = running /\ pc' = "failed")
           /\ k \in Tells => pc # "failed"
           /\ k = "success" => session = "up"
    BY <1>5 DEF ExchangeLost, Refused, Empty, BodyComplete, StrayComplete, BodyShort,
       BodyThrows, ReturnsInvalid, Ends, workerFrame, ResultKinds, Tells
  <2>2. CASE ~running.live
    <3>1. uiQueue' = uiQueue /\ ~running'.live
      BY <1>2, <2>1, <2>2 DEF Report
    <3> QED  BY <1>1, <1>2, <2>1, <2>2, <3>1 DEF Keeps, Due, Telling, Pending
  <2>3. CASE running.live
    <3>1. /\ Len(uiQueue') = Len(uiQueue) + 1 /\ Len(uiQueue) \in Nat
          /\ uiQueue'[Len(uiQueue) + 1] = [kind |-> k, task |-> running]
          /\ \A i \in 1 .. Len(uiQueue) : uiQueue'[i] = uiQueue[i]
      BY <2>1, <2>3, ReportInv, Parts DEF ExecTyped, LiveInv, Tells
    <3>2. k \notin StatusKinds
      BY DEF ResultKinds, StatusKinds
    <3>3. HasStatus(uiQueue)' => HasStatus(uiQueue)
      BY <3>1, <3>2 DEF HasStatus
    <3>4. Telling(uiQueue)' => Telling(uiQueue) \/ k \in Tells
      BY <3>1 DEF Telling
    <3>5. Due' => Due
      BY <1>2, <2>1, <2>3, <3>4 DEF Due
    <3>6. Pending(waiting)' \/ Pending(running)' => Pending(waiting) \/ Pending(running)
      BY <1>2, <2>1
    <3>7. session = "connecting" /\ (\A i \in 1 .. Len(uiQueue) : uiQueue[i].kind # "success")
              => \A i \in 1 .. Len(uiQueue') : uiQueue'[i].kind # "success"
      BY <2>1, <3>1
    <3> QED  BY <1>1, <1>2, <2>1, <2>3, <3>3, <3>5, <3>6, <3>7 DEF Keeps
  <2> QED  BY <2>2, <2>3
<1> QED  BY <1>3, <1>4, <1>5 DEF Worker

\* The message of a status is no report.
LEMMA StatusKeepsDue ==
    ASSUME LiveInv, StatusAsked
    PROVE  Due' => Due
<1>1. PICK k \in StatusKinds : uiQueue' = Append(uiQueue, [kind |-> k, task |-> NoTask])
  BY DEF StatusAsked
<1>2. [kind |-> k, task |-> NoTask] \in Messages /\ uiQueue \in Seq(Messages) /\ ~NoTask.live
  BY Parts DEF LiveInv, ExecTyped, Messages, Tasks, NoTask
<1>3. Telling(uiQueue)' => Telling(uiQueue)
  BY <1>1, <1>2 DEF Telling
<1> QED  BY <1>3 DEF Due, StatusAsked, workerFrame

LEMMA StatusAskedPing ==
    ASSUME ChainInv, StatusAsked
    PROVE  PingInv'
<1> USE DEF ChainInv, PingInv
<1>1. /\ polling /\ waiting' = NoTask /\ waiting = NoTask /\ running' = NoTask
      /\ UNCHANGED <<orphaned, DownloadState, flagVars, sessionVars, importing, polling,
                     allowTimerPing, serverStatus, waiting, running, pc>>
  BY DEF StatusAsked, workerFrame, histVars, dialogVars, pingVars
<1>2. PICK k \in StatusKinds : uiQueue' = Append(uiQueue, [kind |-> k, task |-> NoTask])
  BY DEF StatusAsked
<1>3. [kind |-> k, task |-> NoTask] \in Messages /\ uiQueue \in Seq(Messages) /\ ~NoTask.live
  BY Parts DEF LiveInv, ExecTyped, Messages, Tasks, NoTask
<1>4. /\ Len(uiQueue') = Len(uiQueue) + 1 /\ Len(uiQueue) \in Nat
      /\ uiQueue'[Len(uiQueue) + 1] = [kind |-> k, task |-> NoTask]
      /\ \A i \in 1 .. Len(uiQueue) : uiQueue'[i] = uiQueue[i]
  BY <1>2, <1>3
<1>5. (Due' => Due) /\ Flagged' = Flagged
  <2>1. Telling(uiQueue)' => Telling(uiQueue)
    BY <1>3, <1>4 DEF Telling
  <2> QED  BY <1>1, <2>1 DEF Due, Flagged, flagVars, sessionVars
<1>6. PollInv'
  BY <1>1, <1>5 DEF PollInv
<1>7. HoldInv'
  BY <1>1, <1>5 DEF HoldInv
<1>8. ImportingInv' /\ ConnectingInv'
  BY <1>1 DEF ImportingInv, ConnectingInv, sessionVars
<1>9. OffInv'
  <2>1. AllDead(uiQueue) => AllDead(uiQueue)'
    BY <1>3, <1>4 DEF AllDead
  <2> QED  BY <1>1, <2>1 DEF OffInv, sessionVars
<1>10. SessionInv'
  BY <1>1, <1>4 DEF SessionInv, sessionVars, StatusKinds
<1>11. PingHeldDuringChain'
  BY <1>1 DEF PingHeldDuringChain, Pending, NoTask
<1> QED  BY <1>6, <1>7, <1>8, <1>9, <1>10, <1>11

\* A melody may also be fetched while a connect is under way.
LEMMA UserMidiPing ==
    ASSUME ChainInv, UserMidi
    PROVE  PingInv'
<1> USE DEF ChainInv
<1>1. /\ serverStatus /\ intSvrModel # "none" /\ uiQueue \in Seq(Messages)
      /\ Start("midi", "none", uiQueue)
      /\ UNCHANGED <<sessionVars, importing, orphaned, polling>>
  BY Parts DEF LiveInv, ExecTyped, UserMidi, histVars, dialogVars
<1>2. "midi" \notin Chain
  BY DEF Chain, Lists, Rank
<1>3. SessionInv /\ session # "off" /\ session \in {"off", "connecting", "up"}
  BY <1>1 DEF LiveInv, TypeOK, PingInv, SessionInv
<1>4. CASE session = "up"
  <2>1. ~orphaned' => session' = "up" /\ ~importing'
    BY <1>1, <1>4 DEF PingInv, ImportingInv, sessionVars
  <2> QED  BY <1>1, <1>2, <1>3, <1>4, <2>1, StartPing DEF sessionVars
<1>5. CASE session = "connecting"
  <2>1. /\ ~running'.live /\ waiting' = Task("midi", "none") /\ DownloadState' = "midi"
        /\ waiting'.step = "midi" /\ session' = "connecting"
    BY <1>1, <1>5 DEF LiveInv, Start, TypeOK, Tasks, Task, sessionVars
  <2>2. /\ ~HasStatus(uiQueue) => ~HasStatus(uiQueue)'
        /\ \A i \in 1 .. Len(uiQueue') : uiQueue'[i].kind # "success"
        /\ AllDead(uiQueue)'
    BY <1>1, SilencedStatus, SilencedDead DEF Start
  <2>3. ~Pending(waiting)' /\ ~Pending(running)'
    BY <1>2, <2>1 DEF Pending
  <2>4. PollInv' /\ HoldInv' /\ PingHeldDuringChain'
    BY <1>2, <2>1, <2>3 DEF PollInv, HoldInv, PingHeldDuringChain
  <2>5. ConnectingInv'
    BY <1>1, <1>5, <2>1, <2>2 DEF PingInv, ConnectingInv
  <2> QED  BY <1>1, <1>3, <1>5, <2>1, <2>2, <2>4, <2>5 DEF PingInv, ImportingInv, OffInv,
              SessionInv
<1> QED  BY <1>3, <1>4, <1>5

LEMMA ImportEndsPing ==
    ASSUME ChainInv, ImportEnds
    PROVE  PingInv'
<1> USE DEF ChainInv
<1>1. /\ importing /\ ~importing' /\ session # "connecting" /\ uiQueue \in Seq(Messages)
      /\ session \in {"off", "connecting", "up"}
      /\ session = "off" => intSvrModel = "none"
      /\ UNCHANGED <<sessionVars, orphaned, serverStatus, allowTimerPing, flagVars>>
  BY Parts DEF LiveInv, TypeOK, ExecTyped, ImportEnds, histVars, PingInv, SessionInv
<1>2. ~orphaned => waiting = NoTask /\ ~running.live /\ AllDead(uiQueue)
  BY <1>1 DEF PingInv, OffInv, ImportingInv
<1>3. CASE intSvrModel = "SONCA" /\ ~polling' /\ Start("info", "none", Silenced(uiQueue, StatusKinds))
  <2>1. Silenced(uiQueue, StatusKinds) \in Seq(Messages)
        /\ ~HasStatus(Silenced(uiQueue, StatusKinds))
    BY <1>1, SilencedDead, SilencedStatus
  <2>2. session = "up" /\ session' = "up"
    BY <1>1, <1>3 DEF sessionVars
  <2>3. ~orphaned => ~allowTimerPing'
    BY <1>1, <2>2 DEF PingInv, ImportingInv
  <2> QED  BY <1>1, <1>3, <2>1, <2>2, <2>3, StartPing
<1>4. CASE UNCHANGED <<DownloadState, execVars, uiQueue>>
  <2>1. ~orphaned => ~Due' /\ waiting' = NoTask /\ ~running'.live /\ AllDead(uiQueue)'
    BY <1>2, <1>4, DeadOrder DEF execVars
  <2>2. PollInv' /\ HoldInv'
    BY <1>1, <2>1 DEF PollInv, HoldInv
  <2>3. ImportingInv' /\ ConnectingInv' /\ OffInv'
    BY <1>1, <2>1 DEF ImportingInv, ConnectingInv, OffInv, sessionVars
  <2>4. SessionInv'
    BY <1>1 DEF SessionInv, sessionVars
  <2>5. PingHeldDuringChain'
    BY <1>1, <2>1 DEF PingHeldDuringChain, Pending, NoTask
  <2> QED  BY <2>2, <2>3, <2>4, <2>5 DEF PingInv
<1> QED  BY <1>3, <1>4 DEF ImportEnds

\* A new session: the polling is off, and no download but a melody is left over.
LEMMA LoginPing ==
    ASSUME ChainInv, NEW m \in Models, NEW plan \in SUBSET (Lists \cup {"main"}),
           Login(m, plan)
    PROVE  PingInv'
<1> USE DEF ChainInv
<1>1. /\ session = "connecting" /\ session' = "up" /\ ~importing' /\ uiQueue \in Seq(Messages)
      /\ UNCHANGED orphaned
  BY Parts DEF LiveInv, ExecTyped, Login, dialogVars
<1>2. ~orphaned => /\ ~polling /\ ~running.live /\ AllDead(uiQueue) /\ ~HasStatus(uiQueue)
                   /\ waiting # NoTask => waiting.step = "midi"
  BY <1>1 DEF PingInv, ConnectingInv
<1>3. CASE \E s, p : Start(s, p, uiQueue) /\ HoldPing /\ UNCHANGED <<serverStatus, polling>>
  BY <1>1, <1>2, <1>3, StartPing DEF LiveInv, HoldPing
<1>4. CASE ~serverStatus' /\ UNCHANGED <<allowTimerPing, DownloadState, execVars, uiQueue>>
  <2>1. "midi" \notin Chain
    BY DEF Chain, Lists, Rank
  <2>2. ~orphaned /\ waiting # NoTask => DownloadState = "midi"
    BY <1>2 DEF LiveInv, WorkInv
  <2>3. ~orphaned => ~Telling(uiQueue)
    BY <1>2 DEF AllDead, Telling
  <2>4. ~orphaned /\ Due' => DownloadState' = "midi"
    BY <1>2, <1>4, <2>2, <2>3 DEF Due, Telling, execVars
  <2>5. PollInv' /\ HoldInv'
    BY <1>1, <2>1, <2>4 DEF PollInv, HoldInv
  <2>6. ~orphaned => ~Pending(waiting)' /\ ~Pending(running)'
    BY <1>2, <1>4, <2>1 DEF Pending, NoTask, execVars
  <2>7. PingHeldDuringChain'
    BY <1>1, <2>6 DEF PingHeldDuringChain
  <2> QED  BY <1>1, <2>5, <2>7 DEF PingInv, ImportingInv, ConnectingInv, OffInv, SessionInv
<1> QED  BY <1>3, <1>4 DEF Login

LEMMA OthersPing ==
    ASSUME ChainInv,
           UNCHANGED <<orphaned, DownloadState, flagVars, sessionVars, importing, polling,
                       allowTimerPing, serverStatus, waiting, running, pc, uiQueue>>
    PROVE  PingInv'
<1>1. Due' = Due /\ HasStatus(uiQueue)' = HasStatus(uiQueue)
  BY DEF Due, Telling, HasStatus
<1> QED  BY <1>1, KeepPing DEF Keeps

LEMMA CancelledKeeps ==
    ASSUME ChainInv, Cancelled
    PROVE  Keeps
<1>1. /\ uiQueue # <<>> /\ uiQueue' = Handled
      /\ UNCHANGED <<orphaned, DownloadState, flagVars, sessionVars, importing, polling,
                     allowTimerPing, serverStatus, waiting, running, pc, execVars>>
  BY DEF Cancelled, Delivers, Quiet, taskVars, execVars, pingVars, dialogVars, histVars
<1>2. (Due' => Due) /\ (HasStatus(uiQueue)' => HasStatus(uiQueue))
  BY <1>1, ReportEnds DEF ChainInv
<1>3. AllDead(uiQueue) => AllDead(uiQueue)'
  BY <1>1, LeftInQueue DEF ChainInv
<1>4. (\A i \in 1 .. Len(uiQueue) : uiQueue[i].kind # "success")
         => \A i \in 1 .. Len(uiQueue') : uiQueue'[i].kind # "success"
  BY <1>1, HandledMessages, Parts DEF ChainInv, LiveInv
<1>5. waiting' = waiting /\ running' = running
  BY <1>1
<1> QED  BY <1>1, <1>2, <1>3, <1>4, <1>5 DEF Keeps

LEMMA PingStep == ChainInv /\ [Next]_vars => PingInv'
<1> SUFFICES ASSUME ChainInv, [Next]_vars PROVE PingInv'
  OBVIOUS
<1>1. CASE Worker
  BY <1>1, WorkerKeeps, KeepPing
<1>2. CASE UserConnect \/ UserDisconnect \/ ConnectFails \/ Disconnected \/ PingAnswers
  BY <1>2, DisconnectionPing
<1>3. CASE AnswerBusy
  <2>1. CASE \E then \in {"connecting", "off"} : DefaultView(then)
                /\ uiQueue' = Silenced(uiQueue, ResultKinds \cup StatusKinds)
    BY <1>3, <2>1, DisconnectionPing
  <2>2. CASE UNCHANGED <<sessionVars, pingVars, taskVars, histVars, uiQueue>>
    <3>1. UNCHANGED <<flagVars, importing>>
      BY <1>3 DEF AnswerBusy
    <3> QED  BY <2>2, <3>1, OthersPing DEF pingVars, taskVars, execVars, histVars
  <2> QED  BY <1>3, <2>1, <2>2 DEF AnswerBusy
<1>4. CASE DownloadFailed \/ HiddenDownloaded \/ ListDownloaded \/ OtherDownloaded
  BY <1>4, DownloadFailedPing, ListsPing, OtherDownloadedPing
<1>5. CASE InvalidResponse
  <2>1. uiQueue # <<>> /\ Head(uiQueue).kind \in ResultKinds
        /\ Head(uiQueue).kind = "invalid"
    BY <1>5 DEF InvalidResponse, Delivers, ResultKinds
  <2>2. ~running.live
    BY <2>1, LeftInQueue DEF ChainInv
  <2>3. Head(uiQueue).task.live
    <3>1. 1 \in 1 .. Len(uiQueue) /\ uiQueue[1] = Head(uiQueue)
      BY <2>1, HandledMessages, Parts DEF ChainInv, LiveInv
    <3> QED  BY <2>1, <3>1 DEF ChainInv, LiveInv, QueueInv, QueueOk, Results
  <2> QED  BY <1>5, <2>1, <2>2, <2>3, EndPing DEF InvalidResponse, Quiet, taskVars, histVars,
              dialogVars
<1>6. CASE Cancelled
  BY <1>6, CancelledKeeps, KeepPing
<1>7. CASE StatusArrives
  BY <1>7, StatusArrivesPing
<1>8. CASE StatusAsked
  BY <1>8, StatusAskedPing
<1>9. CASE UserMidi
  BY <1>9, UserMidiPing
<1>10. CASE ImportEnds
  BY <1>10, ImportEndsPing
<1>11. CASE \E m \in Models, plan \in SUBSET (Lists \cup {"main"}) : Login(m, plan)
  BY <1>11, LoginPing
<1>12. CASE PingBegins \/ PingInVain
  BY <1>12, OthersPing DEF PingBegins, PingInVain, pingFrame, dialogVars, taskVars, execVars,
     histVars
<1>13. CASE \E f \in Changing : BoxUpdates(f)
  BY <1>13, OthersPing DEF BoxUpdates, pingVars, dialogVars, taskVars, execVars, histVars
<1>14. CASE UNCHANGED vars
  BY <1>14, OthersPing DEF vars, pingVars, dialogVars, execVars, histVars
<1> QED  BY <1>1, <1>2, <1>3, <1>4, <1>5, <1>6, <1>7, <1>8, <1>9, <1>10, <1>11, <1>12, <1>13,
            <1>14 DEF Next, User, Deliver

LEMMA ChainInit == Init => ChainInv
<1> SUFFICES ASSUME Init PROVE ChainInv
  OBVIOUS
<1>1. waiting = NoTask /\ ~NoTask.live /\ running = NoTask /\ Len(uiQueue) = 0
  BY DEF Init, NoTask
<1>2. 1 .. Len(uiQueue) = {} /\ ~Due /\ AllDead(uiQueue) /\ ~HasStatus(uiQueue)
  BY <1>1 DEF Due, Telling, AllDead, HasStatus
<1>3. ~Pending(waiting) /\ ~Pending(running) /\ session = "off" /\ intSvrModel = "none"
  BY <1>1 DEF Pending, Init
<1>4. OrderInv
  BY <1>1, <1>2 DEF OrderInv, Telling
<1>5. PingInv
  BY <1>1, <1>2, <1>3 DEF PingInv, PollInv, HoldInv, ImportingInv, ConnectingInv, OffInv,
     SessionInv, PingHeldDuringChain
<1> QED  BY <1>4, <1>5, LiveInit DEF ChainInv

-----------------------------------------------------------------------------
(* A ping and the session it began in.                                     *)
(*                                                                         *)
(* PingTask tests allowTimerPing before it pings, and disconnects a second *)
(* later.  A ping that began in a session finds no chain there, then or    *)
(* later: only lists that a status asks for may still be fetched, and the  *)
(* status that asked is known as long as they are.                         *)

Spared ==
    /\ ~importing
    /\ Due /\ DownloadState \in Chain => Flagged
    /\ Pending(waiting) \/ Pending(running) => serverStatus

SpareInv ==
    /\ pinging <= logins
    /\ session = "up" => logins > 0
    /\ session = "up" /\ pinging = logins /\ ~orphaned => Spared

LEMMA KeepSpare ==
    ASSUME Spared, Due' => Due, UNCHANGED <<importing, DownloadState, flagVars, intSvrModel>>,
           Pending(waiting)' \/ Pending(running)' => Pending(waiting) \/ Pending(running),
           serverStatus => serverStatus'
    PROVE  Spared'
BY DEF Spared, Flagged, flagVars

\* A report is handled and starts nothing.
LEMMA EndSpare ==
    ASSUME ChainInv, Spared, uiQueue # <<>>, uiQueue' = Handled,
           Head(uiQueue).task.live, Head(uiQueue).kind \in Tells \cup {"invalid"},
           UNCHANGED <<execVars, importing, serverStatus>>
    PROVE  Spared'
<1>1. ~Due'
  BY ReportEnds DEF ChainInv, Due
<1> QED  BY <1>1 DEF Spared, Pending, execVars

LEMMA StartSpare ==
    ASSUME LiveInv, Spared, NEW s, NEW p, NEW q, Start(s, p, q), UNCHANGED importing,
           s \in Chain => Flagged' /\ serverStatus'
    PROVE  Spared'
<1>1. ~running'.live /\ waiting' = Task(s, p) /\ DownloadState' = s /\ waiting'.step = s
  BY DEF LiveInv, Start, TypeOK, Tasks, Task
<1> QED  BY <1>1 DEF Spared, Pending

\* A report of the chain is not to come.
LEMMA NoChain ==
    ASSUME ChainInv, Spared, uiQueue # <<>>, Head(uiQueue).kind \in Tells,
           Head(uiQueue).task.live, DownloadState \in Chain
    PROVE  Flagged
<1>1. 1 \in 1 .. Len(uiQueue) /\ uiQueue[1] = Head(uiQueue)
  BY HandledMessages, Parts DEF ChainInv, LiveInv
<1> QED  BY <1>1 DEF Spared, Due, Telling

LEMMA DownloadFailedSpare ==
    ASSUME ChainInv, Spared, DownloadFailed, ~orphaned'
    PROVE  Spared'
<1>1. /\ uiQueue # <<>> /\ Head(uiQueue).kind \in Tells /\ Head(uiQueue).task.live
      /\ UNCHANGED <<importing, serverStatus>>
  BY DEF DownloadFailed, Delivers, Tells
<1>2. ASSUME DownloadState \in Lists
      PROVE  \/ DownloadState = "hidden" /\ flagDownloadingHidden
             \/ DownloadState = "offline" /\ flagDownloadingDD
  BY <1>1, <1>2, NoChain DEF Chain, Flagged
<1>3. uiQueue' = Handled /\ UNCHANGED execVars
  BY <1>2 DEF DownloadFailed, Quiet, taskVars
<1> QED  BY <1>1, <1>3, EndSpare

LEMMA DownloadedSpare ==
    ASSUME ChainInv, Spared, HiddenDownloaded \/ ListDownloaded \/ OtherDownloaded
    PROVE  Spared'
<1>1. uiQueue # <<>> /\ Head(uiQueue).kind = "success" /\ Head(uiQueue).kind \in Tells
  BY DEF HiddenDownloaded, ListDownloaded, OtherDownloaded, Delivers, Tells
<1>2. Head(uiQueue).task.live
  BY <1>1, SuccessPing
<1>3. DownloadState \in Chain => Flagged
  BY <1>1, <1>2, NoChain
<1>4. uiQueue' = Handled /\ UNCHANGED <<execVars, importing, serverStatus>>
  <2>1. CASE HiddenDownloaded
    BY <1>3, <2>1 DEF HiddenDownloaded, Flagged, Chain, Lists, Rank, Quiet, taskVars,
       dialogVars
  <2>2. CASE ListDownloaded
    BY <1>3, <2>2 DEF ListDownloaded, Flagged, Chain, Quiet, taskVars, dialogVars
  <2>3. CASE OtherDownloaded
    BY <1>3, <2>3 DEF OtherDownloaded, Flagged, Chain, Quiet, taskVars, pingVars
  <2> QED  BY <2>1, <2>2, <2>3
<1> QED  BY <1>1, <1>2, <1>4, EndSpare

LEMMA StatusArrivesSpare ==
    ASSUME ChainInv, Spared, StatusArrives
    PROVE  Spared'
<1>1. uiQueue # <<>> /\ serverStatus' /\ UNCHANGED <<importing, intSvrModel>>
  BY DEF StatusArrives, Delivers, dialogVars, sessionVars
<1>2. CASE \E s \in {"hidden", "offline"} :
              /\ Start(s, PathOf(s), Handled)
              /\ intSvrModel = "SONCA"
              /\ s = "hidden" => flagDownloadingHidden'
              /\ s = "offline" => flagDownloadingDD'
  <2>1. PICK s \in {"hidden", "offline"} :
              /\ Start(s, PathOf(s), Handled)
              /\ s = "hidden" => flagDownloadingHidden'
              /\ s = "offline" => flagDownloadingDD'
    BY <1>2
  <2>2. DownloadState' = s /\ intSvrModel' = "SONCA"
    BY <1>1, <1>2, <2>1 DEF Start
  <2>3. Flagged'
    BY <2>1, <2>2 DEF Flagged
  <2> QED  BY <1>1, <2>1, <2>3, StartSpare DEF ChainInv
<1>3. CASE Start("add", "none", Handled)
  BY <1>1, <1>3, StartSpare DEF ChainInv, Chain, Lists, Rank
<1>4. CASE /\ uiQueue' = Handled /\ UNCHANGED <<DownloadState, execVars>>
           /\ flagDownloadingHidden' = flagDownloadingHidden
           /\ flagDownloadingDD' = flagDownloadingDD
  <2>1. Due' => Due
    BY <1>1, <1>4, ReportEnds DEF ChainInv
  <2> QED  BY <1>1, <1>4, <2>1, KeepSpare DEF flagVars, execVars
<1> QED  BY <1>2, <1>3, <1>4, StatusSteps DEF ChainInv

\* A ping begins when allowTimerPing is on and no status is known.
LEMMA PingBeginsSpare ==
    ASSUME ChainInv, PingBegins, session = "up", ~orphaned
    PROVE  Spared'
<1>1. /\ allowTimerPing /\ ~serverStatus
      /\ UNCHANGED <<importing, DownloadState, flagVars, intSvrModel, execVars, uiQueue>>
  BY DEF PingBegins, pingFrame, dialogVars, taskVars, sessionVars
<1>2. Spared
  BY <1>1 DEF ChainInv, PingInv, ImportingInv, HoldInv, PingHeldDuringChain, Spared
<1>3. (Due' => Due) /\ serverStatus' = serverStatus
  BY <1>1 DEF Due, Telling, execVars, PingBegins
<1> QED  BY <1>1, <1>2, <1>3, KeepSpare DEF execVars

\* The steps in which neither the session nor the ping begins or ends.
LEMMA SessionSpare ==
    ASSUME ChainInv, Spared, ~orphaned',
           \/ Worker \/ (Deliver /\ ~Disconnected) \/ StatusAsked \/ ImportEnds \/ UserMidi
           \/ \E f \in Changing : BoxUpdates(f)
           \/ UNCHANGED <<sessionVars, pingVars, taskVars, flagVars, importing, uiQueue>>
    PROVE  Spared'
<1>1. CASE Worker \/ Cancelled
  BY <1>1, WorkerKeeps, CancelledKeeps, KeepSpare DEF Keeps, sessionVars
<1>2. CASE DownloadFailed
  BY <1>2, DownloadFailedSpare
<1>3. CASE HiddenDownloaded \/ ListDownloaded \/ OtherDownloaded
  BY <1>3, DownloadedSpare
<1>4. CASE InvalidResponse
  <2>1. uiQueue # <<>> /\ Head(uiQueue).kind = "invalid" /\ uiQueue' = Handled
        /\ UNCHANGED <<execVars, importing, serverStatus>>
    BY <1>4 DEF InvalidResponse, Delivers, Quiet, taskVars, dialogVars
  <2>2. 1 \in 1 .. Len(uiQueue) /\ uiQueue[1] = Head(uiQueue)
    BY <2>1, HandledMessages, Parts DEF ChainInv, LiveInv
  <2>3. Head(uiQueue).task.live
    BY <2>1, <2>2 DEF ChainInv, LiveInv, QueueInv, QueueOk, Results, ResultKinds
  <2> QED  BY <2>1, <2>3, EndSpare
<1>5. CASE StatusArrives
  BY <1>5, StatusArrivesSpare
<1>6. CASE StatusAsked
  <2>1. UNCHANGED <<importing, DownloadState, flagVars, intSvrModel, serverStatus>>
        /\ waiting' = waiting /\ running' = running /\ pc' = pc
    BY <1>6 DEF StatusAsked, workerFrame, dialogVars, pingVars, sessionVars
  <2>2. Due' => Due
    BY <1>6, StatusKeepsDue DEF ChainInv
  <2> QED  BY <2>1, <2>2, KeepSpare
<1>7. CASE ImportEnds
  BY <1>7 DEF ImportEnds, Spared
<1>8. CASE UserMidi
  BY <1>8, StartSpare DEF UserMidi, dialogVars, ChainInv, Chain, Lists, Rank
<1>9. CASE UNCHANGED <<sessionVars, pingVars, taskVars, flagVars, importing, uiQueue>>
  <2>1. (Due' => Due) /\ UNCHANGED <<DownloadState, intSvrModel, serverStatus, waiting, running>>
    BY <1>9 DEF Due, Telling, taskVars, execVars, sessionVars, pingVars
  <2> QED  BY <1>9, <2>1, KeepSpare
<1>10. CASE \E f \in Changing : BoxUpdates(f)
  BY <1>9, <1>10 DEF BoxUpdates, dialogVars
<1> QED  BY <1>1, <1>2, <1>3, <1>4, <1>5, <1>6, <1>7, <1>8, <1>9, <1>10 DEF Deliver

LEMMA SpareStep == ChainInv /\ SpareInv /\ [Next]_vars => SpareInv'
<1> SUFFICES ASSUME ChainInv, SpareInv, [Next]_vars PROVE SpareInv'
  OBVIOUS
<1>1. logins \in Nat /\ pinging \in Nat /\ orphaned \in BOOLEAN
  BY DownloadChainAssumption DEF ChainInv, LiveInv, TypeOK
<1>2. CASE UserConnect \/ UserDisconnect \/ ConnectFails \/ Disconnected \/ PingAnswers
           \/ (AnswerBusy /\ \E then \in {"connecting", "off"} : DefaultView(then))
  <2>1. session' # "up" /\ logins' = logins /\ pinging' \in {pinging, 0}
    BY <1>2 DEF UserConnect, UserDisconnect, ConnectFails, Disconnected, PingAnswers,
       DefaultView, Disconnect
  <2> QED  BY <1>1, <2>1 DEF SpareInv
<1>3. CASE \E m \in Models, plan \in SUBSET (Lists \cup {"main"}) : Login(m, plan)
  BY <1>1, <1>3 DEF Login, SpareInv
<1>4. CASE PingBegins
  <2>1. pinging' = logins' /\ UNCHANGED <<session, orphaned, logins>>
    BY <1>4 DEF PingBegins, histVars, sessionVars
  <2> QED  BY <1>1, <1>4, <2>1, PingBeginsSpare DEF SpareInv
<1>5. CASE PingInVain
  <2>1. pinging' = 0 /\ UNCHANGED <<session, logins>>
    BY <1>5 DEF PingInVain, histVars, sessionVars
  <2> QED  BY <1>1, <2>1 DEF SpareInv
<1> DEFINE stays == /\ UNCHANGED <<session, pinging, logins>>
                    /\ orphaned => orphaned'
                    /\ Spared /\ ~orphaned' => Spared'
<1>6. stays => SpareInv'
  BY DEF SpareInv
<1>7. CASE Worker \/ StatusAsked \/ ImportEnds \/ UserMidi
           \/ \E f \in Changing : BoxUpdates(f)
  <2>1. UNCHANGED <<session, pinging, logins, orphaned>>
    BY <1>7, WorkerKeeps DEF StatusAsked, ImportEnds, UserMidi, BoxUpdates, Keeps, sessionVars,
       histVars, pingVars, workerFrame, Worker, StartDownload, ExchangeLost, Refused, Empty,
       HeaderArrives, BodyComplete, StrayComplete, BodyShort, BodyThrows, ReturnsInvalid, Ends
  <2>2. ASSUME Spared, ~orphaned'
        PROVE  Spared'
    BY <1>7, <2>2, SessionSpare
  <2> QED  BY <1>6, <2>1, <2>2
<1>8. CASE Deliver /\ ~Disconnected
  <2>1. CASE DownloadFailed
    <3>1. UNCHANGED <<session, pinging, logins>> /\ (orphaned => orphaned')
      BY <2>1 DEF DownloadFailed, sessionVars
    <3> QED  BY <1>6, <1>8, <2>1, <3>1, SessionSpare
  <2>2. CASE HiddenDownloaded \/ ListDownloaded \/ StatusArrives
    <3>1. UNCHANGED <<session, pinging, logins, orphaned>>
      BY <2>2 DEF HiddenDownloaded, ListDownloaded, StatusArrives, sessionVars, histVars
    <3> QED  BY <1>6, <1>8, <3>1, SessionSpare
  <2>3. CASE OtherDownloaded
    <3>1. UNCHANGED <<session, pinging, logins, orphaned>>
      BY <2>3 DEF OtherDownloaded, sessionVars, pingVars, histVars
    <3> QED  BY <1>6, <1>8, <3>1, SessionSpare
  <2>4. CASE InvalidResponse \/ Cancelled
    <3>1. UNCHANGED <<session, pinging, logins, orphaned>>
      BY <2>4 DEF InvalidResponse, Cancelled, sessionVars, pingVars, histVars
    <3> QED  BY <1>6, <1>8, <3>1, SessionSpare
  <2> QED  BY <1>8, <2>1, <2>2, <2>3, <2>4 DEF Deliver
<1>9. CASE UNCHANGED <<sessionVars, pingVars, taskVars, flagVars, importing, uiQueue, histVars>>
  <2>1. UNCHANGED <<session, pinging, logins, orphaned>>
    BY <1>9 DEF sessionVars, pingVars, histVars
  <2> QED  BY <1>6, <1>9, <2>1, SessionSpare
<1>10. CASE AnswerBusy /\ UNCHANGED <<sessionVars, pingVars, taskVars, histVars, uiQueue>>
  BY <1>9, <1>10 DEF AnswerBusy
<1>11. CASE UNCHANGED vars
  BY <1>9, <1>11 DEF vars, dialogVars, taskVars
<1>12. CASE AnswerBusy
  BY <1>2, <1>10, <1>12 DEF AnswerBusy
<1>13. CASE UserConnect \/ UserDisconnect \/ ConnectFails \/ PingAnswers
  BY <1>2, <1>13
<1>14. CASE Deliver
  BY <1>2, <1>8, <1>14
<1> QED  BY <1>3, <1>4, <1>5, <1>7, <1>11, <1>12, <1>13, <1>14 DEF Next, User

\* A ping that would cut a session short began before that session's login, or no
\* step of a chain is waiting or under way.  allowTimerPing and serverStatus are tested
\* before the ping, the session is dropped after it: the theorem is that nothing which may
\* happen in between, statuses, failures and lists that a status asks for, lets a chain
\* start in the session in which the ping began.
THEOREM PingsSpareTheirSession == Spec => []PingSparesItsSession
<1>1. Init => ChainInv /\ SpareInv
  <2>1. Init => SpareInv
    BY DEF Init, SpareInv
  <2> QED  BY <2>1, ChainInit
<1>2. ChainInv /\ SpareInv /\ [Next]_vars => (ChainInv /\ SpareInv)'
  BY LiveStep, OrderStep, PingStep, SpareStep DEF ChainInv
<1>3. ChainInv /\ SpareInv => PingSparesItsSession
  BY DEF SpareInv, Spared, PingSparesItsSession
<1> QED  BY <1>1, <1>2, <1>3, PTL DEF Spec
=============================================================================
