------------------------------- MODULE GuiUpdate -------------------------------
(* claw-gui: looking for a release and downloading it (update_checker.rs),   *)
(* the buttons for it (views/about.rs, the Help menu) and the part of every  *)
(* frame that takes the results of the background tasks (main.rs).  A frame  *)
(* drains both channels, draws with what they held, and takes one click.     *)
EXTENDS Options, Naturals, Sequences, FiniteSets

CONSTANTS Versions,     \* releases newer than the program
          LaunchFails,  \* the installer is started, which may fail: not so on
                        \* Linux, where the user is asked to do it
          MaxChecks,    \* bound: the checks of a session
          MaxDownloads  \* bound: the downloads of a session

ASSUME UpdateAssumption ==
    /\ LaunchFails \in BOOLEAN /\ MaxChecks \in Nat /\ MaxDownloads \in Nat
    /\ None \notin {"downloading", "completed", "failed"}

VARIABLES
    running,   \* the checks whose task has not ended
    checked,   \* the checks started so far
    drained,   \* what ended checks found, not shown yet
    about,     \* AboutViewState: [status, progress, check, download]
    dismissed, \* the version whose banner was closed
    tasks,     \* the phase of every download's task
    sent       \* the progress not drained yet

updateVars == <<running, checked, drained, about, dismissed, tasks, sent>>

CheckResults == Versions \cup {"up_to_date", "error"}

UpdateInit ==
    /\ running = 1 /\ checked = 1
    /\ drained = <<>>
    /\ about = [status |-> "idle", progress |-> None, check |-> FALSE, download |-> FALSE]
    /\ dismissed = None
    /\ tasks = [d \in 1..MaxDownloads |-> "unused"]
    /\ sent = <<>>

--------------------------------------------------------------------------------
(* The background tasks *)

CheckForUpdate ==
    /\ running > 0
    /\ running' = running - 1
    /\ \E found \in CheckResults : drained' = Append(drained, found)
    /\ UNCHANGED <<checked, about, dismissed, tasks, sent>>

\* A step of a download sends status, unless that is None, and enters phase.
TaskSends(d, phase, status) ==
    /\ tasks' = [tasks EXCEPT ![d] = phase]
    /\ sent' = IF status = None THEN sent ELSE Append(sent, status)
    /\ UNCHANGED <<running, checked, drained, about, dismissed>>

FetchReleaseSilently(d) ==
    /\ tasks[d] = "fetching"
    /\ TaskSends(d, "writing", "downloading") \/ TaskSends(d, "ended", None)

FetchRelease(d) ==
    /\ tasks[d] = "fetching"
    /\ TaskSends(d, "writing", "downloading") \/ TaskSends(d, "ended", "failed")

\* The chunks between the first and the last change no more than the bytes shown.
WriteInstaller(d) ==
    /\ tasks[d] = "writing"
    /\ TaskSends(d, "launching", "completed") \/ TaskSends(d, "ended", "failed")

\* Where the installer is started, the program exits when that succeeds.
LaunchInstaller(d) ==
    /\ tasks[d] = "launching"
    /\ TaskSends(d, "ended", IF LaunchFails THEN "failed" ELSE None)

--------------------------------------------------------------------------------
(* A frame *)

Writing(d) == tasks[d] \in {"fetching", "writing"}

\* trigger_check and the status that every caller but the start sets with it.
Trigger(a) == [a EXCEPT !.status = "checking", !.check = FALSE]

DrainResult(a) == IF drained = <<>> THEN a ELSE [a EXCEPT !.status = drained[Len(drained)]]

\* A download that was asked for starts if an update is still shown then.
Chosen(a) == a.download /\ a.status \in Versions

HandleDownloadSilently(a) == [a EXCEPT !.download = FALSE]

HandleDownload(a) ==
    [a EXCEPT !.download = FALSE, !.progress = IF Chosen(a) THEN "downloading" ELSE @]

DrainProgress(a) == IF sent = <<>> THEN a ELSE [a EXCEPT !.progress = sent[Len(sent)]]

\* The buttons as the frame draws them for a.
CanCheck(a) == a.status # "checking" /\ a.progress # "downloading"

CanDownload(a) == a.status \in Versions /\ a.progress # "downloading"

CanRetry(a) == a.progress = "failed"

Clicked(a) ==
    {a} \cup (IF CanCheck(a) THEN {[a EXCEPT !.check = TRUE]} ELSE {})
        \cup (IF CanDownload(a) THEN {[a EXCEPT !.download = TRUE]} ELSE {})
        \cup (IF CanRetry(a) THEN {[a EXCEPT !.progress = None, !.download = TRUE]} ELSE {})

\* What is left of the bounds limits what is clicked, never the frames.
Bounded(now, newTasks, newChecked) ==
    /\ now.download => \E d \in 1..MaxDownloads : newTasks[d] = "unused"
    /\ newChecked + (IF now.check THEN 1 ELSE 0) <= MaxChecks

Update ==
    LET asked   == IF about.check THEN Trigger(about) ELSE about
        found   == DrainResult(asked)
        drawn   == DrainProgress(HandleDownload(found))
        next    == CHOOSE d \in 1..MaxDownloads : tasks[d] = "unused" /\ \A e \in 1..(d - 1) : tasks[e] # "unused"
    IN /\ tasks' = IF Chosen(found) THEN [tasks EXCEPT ![next] = "fetching"] ELSE tasks
       /\ drained' = <<>>
       /\ sent' = <<>>
       /\ \E menu \in BOOLEAN, closed \in BOOLEAN, now \in Clicked(drawn) :
             LET started == (IF about.check THEN 1 ELSE 0) + (IF menu THEN 1 ELSE 0)
             IN /\ menu => now = drawn
                /\ closed => drawn.status \in Versions /\ ~menu /\ now = drawn
                /\ Bounded(now, tasks', checked + started)
                /\ about' = IF menu THEN [now EXCEPT !.status = "checking"] ELSE now
                /\ running' = running + started
                /\ checked' = checked + started
                /\ dismissed' = IF closed THEN drawn.status
                                ELSE IF drained # <<>> /\ found.status \in Versions \ {dismissed} THEN None
                                ELSE dismissed

DownloadStep(d) == FetchRelease(d) \/ WriteInstaller(d) \/ LaunchInstaller(d)
UpdateNext == CheckForUpdate \/ Update \/ \E d \in 1..MaxDownloads : DownloadStep(d)

\* The requests have time limits, and whoever sends asks for a frame.
UpdateFairness ==
    /\ WF_updateVars(CheckForUpdate)
    /\ \A d \in 1..MaxDownloads : WF_updateVars(DownloadStep(d))
    /\ WF_updateVars(Update)

UpdateSpec == UpdateInit /\ [][UpdateNext]_updateVars /\ UpdateFairness

--------------------------------------------------------------------------------
(* Properties *)

\* Two downloads never write the temporary file of the installer together,
\* whatever the user clicks: the buttons look at the progress shown, which is
\* frames behind the tasks.  Where the launch may fail this does not hold: the
\* late failure of one download offers a retry while the next one runs.
OneDownload == ~LaunchFails => Cardinality({d \in 1..MaxDownloads : Writing(d)}) <= 1

\* What is shown as going on is: its task runs, or what it sent last waits for
\* the next frame.
ProgressIsTrue ==
    (about.progress = "downloading") =>
        \/ \E d \in 1..MaxDownloads : Writing(d)
        \/ sent # <<>>

\* One download writes at a time, and the progress shown is a task's.
UpdateIsTrue == OneDownload /\ ProgressIsTrue

\* A check and a download that are shown as going on come to an end.
UpdatesEnd ==
    /\ (about.status = "checking") ~> (about.status # "checking")
    /\ (about.progress = "downloading") ~> (about.progress # "downloading")
================================================================================
