------------------------------ MODULE Foreground ------------------------------
(***************************************************************************)
(* Foreground runs of the coordinator: the executor of the subagent tool   *)
(* (runs/foreground/subagent-executor.ts), the slash and prompt-template   *)
(* bridges that hand it a cancellable request, the delayed control notices *)
(* (extension/control-notices.ts), the worktrees of a parallel run, and    *)
(* the actions "interrupt" and "resume" on runs that are going on or       *)
(* remembered.                                                             *)
(*                                                                         *)
(* The host is one Node process: an action is one callback, from its event *)
(* to the next await.  Of a child only its run is seen here; what happens  *)
(* inside one, from spawn to close, is module Attempt.                     *)
(***************************************************************************)
EXTENDS Naturals, FiniteSets, Sequences, SequencesExt

CONSTANTS
  Run,           \* ids of foreground requests
  Job,           \* ids of background runs the host may launch
  Slash,         \* the runs requested through the slash bridge
  Prompt,        \* the runs requested through the prompt-template bridge
  Tasks,         \* number of tasks of each run; one task is the single path
  Concurrency,   \* limit of mapConcurrent
  Clarified,     \* the runs that open the clarify dialog
  Isolated,      \* the runs with worktree: true
  Bridge,        \* the intercom bridge is active
  RememberLimit, \* size of foregroundRuns (50 in the code)
  Watched,       \* bound: the <<run, index>> that may come to need attention
  Ends,          \* bound: the statuses each <<run, index>> may end with
  None           \* no run, no session

ASSUME ForegroundAssumption ==
  /\ Tasks \in [Run -> Nat \ {0}]
  /\ Concurrency \in Nat \ {0} /\ RememberLimit \in Nat \ {0}
  /\ Slash \subseteq Run /\ Prompt \subseteq Run /\ Slash \cap Prompt = {}
  /\ Run \cap Job = {} /\ None \notin Run \cup Job
  /\ Bridge \in BOOLEAN

VARIABLES
  phase,       \* where the executor is in each run
  outcome,     \* what the request was answered with
  answers,     \* how often it was answered
  controllers, \* requests of the bridges in progress
  cancelled,   \* pendingCancels of the bridges
  aborted,     \* the runs whose abort signal is set
  slash,       \* what the slash command shows of its request
  child,       \* each task of each run
  alive,       \* <<run, index>> whose child process exists
  attention,   \* <<run, index>> with a process whose progress is needs_attention
  claimed,     \* <<run, index>> that have emitted the control event
  stopped,     \* <<run, index>> whose interrupt controller is aborted
  controls,    \* keys of foregroundControls
  control,     \* the control object of each run in controls
  latest,      \* lastForegroundControlId
  pending,     \* pendingForegroundControlNotices
  visible,     \* the notices shown
  worktree,    \* the worktrees of each run
  captured,    \* the runs whose worktree diffs were written as patches
  remembered,  \* foregroundRuns, oldest first
  job,         \* the background runs, as their status.json says
  view,        \* the same, as state.asyncJobs says
  session,     \* the child whose session file a background run continues
  signalled,   \* the background runs that were sent the interrupt signal
  disposed,    \* the session was shut down: nothing of the extension listens
  forgotten    \* history: the runs whose control a session start removed

bridgeVars == <<controllers, cancelled, slash>>
endVars    == <<phase, outcome, answers>>
childVars  == <<child, alive, attention, claimed, stopped>>
hostVars   == <<controls, control, latest>>
treeVars   == <<worktree, captured, remembered>>
jobVars    == <<job, view, session, signalled>>
sessionVars == <<disposed, forgotten>>
vars == <<bridgeVars, endVars, aborted, childVars, hostVars, pending, visible,
          treeVars, jobVars, sessionVars>>

Index(f)   == 1 .. Tasks[f]
Child      == UNION {{f} \X Index(f) : f \in Run}
ASSUME NoneAssumption == None \notin Child
Running    == {"running", "stopping"}
Open       == Running \cup {"waiting"}
NewControl == [index |-> 0, attention |-> FALSE, interrupt |-> 0]

Init ==
  /\ phase = [f \in Run |-> "idle"] /\ outcome = [f \in Run |-> "none"]
  /\ answers = [f \in Run |-> 0] /\ slash = [f \in Run |-> "none"]
  /\ child = [f \in Run |-> [i \in Index(f) |-> "waiting"]]
  /\ control = [f \in Run |-> NewControl] /\ latest = None
  /\ worktree = [f \in Run |-> "none"] /\ remembered = <<>>
  /\ job = [j \in Job |-> "none"] /\ view = [j \in Job |-> "none"]
  /\ session = [j \in Job |-> None]
  /\ controllers = {} /\ cancelled = {} /\ aborted = {} /\ alive = {}
  /\ attention = {} /\ claimed = {} /\ stopped = {} /\ controls = {}
  /\ pending = {} /\ visible = {} /\ captured = {} /\ signalled = {}
  /\ disposed = FALSE /\ forgotten = {}

-----------------------------------------------------------------------------
(* Answering a request, and the finally block of the executor.             *)

\* The live message of the slash command, and what becomes of it.
GoLive(f) == slash' = IF f \in Slash THEN [slash EXCEPT ![f] = "live"] ELSE slash

Reply(f) ==
  slash' = [slash EXCEPT ![f] = IF f \in Slash /\ @ # "cancelled" THEN "answered" ELSE @]

\* Mutants: the end of a request forgets the controller of its bridge; the
\* finally block leaves the worktrees behind.
AnswerKeepingController(f, out) ==
  /\ phase' = [phase EXCEPT ![f] = "ended"]
  /\ outcome' = [outcome EXCEPT ![f] = out]
  /\ answers' = [answers EXCEPT ![f] = @ + 1]
  /\ aborted' = aborted \ {f}
  /\ Reply(f)
  /\ UNCHANGED controllers

Answer(f, out) ==
  /\ phase' = [phase EXCEPT ![f] = "ended"]
  /\ outcome' = [outcome EXCEPT ![f] = out]
  /\ answers' = [answers EXCEPT ![f] = @ + 1]
  /\ controllers' = controllers \ {f}
  /\ aborted' = aborted \ {f}
  /\ Reply(f)

Leave(f) ==
  /\ pending' = {n \in pending : n[1] # f}
  /\ controls' = controls \ {f}
  /\ control' = [control EXCEPT ![f] = NewControl]
  /\ latest' = IF latest = f THEN None ELSE latest
  /\ stopped' = {n \in stopped : n[1] # f}

Cleanup(f) ==
  worktree' = [worktree EXCEPT ![f] = IF @ = "present" THEN "removed" ELSE @]

\* A background run is launched and announced to the tracker in one step;
\* after a shutdown the tracker no longer hears of it.
Launch(j, s) ==
  /\ job[j] = "none"
  /\ job' = [job EXCEPT ![j] = "running"]
  /\ view' = IF disposed THEN view ELSE [view EXCEPT ![j] = "running"]
  /\ session' = [session EXCEPT ![j] = s]
  /\ UNCHANGED signalled

-----------------------------------------------------------------------------
(* Requests.                                                               *)

\* One worktree per task, all of them or none.
CheckOut(f) ==
  worktree' = [worktree EXCEPT ![f] = IF f \in Isolated THEN "present" ELSE @]

\* The first tasks start together; the control, unless a session start removed
\* it, belongs to the last of them.
Start(f) ==
  LET n == IF Concurrency < Tasks[f] THEN Concurrency ELSE Tasks[f]
  IN /\ phase' = [phase EXCEPT ![f] = "running"]
     /\ child' = [child EXCEPT ![f] =
                    [i \in Index(f) |-> IF i <= n THEN "running" ELSE "waiting"]]
     /\ alive' = alive \cup ({f} \X (1 .. n))
     /\ control' = IF f \notin controls' THEN control ELSE
                     [control EXCEPT ![f] = [index |-> n, attention |-> FALSE, interrupt |-> n]]
     /\ CheckOut(f)

\* A request comes, unless the bridges are gone; and it is for the executor: it
\* was not cancelled before it came.
Requested(f) == phase[f] = "idle" /\ ~disposed

Admitted(f) == Requested(f) /\ f \notin cancelled

\* A bridge with no session context answers at once, and so does the executor
\* to a request it refuses: depth, mode, agents, output paths, worktree setup.
\* A late refusal has been the latest run for a moment, and leaves none.
Refuse(f) ==
  /\ \/ Requested(f) /\ f \in Slash \cup Prompt /\ UNCHANGED latest
     \/ Admitted(f) /\ latest' \in {latest, None}
  /\ Answer(f, "error")
  /\ UNCHANGED <<cancelled, childVars, controls, control, pending, visible, treeVars, jobVars>>

CancelledBeforeStart(f) ==
  /\ Requested(f) /\ f \in cancelled
  /\ cancelled' = cancelled \ {f}
  /\ Answer(f, "cancelled")
  /\ UNCHANGED <<childVars, hostVars, pending, visible, treeVars, jobVars>>

RunInBackground(f) ==
  /\ Admitted(f) /\ f \notin Clarified
  /\ \E j \in Job : Launch(j, None)
  /\ Answer(f, "background")
  /\ UNCHANGED <<cancelled, childVars, hostVars, pending, visible, treeVars>>

Enter(f) ==
  /\ Admitted(f)
  /\ controls' = controls \cup {f} /\ latest' = f
  /\ controllers' = IF f \in Slash \cup Prompt THEN controllers \cup {f} ELSE controllers
  /\ GoLive(f)
  /\ UNCHANGED <<outcome, answers, cancelled, aborted, attention, claimed, stopped,
                 pending, visible, captured, remembered, jobVars>>

Begin(f) == f \notin Clarified /\ Enter(f) /\ Start(f)

OpenDialog(f) ==
  /\ f \in Clarified /\ Enter(f)
  /\ phase' = [phase EXCEPT ![f] = "clarify"]
  /\ UNCHANGED <<child, alive, control, worktree>>

\* It is cancelled; or an output path chosen in it, or the worktrees, are refused.
DialogGivesUp(f) ==
  /\ \E out \in {"cancelled", "error"} : Answer(f, out)
  /\ Leave(f) /\ UNCHANGED <<child, alive, worktree, jobVars>>

DialogToBackground(f) ==
  /\ \E j \in Job : Launch(j, None)
  /\ Answer(f, "background") /\ Leave(f) /\ UNCHANGED <<child, alive, worktree>>

DialogConfirmed(f) ==
  /\ UNCHANGED <<outcome, answers, controllers, aborted, slash, stopped, pending,
                 controls, latest, jobVars>>
  /\ Start(f)

CloseDialog(f) ==
  /\ phase[f] = "clarify"
  /\ DialogGivesUp(f) \/ DialogToBackground(f) \/ DialogConfirmed(f)
  /\ UNCHANGED <<cancelled, attention, claimed, visible, captured, remembered>>

-----------------------------------------------------------------------------
(* The ways to cancel one.                                                 *)

\* Escape in the slash command, which gives up at once, heard or not; the same
\* request made by an extension through the other bridge, at any time (after the
\* answer it only leaves a name in pendingCancels); or the user stops the call.
Cancellable(f) ==
  CASE f \in Slash  -> slash[f] = "live"
    [] f \in Prompt -> f \notin cancelled \cup aborted /\ phase[f] # "ended" /\ ~disposed
    [] OTHER        -> f \notin aborted /\ phase[f] \notin {"idle", "ended"}

Cancel(f) ==
  /\ Cancellable(f)
  /\ slash' = IF f \in Slash THEN [slash EXCEPT ![f] = "cancelled"] ELSE slash
  /\ IF f \in Slash \cup Prompt /\ f \notin controllers
     THEN cancelled' = (IF disposed THEN {} ELSE cancelled \cup {f}) /\ UNCHANGED aborted
     ELSE aborted' = aborted \cup {f} /\ UNCHANGED cancelled
  /\ UNCHANGED <<controllers, endVars, childVars, hostVars, pending, visible, treeVars, jobVars>>

\* session_shutdown: every request is aborted, every waiting notice dropped, and
\* nothing listens any more, while the runs and their controls go on.
Shutdown ==
  /\ ~disposed /\ disposed' = TRUE
  /\ aborted' = aborted \cup controllers
  /\ controllers' = {} /\ cancelled' = {} /\ pending' = {}
  /\ view' = [j \in Job |-> "none"]
  /\ UNCHANGED <<slash, endVars, childVars, hostVars, visible, treeVars, job, session,
                 signalled, forgotten>>

\* session_start: the waiting notices, the jobs and the controls are dropped,
\* those of the runs that are still going on among them.
SessionStarts ==
  /\ ~disposed /\ UNCHANGED disposed
  /\ forgotten' = forgotten \cup controls
  /\ controls' = {} /\ latest' = None /\ pending' = {}
  /\ control' = [f \in Run |-> NewControl]
  /\ view' = [j \in Job |-> "none"]
  /\ UNCHANGED <<bridgeVars, endVars, aborted, childVars, visible, treeVars, job, session,
                 signalled>>

-----------------------------------------------------------------------------
(* Children.                                                               *)

\* An update of a child makes it the current one, but leaves the interrupt
\* closure with the child that started last.
Show(f, i, needs) ==
  control' = IF f \in controls
             THEN [control EXCEPT ![f] = [@ EXCEPT !.index = i, !.attention = needs]]
             ELSE control

Progress(f, i) ==
  /\ child[f][i] \in Running
  /\ Show(f, i, <<f, i>> \in attention) /\ control' # control
  /\ UNCHANGED <<bridgeVars, endVars, aborted, childVars, controls, latest, pending,
                 visible, treeVars, jobVars>>

\* A child goes idle or fails too often: its event, if it is heard, becomes a
\* notice a second later.  A detached child still emits events, but no update.
NeedsAttention(f, i) ==
  /\ <<f, i>> \in (Watched \cap alive) \ attention
  /\ attention' = attention \cup {<<f, i>>}
  /\ claimed' = claimed \cup {<<f, i>>}
  /\ pending' = IF <<f, i>> \in claimed \/ disposed THEN pending ELSE pending \cup {<<f, i>>}
  /\ IF child[f][i] \in Running THEN Show(f, i, TRUE) ELSE UNCHANGED control
  /\ UNCHANGED <<bridgeVars, endVars, aborted, child, alive, stopped, controls, latest,
                 visible, treeVars, jobVars>>

\* Mutant: only the run entered last is looked at.
ActionableOfLatest(n) ==
  /\ n[1] = latest
  /\ control[n[1]].index = n[2] /\ control[n[1]].attention

Actionable(n) ==
  /\ n[1] \in controls
  /\ control[n[1]].index = n[2] /\ control[n[1]].attention

NoticeTimer(n) ==
  /\ n \in pending
  /\ pending' = pending \ {n}
  /\ visible' = IF Actionable(n) THEN visible \cup {n} ELSE visible
  /\ UNCHANGED <<bridgeVars, endVars, aborted, childVars, hostVars, treeVars, jobVars>>

\* The task a worker takes that has returned with status s, if any.
NextTask(f, s) ==
  LET waiting == {k \in Index(f) : child[f][k] = "waiting"}
  IN IF s = "threw" \/ waiting = {} THEN 0 ELSE CHOOSE k \in waiting : \A l \in waiting : k <= l

\* runSync of task i returns with status s.  If i was the current child nobody
\* can be interrupted any more; the worker takes the next task.  When it throws
\* the worker is gone: the first error ends the run, while the other workers
\* go on with its tasks.
Settle(f, i, s) ==
  LET next == NextTask(f, s)
      left == IF control[f].index = i THEN [control[f] EXCEPT !.interrupt = 0] ELSE control[f]
      gone == IF s \in {"detached", "both"} THEN {} ELSE {<<f, i>>}
  IN /\ child' = [child EXCEPT ![f] = [k \in Index(f) |->
                    IF k = i THEN s ELSE IF k = next THEN "running" ELSE @[k]]]
     /\ alive' = (alive \ gone) \cup (IF next = 0 THEN {} ELSE {<<f, next>>})
     /\ attention' = attention \ gone
     /\ IF s = "threw" /\ phase[f] = "running"
        THEN Answer(f, "error") /\ Leave(f) /\ Cleanup(f)
        ELSE /\ control' = IF f \notin controls THEN control
                          ELSE [control EXCEPT ![f] = IF next = 0 THEN left ELSE
                                  [index |-> next, attention |-> FALSE, interrupt |-> next]]
             /\ UNCHANGED <<controllers, aborted, slash, endVars, stopped, controls, latest, pending,
                            worktree>>
     /\ UNCHANGED <<claimed, cancelled, visible, captured, remembered, jobVars>>

\* A child is detached on its own request, or by an abort while it waits for
\* an answer; when it was interrupted before, its result says both.
ChildEnds(f, i) ==
  /\ child[f][i] \in Running
  /\ \E s \in Ends[<<f, i>>] \cap (IF child[f][i] = "stopping" THEN {"paused", "both"}
                               ELSE {"completed", "failed", "detached"}) : Settle(f, i, s)

\* An artifact of the child cannot be written.
ChildThrows(f, i) ==
  child[f][i] \in Running /\ "threw" \in Ends[<<f, i>>] /\ Settle(f, i, "threw")

DetachedExits(n) ==
  /\ n \in alive /\ child[n[1]][n[2]] \notin Running
  /\ alive' = alive \ {n} /\ attention' = attention \ {n}
  /\ UNCHANGED <<bridgeVars, endVars, aborted, child, claimed, stopped, hostVars,
                 pending, visible, treeVars, jobVars>>

-----------------------------------------------------------------------------
(* The end of a run.                                                       *)

Has(f, S) == \E i \in Index(f) : child[f][i] \in S

Remember(f) ==
  LET all == Append(remembered, f)
  IN remembered' = IF Len(all) > RememberLimit THEN Tail(all) ELSE all

\* A parallel run that was interrupted and detached is reported as paused, a
\* single one as detached.
Outcome(f) ==
  IF Has(f, {"paused"}) \/ (Tasks[f] > 1 /\ Has(f, {"both"})) THEN "paused"
  ELSE IF Has(f, {"both", "detached"}) THEN "detached"
  ELSE IF Has(f, {"failed"}) THEN "failed" ELSE "complete"

WriteDiffs(f) == captured' = IF f \in Isolated THEN captured \cup {f} ELSE captured

\* An interrupted run and a detached one return without the diffs of their
\* worktrees; with a bridge the results are first offered to the orchestrator.
Collect(f) ==
  /\ phase[f] = "running" /\ ~Has(f, Open)
  /\ Remember(f)
  /\ LET out == Outcome(f)
     IN IF out \in {"paused", "detached"} \/ ~Bridge
        THEN /\ IF out \in {"paused", "detached"} THEN UNCHANGED captured ELSE WriteDiffs(f)
             /\ Answer(f, out) /\ Leave(f) /\ Cleanup(f)
        ELSE /\ phase' = [phase EXCEPT ![f] = "receipt"]
             /\ outcome' = [outcome EXCEPT ![f] = out]
             /\ UNCHANGED <<captured, answers, controllers, aborted, slash, pending, hostVars,
                            stopped, worktree>>
  /\ UNCHANGED <<cancelled, child, alive, attention, claimed, visible, jobVars>>

\* The orchestrator confirms within half a second, and the answer is a
\* receipt without diffs, or it does not.
Receipt(f) ==
  /\ phase[f] = "receipt"
  /\ UNCHANGED captured \/ WriteDiffs(f)
  /\ Answer(f, outcome[f]) /\ Leave(f) /\ Cleanup(f)
  /\ UNCHANGED <<cancelled, child, alive, attention, claimed, visible, remembered, jobVars>>

-----------------------------------------------------------------------------
(* Background runs, and the actions of the tool on runs.                   *)

JobEnds(j) ==
  /\ job[j] = "running"
  /\ job' = [job EXCEPT ![j] = "ended"]
  /\ session' = [session EXCEPT ![j] = None]
  /\ signalled' = signalled \ {j}
  /\ UNCHANGED <<view, bridgeVars, endVars, aborted, childVars, hostVars,
                 pending, visible, treeVars>>

Tracker(j) ==
  /\ \/ view[j] = "running" /\ job[j] = "ended" /\ view' = [view EXCEPT ![j] = "ended"]
     \/ view[j] = "ended" /\ view' = [view EXCEPT ![j] = "none"]
  /\ UNCHANGED <<job, session, signalled, bridgeVars, endVars, aborted, childVars, hostVars,
                 pending, visible, treeVars>>

\* The closure aborts the controller of the child that started last, which
\* is heard only while that child runs.
InterruptChild(f) ==
  LET i == control[f].interrupt
      heard == child[f][i] \in Running
  IN /\ IF <<f, i>> \in stopped THEN UNCHANGED <<stopped, child, attention, control>>
        ELSE /\ stopped' = stopped \cup {<<f, i>>}
             /\ child' = IF heard THEN [child EXCEPT ![f][i] = "stopping"] ELSE child
             /\ attention' = IF heard THEN attention \ {<<f, i>>} ELSE attention
             /\ control' = [control EXCEPT ![f] =
                             IF heard THEN [@ EXCEPT !.index = i, !.attention = FALSE]
                             ELSE [@ EXCEPT !.attention = FALSE]]
     /\ UNCHANGED jobVars

\* A tracked run with that id, or any that is shown as running; it is sent
\* the signal if its status still says so.
InterruptJob(t) ==
  LET shown == {j \in Job : view[j] = "running"}
  IN /\ \E j \in (IF t \in Job /\ view[t] # "none" THEN {t} ELSE shown) :
          signalled' = IF job[j] = "running" THEN signalled \cup {j} ELSE signalled
     /\ UNCHANGED <<job, view, session, stopped, child, attention, control>>

\* Without an id: the foreground run entered last, or any other.
Target(t) ==
  IF t \in Run THEN {t} \cap controls
  ELSE IF t # None THEN {}
  ELSE IF latest \in controls THEN {latest} ELSE controls

Interrupt(t) ==
  /\ ~disposed
  /\ LET able == {f \in Target(t) : control[f].interrupt # 0}
     IN \/ \E f \in able : InterruptChild(f)
        \/ (Target(t) = {} \/ Target(t) \ able # {}) /\ InterruptJob(t)
  /\ UNCHANGED <<bridgeVars, endVars, aborted, alive, claimed, controls, latest, pending,
                 visible, treeVars>>

\* Mutant: a detached child is taken for one that has exited.
ResumableDetached(f, i) == f \in Range(remembered) /\ i \in Index(f)

\* A remembered child that is not detached is revived in the background, on
\* the session file it left.
Resumable(f, i) ==
  f \in Range(remembered) /\ child[f][i] \notin {"detached", "both"}

Resume(f, i) ==
  /\ Resumable(f, i) /\ ~disposed
  /\ \E j \in Job : Launch(j, <<f, i>>)
  /\ UNCHANGED <<bridgeVars, endVars, aborted, childVars, hostVars, pending, visible, treeVars>>

RunStep(f) ==
  \/ Refuse(f) \/ CancelledBeforeStart(f) \/ RunInBackground(f) \/ Begin(f)
  \/ OpenDialog(f) \/ CloseDialog(f) \/ Cancel(f) \/ Collect(f) \/ Receipt(f)

ChildStep(f, i) ==
  \/ Progress(f, i) \/ NeedsAttention(f, i) \/ NoticeTimer(<<f, i>>)
  \/ ChildEnds(f, i) \/ ChildThrows(f, i) \/ DetachedExits(<<f, i>>) \/ Resume(f, i)

Step ==
  \/ \E f \in Run : RunStep(f) \/ \E i \in Index(f) : ChildStep(f, i)
  \/ \E j \in Job : JobEnds(j) \/ Tracker(j)
  \/ \E t \in Run \cup Job \cup {None} : Interrupt(t)

Next == (Step /\ UNCHANGED sessionVars) \/ Shutdown \/ SessionStarts

Spec == Init /\ [][Next]_vars

-----------------------------------------------------------------------------
(* Properties.                                                             *)

\* Types, the size of foregroundRuns, and whose is the interrupt closure.
TypeOK ==
  /\ phase \in [Run -> {"idle", "clarify", "running", "receipt", "ended"}]
  /\ outcome \in [Run -> {"none", "error", "cancelled", "background", "complete",
                          "failed", "paused", "detached"}]
  /\ answers \in [Run -> Nat]
  /\ controllers \subseteq Slash \cup Prompt /\ cancelled \subseteq Slash \cup Prompt
  /\ aborted \subseteq Run /\ slash \in [Run -> {"none", "live", "cancelled", "answered"}]
  /\ \A f \in Run : child[f] \in [Index(f) ->
        Open \cup {"completed", "failed", "paused", "detached", "both", "threw"}]
  /\ alive \subseteq Child /\ attention \subseteq alive /\ claimed \subseteq Child
  /\ stopped \subseteq Child /\ pending \cup visible \subseteq claimed
  /\ controls \subseteq Run /\ latest \in Run \cup {None}
  /\ \A f \in Run : control[f] \in [index : 0 .. Tasks[f], attention : BOOLEAN,
                                     interrupt : 0 .. Tasks[f]]
  /\ worktree \in [Run -> {"none", "present", "removed"}] /\ captured \subseteq Isolated
  /\ remembered \in Seq(Run) /\ Len(remembered) <= RememberLimit
  /\ job \in [Job -> {"none", "running", "ended"}] /\ view \in [Job -> {"none", "running", "ended"}]
  /\ session \in [Job -> Child \cup {None}] /\ signalled \subseteq Job
  /\ disposed \in BOOLEAN /\ forgotten \subseteq Run

\* A request is answered exactly once, however it is refused, cancelled, thrown
\* out of, put in the background or run, and the bridges agree with the
\* executor: they hold a controller only for a run in progress, a slash command
\* waits only for such a run, and one that gave up has stopped its run or left
\* the cancellation where the request will find it.
AnsweredOnce ==
  \A f \in Run :
    /\ answers[f] = IF phase[f] = "ended" THEN 1 ELSE 0
    /\ f \in controllers \/ slash[f] = "live" => phase[f] \notin {"idle", "ended"}
    /\ slash[f] = "cancelled" /\ phase[f] # "ended" => f \in aborted \cup cancelled

\* A run that was answered leaves no control behind and nothing checked out, and
\* one that is going on has its control unless a new session took it; its worktrees are
\* taken from under a child that still works in them only when the child detached itself
\* or another child of the run threw.
EndsClean ==
  \A f \in Run :
    /\ phase[f] = "ended" => f \notin controls /\ latest # f /\ worktree[f] # "present"
    /\ phase[f] \in {"clarify", "running", "receipt"} => f \in controls \cup forgotten
    /\ worktree[f] = "removed" /\ ~Has(f, {"threw"}) =>
         \A i \in Index(f) : <<f, i>> \in alive => child[f][i] \in {"detached", "both"}

\* Every request comes to one answer, the bridges agree with it, and nothing is left
\* behind: TypeOK, AnsweredOnce and EndsClean.
Answered == TypeOK /\ AnsweredOnce /\ EndsClean

\* The session file of a child is never continued by a background run while the
\* process of the child still writes it.
ReviveOnlyAfterExit ==
  \A j \in Job : job[j] = "running" => session[j] \notin alive

\* The only child of a run is never passed over, whatever happens to other runs
\* in the second a notice waits: as long as the child needs attention and was
\* not interrupted, and the session it was started in goes on (a shutdown and a
\* new session drop the waiting notices of runs that go on), its notice is
\* waiting or shown.
SoleChildNoticed ==
  \A f \in Run :
    (/\ Tasks[f] = 1 /\ <<f, 1>> \in attention /\ child[f][1] = "running"
     /\ f \in controls /\ ~disposed)
    => <<f, 1>> \in pending \cup visible

=============================================================================
