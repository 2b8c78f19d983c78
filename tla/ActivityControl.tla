--------------------------- MODULE ActivityControl ---------------------------
(***************************************************************************)
(* How a background runner (runs/background/subagent-runner.ts) watches    *)
(* its children: a timer and the children's own events move each step      *)
(* between "no remark", long-running and needing attention; every first    *)
(* remark of a kind is appended to events.jsonl as a control event, and    *)
(* status.json shows what the steps and the run are thought to be doing.   *)
(*                                                                         *)
(* Time is abstracted to what the thresholds tell apart: whether a step    *)
(* has been silent for too long, which long-running threshold it has       *)
(* passed, and whether its last failed edit is older than the window.      *)
(***************************************************************************)
EXTENDS Naturals

CONSTANTS
  Step,        \* the flat steps of the plan
  Groups,      \* number of groups of the plan
  GroupOf,     \* the group of each step
  Dynamic,     \* the groups that are dynamic fan-outs
  Threshold,   \* failedToolAttemptsBeforeAttention
  NotifyOn,    \* the remarks that are notified
  Editing,     \* bound: the steps whose children call tools
  Paths,       \* files the children edit
  MaxRetell    \* bound: log lines of one kind counted, and failures counted

Attention == {"idle", "tool_failures", "completion_guard"}
LongRunning == {"time_threshold", "turn_threshold"}
Reason == Attention \cup LongRunning
NoPath == "none"

ASSUME ControlAssumption ==
  /\ Groups \in Nat
  /\ GroupOf \in [Step -> 1..Groups]
  /\ Dynamic \subseteq 1..Groups
  /\ Threshold \in Nat \ {0}
  /\ Editing \subseteq Step
  /\ NotifyOn \subseteq {"needs_attention", "active_long_running"}
  /\ NoPath \notin Paths
  /\ MaxRetell \in Nat /\ MaxRetell >= Threshold /\ MaxRetell > 1

VARIABLES
  group,        \* the group being executed; Groups + 1 once the loop is left
  status,       \* statusPayload.steps[i].status
  runState,     \* statusPayload.state
  activity,     \* statusPayload.steps[i].activityState
  runActivity,  \* statusPayload.activityState
  current,      \* currentActivityState: what the timer last gave the run
  noticed,      \* activeLongRunningSteps
  claimed,      \* emittedControlEventKeys
  log,          \* control events in events.jsonl, counted by step and reason
  silent,       \* the step's last activity is older than the idle threshold
  due,          \* the long-running threshold the step has passed
  pending,      \* pendingToolResults: the tool call awaiting its result
  failures,     \* mutatingFailureStates
  file          \* status.json: activity of the run and of each step

stepVars == <<group, status, runState>>
vars == <<group, status, runState, activity, runActivity, current, noticed,
          claimed, log, silent, due, pending, failures, file>>

None == "none"
Quiet == [s \in Step |-> None]
NoTool == [mutates |-> FALSE, path |-> NoPath]
NoFailures == [consecutive |-> 0, path |-> NoPath, repeated |-> 0, old |-> FALSE]

TypeOf(reason) == IF reason \in Attention THEN "needs_attention" ELSE "active_long_running"
StepsOf(g) == {s \in Step : GroupOf[s] = g}
Running(s) == status[s] = "running"
\* A step whose child may still write events: an interrupted one, too.
Heard(s) == status[s] \in {"running", "paused"}
Capped(n) == IF n < MaxRetell THEN n ELSE MaxRetell

Init ==
  /\ group = 1 /\ runState = "running"
  /\ status = [s \in Step |-> "pending"]
  /\ activity = Quiet /\ runActivity = None /\ current = None
  /\ noticed = {} /\ claimed = {}
  /\ log = [e \in Step \X Reason |-> 0]
  /\ silent = [s \in Step |-> FALSE]
  /\ due = Quiet
  /\ pending = [s \in Step |-> NoTool]
  /\ failures = [s \in Step |-> NoFailures]
  /\ file = [run |-> None, steps |-> Quiet]

\* writeStatusPayload, as far as the activity of the run goes.
WriteStatus == file' = [run |-> runActivity', steps |-> activity']

\* appendControlEvent for each remark of one turn: a remark is written only if
\* its type is notified and its key has not been claimed before.
New(events) == {e \in events : TypeOf(e[2]) \in NotifyOn /\ e \notin claimed}

\* Mutant: the key of a notification is not remembered.
AppendUnclaimed(events) ==
  /\ UNCHANGED claimed
  /\ log' = [e \in Step \X Reason |->
       IF e \in New(events) THEN Capped(log[e] + 1) ELSE log[e]]

AppendControlEvents(events) ==
  /\ claimed' = claimed \cup New(events)
  /\ log' = [e \in Step \X Reason |->
       IF e \in New(events) THEN Capped(log[e] + 1) ELSE log[e]]

\* Mutant: a step that needs attention can become merely long-running.
BecomesLongAlways(s, a) == s \notin noticed /\ Running(s) /\ due'[s] # None

\* maybeEmitActiveLongRunning: whether step s, now in activity a, is remarked.
BecomesLong(s, a) ==
  s \notin noticed /\ Running(s) /\ a # "needs_attention" /\ due'[s] # None

LongEvents(S) == {<<s, due'[s]>> : s \in S}

-----------------------------------------------------------------------------
(* The plan. *)

\* A sequential step starts, or a parallel group of which every task starts at
\* once (its concurrency is at least its width).  The run's own activity is
\* cleared, except by a dynamic group; what the timer last gave it is not.
StartGroup ==
  /\ runState = "running" /\ group \in 1..Groups
  /\ StepsOf(group) # {}
  /\ \A s \in StepsOf(group) : status[s] = "pending"
  /\ status' = [s \in Step |-> IF GroupOf[s] = group THEN "running" ELSE status[s]]
  /\ activity' = [s \in Step |-> IF GroupOf[s] = group THEN None ELSE activity[s]]
  /\ runActivity' = IF group \in Dynamic THEN runActivity ELSE None
  /\ silent' = [s \in Step |-> IF GroupOf[s] = group THEN FALSE ELSE silent[s]]
  /\ UNCHANGED <<group, runState, current, noticed, claimed, log, due, pending, failures>>
  /\ WriteStatus

\* A child has exited and its step ends; its activity is left as it was.  A
\* clean exit without an edit fails the completion guard, and so does the exit
\* of an interrupted child, which is reported as clean.
StepEnds(s) ==
  /\ Heard(s)
  /\ status' = [status EXCEPT ![s] = "ended"]
  /\ \E guarded \in BOOLEAN :
       AppendControlEvents(IF guarded THEN {<<s, "completion_guard">>} ELSE {})
  /\ UNCHANGED <<group, runState, activity, runActivity, current, noticed,
                 silent, due, pending, failures>>
  /\ WriteStatus

\* Every task of the group is settled: the next group, or the end of the loop
\* after a failure or an interrupt.
NextGroup ==
  /\ group \in 1..Groups
  /\ \A s \in StepsOf(group) : status[s] = "ended"
  /\ group' \in IF runState = "running" THEN {group + 1, Groups + 1} ELSE {Groups + 1}
  /\ UNCHANGED <<status, runState, activity, runActivity, current, noticed,
                 claimed, log, silent, due, pending, failures, file>>

Interrupt ==
  /\ runState = "running"
  /\ runState' = "paused"
  /\ current' = None /\ runActivity' = None
  /\ status' = [s \in Step |-> IF Running(s) THEN "paused" ELSE status[s]]
  /\ activity' = [s \in Step |-> IF Running(s) THEN None ELSE activity[s]]
  /\ UNCHANGED <<group, noticed, claimed, log, silent, due, pending, failures>>
  /\ WriteStatus

EndRun ==
  /\ runState # "ended"
  /\ group = Groups + 1 \/ (runState = "paused" /\ \A s \in Step : ~Heard(s))
  /\ runState' = "ended"
  /\ runActivity' = None
  /\ UNCHANGED <<group, status, activity, current, noticed, claimed, log,
                 silent, due, pending, failures>>
  /\ WriteStatus

-----------------------------------------------------------------------------
(* Time passes and children work, unseen until the next event or tick. *)

FallSilent(s) ==
  /\ Running(s) /\ ~silent[s]
  /\ silent' = [silent EXCEPT ![s] = TRUE]
  /\ UNCHANGED <<stepVars, activity, runActivity, current, noticed, claimed, log,
                 due, pending, failures, file>>

\* Output that is no event moves the time stamp of the step's output log.
OutputGrows(s) ==
  /\ Running(s) /\ silent[s]
  /\ silent' = [silent EXCEPT ![s] = FALSE]
  /\ UNCHANGED <<stepVars, activity, runActivity, current, noticed, claimed, log,
                 due, pending, failures, file>>

TimeIsUp(s) ==
  /\ Running(s) /\ due[s] # "time_threshold"
  /\ due' = [due EXCEPT ![s] = "time_threshold"]
  /\ UNCHANGED <<stepVars, activity, runActivity, current, noticed, claimed, log,
                 silent, pending, failures, file>>

WindowPasses(s) ==
  /\ Running(s) /\ failures[s].consecutive > 0 /\ ~failures[s].old
  /\ failures' = [failures EXCEPT ![s].old = TRUE]
  /\ UNCHANGED <<stepVars, activity, runActivity, current, noticed, claimed, log,
                 silent, due, pending, file>>

-----------------------------------------------------------------------------
(* Events of a child: updateStepFromChildEvent, which asks for neither the   *)
(* state of the run nor that of the step.                                    *)

\* What every event ends with: it is activity, it may be the moment to remark
\* that the step runs long, and the status is written.  S is the step's
\* activity, r the run's and E the remarks so far.
AfterEvent(s, a, r, E) ==
  LET long == BecomesLong(s, a) IN
  /\ activity' = [activity EXCEPT ![s] = IF long THEN "active_long_running" ELSE a]
  /\ runActivity' = IF long /\ r # "needs_attention" THEN "active_long_running" ELSE r
  /\ noticed' = IF long THEN noticed \cup {s} ELSE noticed
  /\ AppendControlEvents(E \cup LongEvents(IF long THEN {s} ELSE {}))
  /\ silent' = [silent EXCEPT ![s] = FALSE]
  /\ UNCHANGED <<stepVars, current>>
  /\ WriteStatus

\* A call of a tool: the one call remembered is the last one.
ToolStarts(s) ==
  /\ Heard(s) /\ s \in Editing
  /\ \E tool \in [mutates: {TRUE}, path: Paths \cup {NoPath}] \cup {NoTool} :
       pending' = [pending EXCEPT ![s] = tool]
  /\ UNCHANGED <<due, failures>>
  /\ AfterEvent(s, activity[s], runActivity, {})

\* A message of the assistant ends a turn, which may be the last one allowed.
TurnEnds(s) ==
  /\ Heard(s)
  /\ \E d \in {due[s]} \cup (IF due[s] = None THEN {"turn_threshold"} ELSE {}) :
       due' = [due EXCEPT ![s] = d]
  /\ UNCHANGED <<pending, failures>>
  /\ AfterEvent(s, activity[s], runActivity, {})

\* recordMutatingFailure: a failure outside the window starts a new count.
Recorded(f, path) ==
  LET g == IF f.consecutive = 0 \/ f.old THEN NoFailures ELSE f IN
  [consecutive |-> Capped(g.consecutive + 1),
   path |-> IF path = NoPath THEN g.path ELSE path,
   repeated |-> IF path = NoPath THEN g.repeated
                ELSE IF path = g.path THEN Capped(g.repeated + 1) ELSE 1,
   old |-> FALSE]

\* shouldEscalateMutatingFailures
Escalates(f) == f.consecutive >= Threshold \/ f.repeated >= Threshold

\* The result of a failed edit: enough of them and the step needs attention.
ToolFails(s) ==
  /\ Heard(s) /\ pending[s].mutates
  /\ pending' = [pending EXCEPT ![s] = NoTool]
  /\ failures' = [failures EXCEPT ![s] = Recorded(@, pending[s].path)]
  /\ UNCHANGED due
  /\ IF Escalates(failures'[s]) /\ activity[s] # "needs_attention"
     THEN AfterEvent(s, "needs_attention", "needs_attention", {<<s, "tool_failures">>})
     ELSE AfterEvent(s, activity[s], runActivity, {})

\* The result of a successful edit, or of a tool that edits nothing.
ToolSucceeds(s) ==
  /\ Heard(s) /\ s \in Editing
  /\ failures' = [failures EXCEPT ![s] = IF pending[s].mutates THEN NoFailures ELSE @]
  /\ pending' = [pending EXCEPT ![s] = NoTool]
  /\ UNCHANGED due
  /\ AfterEvent(s, activity[s], runActivity, {})

-----------------------------------------------------------------------------
(* The activity timer: updateRunnerActivityState. *)

RunOf(act) ==
  IF \E s \in Step : act[s] = "needs_attention" THEN "needs_attention"
  ELSE IF \E s \in Step : act[s] = "active_long_running" THEN "active_long_running"
  ELSE None

Idle == {s \in Step : Running(s) /\ silent[s]}
NewlyIdle == {s \in Idle : activity[s] # "needs_attention"}
Long == {s \in Step \ Idle : BecomesLong(s, activity[s])}

\* The run's activity before the timer compares it: maybeEmitActiveLongRunning
\* sets it, unless the run already needs attention.
RunBefore == IF Long # {} /\ runActivity # "needs_attention" THEN "active_long_running"
             ELSE runActivity

\* Every running step in turn, then the run, whose activity is replaced only
\* if it differs from what the timer last gave it.  Activity stays with a step
\* that has ended, and counts for the run.  The payload is written on a change.
Tick ==
  /\ runState = "running"
  /\ UNCHANGED <<stepVars, silent, due, pending, failures>>
  /\ activity' = [s \in Step |-> IF s \in Idle THEN "needs_attention"
                                 ELSE IF s \in Long THEN "active_long_running" ELSE activity[s]]
  /\ noticed' = noticed \cup Long
  /\ AppendControlEvents({<<s, "idle">> : s \in NewlyIdle} \cup LongEvents(Long))
  /\ current' = RunOf(activity')
  /\ runActivity' = IF RunOf(activity') # current THEN RunOf(activity') ELSE RunBefore
  /\ IF NewlyIdle # {} \/ Long # {} \/ current' # current THEN WriteStatus ELSE UNCHANGED file

-----------------------------------------------------------------------------
ChildEvent == \E s \in Step : ToolStarts(s) \/ ToolFails(s) \/ ToolSucceeds(s) \/ TurnEnds(s)
Passing == \E s \in Step : FallSilent(s) \/ OutputGrows(s) \/ TimeIsUp(s) \/ WindowPasses(s)

Next ==
  \/ StartGroup \/ NextGroup \/ Interrupt \/ EndRun \/ Tick
  \/ \E s \in Step : StepEnds(s)
  \/ ChildEvent \/ Passing

Spec == Init /\ [][Next]_vars

\* The interval timer keeps ticking while the runner's event loop runs.
FairSpec == Spec /\ WF_vars(Tick)
-----------------------------------------------------------------------------
Activity == {None, "active_long_running", "needs_attention"}

\* Every variable of the control layer ranges over the values the code gives it.
TypeOK ==
  /\ group \in 1..Groups + 1
  /\ status \in [Step -> {"pending", "running", "paused", "ended"}]
  /\ runState \in {"running", "paused", "ended"}
  /\ activity \in [Step -> Activity]
  /\ runActivity \in Activity /\ current \in Activity
  /\ noticed \subseteq Step
  /\ claimed \subseteq Step \X Reason
  /\ log \in [Step \X Reason -> 0..MaxRetell]
  /\ silent \in [Step -> BOOLEAN]
  /\ due \in [Step -> LongRunning \cup {None}]
  /\ pending \in [Step -> [mutates: BOOLEAN, path: Paths \cup {NoPath}]]
  /\ failures \in [Step -> [consecutive: 0..MaxRetell, path: Paths \cup {NoPath},
                             repeated: 0..MaxRetell, old: BOOLEAN]]
  /\ file \in [run: Activity, steps: [Step -> Activity]]

\* A step is reported once for each reason it needs attention and once, for
\* whichever threshold, as long-running: the timer, the child's events, its
\* restarts and its late events after an interrupt share one memory.
ReportedOnce ==
  \A s \in Step :
    /\ \A r \in Attention : log[<<s, r>>] <= 1
    /\ \A q, r \in LongRunning : q # r => log[<<s, q>>] + log[<<s, r>>] <= 1

\* No step needs attention silently: whichever way it got there, the event that
\* tells the parent is in events.jsonl.
AttentionIsReported ==
  "needs_attention" \in NotifyOn =>
    \A s \in Step : activity[s] = "needs_attention" =>
      log[<<s, "idle">>] + log[<<s, "tool_failures">>] > 0

\* status.json shows what the runner holds after every event and every tick,
\* although a tick only writes when it noticed a change.
FileIsCurrent == file = [run |-> runActivity, steps |-> activity]

\* The run only needs attention while one of its steps does, however start,
\* interrupt, timer and events overwrite the run's own copy.
RunAttentionHasAStep ==
  runActivity = "needs_attention" => \E s \in Step : activity[s] = "needs_attention"

\* The window, path and success resets of the two counters cannot make the
\* count for one path overtake the count for all.
RepeatsWithinFailures ==
  \A s \in Step : failures[s].repeated <= failures[s].consecutive

\* A step that needs attention is not passed off as merely long-running: it
\* only stops needing attention by being interrupted.
AttentionNotDowngraded ==
  [][\A s \in Step :
       activity[s] = "needs_attention" /\ activity'[s] # "needs_attention"
         => activity'[s] = None /\ status'[s] = "paused"]_vars

\* A child that falls silent for good is not overlooked: its step is marked
\* unless output, the end of the step or an interrupt comes first.
SilenceIsNoticed ==
  \A s \in Step :
    (Running(s) /\ silent[s] /\ runState = "running")
      ~> (activity[s] = "needs_attention" \/ ~silent[s] \/ ~Running(s) \/ runState # "running")

\* The remarks about a step are made once each, none is withheld, and status.json and the
\* run's own activity follow the steps.
RemarksHold ==
  TypeOK /\ ReportedOnce /\ AttentionIsReported /\ FileIsCurrent
    /\ RunAttentionHasAStep /\ RepeatsWithinFailures

\* A step that falls silent comes to need attention, and keeps needing it.
AttentionRises == AttentionNotDowngraded /\ SilenceIsNoticed
=============================================================================
