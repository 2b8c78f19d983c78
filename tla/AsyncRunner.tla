----------------------------- MODULE AsyncRunner -----------------------------
(***************************************************************************)
(* The detached background runner (runs/background/subagent-runner.ts):    *)
(* one process that executes the plan of one async run.  A plan is a       *)
(* sequence of groups of tasks.  A sequential step is a group of width 1;  *)
(* a parallel group runs at most `limit` tasks at a time; the width of a   *)
(* dynamic group is only known when it is reached, and may be 0.           *)
(*                                                                         *)
(* Each task runs a child process, retried on the next candidate model     *)
(* after a retryable failure.  The run's lifecycle is what status.json and *)
(* the result file say of it, so both files are state here.  A step of the *)
(* model is one turn of the event loop, except that the three writes of    *)
(* the end of a run are separate steps: the process can die between them.  *)
(***************************************************************************)
EXTENDS Naturals, Sequences, FiniteSets

CONSTANTS
  Plan,          \* the run's groups: [kind, width, limit, failFast, worktree]
  MaxWidth,      \* bound: the most tasks a group can have
  MaxAttempts    \* candidate models per task

GroupKind == {"step", "parallel", "dynamic"}

ASSUME PlanAssumption ==
  /\ MaxWidth \in Nat \ {0}
  /\ MaxAttempts \in Nat \ {0}
  /\ Plan \in Seq([kind: GroupKind, width: 1..MaxWidth, limit: 1..MaxWidth,
                   failFast: BOOLEAN, worktree: BOOLEAN])

VARIABLES
  pc,           \* where runSubagent is
  k,            \* the group it is executing
  status,       \* statusPayload.steps, group by group
  runState,     \* statusPayload.state
  child,        \* the child process of each task of group k
  exit,         \* how that child's last attempt ended
  attempts,     \* attempts each task of group k has started
  next,         \* mapConcurrent's next unclaimed task
  aborted,      \* fail-fast flag of group k
  slot,         \* activeChildInterrupt: the task it would signal, 0 if unset
  interrupted,  \* the run has handled an interrupt signal
  results,      \* outcome of every task pushed to `results`
  statusFile,   \* status.json
  resultFile    \* the result file the session waits for

groupVars == <<child, exit, attempts, next, aborted, slot>>
vars == <<pc, k, status, runState, child, exit, attempts, next, aborted, slot,
          interrupted, results, statusFile, resultFile>>

Group == 1..Len(Plan)
Task == 1..MaxWidth
StepStatus == {"pending", "running", "complete", "failed", "paused"}
Outcome == {"ok", "fail", "skip"}
Absent == [state |-> "absent", steps |-> <<>>]
NoResult == [state |-> "absent", success |-> FALSE]

Smaller(a, b) == IF a < b THEN a ELSE b
Constantly(v, n) == [i \in 1..n |-> v]

\* The process still runs JavaScript.
Alive == pc \notin {"exited", "crashed"}
\* Tasks whose child process exists.
Live == {t \in Task : child[t] \in {"live", "signalled"}}
\* Tasks claimed by a worker of mapConcurrent and not yet settled.
InFlight == {t \in Task : child[t] # "idle"}
Width == Len(status[k])

Init ==
  /\ pc = "boot" /\ k = 1
  /\ status = [g \in Group |->
       Constantly("pending", IF Plan[g].kind = "dynamic" THEN 1 ELSE Plan[g].width)]
  /\ runState = "running"
  /\ child = [t \in Task |-> "idle"]
  /\ exit = [t \in Task |-> "none"]
  /\ attempts = [t \in Task |-> 0]
  /\ next = 1 /\ aborted = FALSE /\ slot = 0
  /\ interrupted = FALSE
  /\ results = <<>>
  /\ statusFile = Absent /\ resultFile = NoResult

\* writeStatusPayload: the file is replaced by the whole payload.
WriteStatus == statusFile' = [state |-> runState', steps |-> status']

\* The first write of status.json; from here on the interrupt handler is set.
Boot ==
  /\ pc = "boot"
  /\ pc' = "loop"
  /\ UNCHANGED <<k, status, runState, groupVars, interrupted, results, resultFile>>
  /\ WriteStatus

\* mapConcurrent starts min(limit, width) workers in one turn; every one of
\* them spawns its child, and each spawn overwrites the interrupt slot.
Launch(width) ==
  LET n == Smaller(Plan[k].limit, width) IN
  /\ status' = [status EXCEPT ![k] =
       [t \in 1..width |-> IF t <= n THEN "running" ELSE "pending"]]
  /\ child' = [t \in Task |-> IF t <= n THEN "live" ELSE "idle"]
  /\ exit' = [t \in Task |-> "none"]
  /\ attempts' = [t \in Task |-> IF t <= n THEN 1 ELSE 0]
  /\ next' = n + 1
  /\ aborted' = FALSE
  /\ slot' = n

AtGroup == pc = "loop" /\ k \in Group /\ ~interrupted

StartGroup ==
  /\ AtGroup
  /\ \/ Plan[k].kind # "dynamic" /\ Launch(Plan[k].width)
     \/ Plan[k].kind = "dynamic" /\ \E w \in 1..MaxWidth : Launch(w)
  /\ pc' = "group"
  /\ UNCHANGED <<k, runState, interrupted, results, resultFile>>
  /\ WriteStatus

\* Creating the worktrees failed, or their cwd conflicts: every task fails.
WorktreeSetupFails ==
  /\ AtGroup /\ Plan[k].kind = "parallel" /\ Plan[k].worktree
  /\ status' = [status EXCEPT ![k] = Constantly("failed", Plan[k].width)]
  /\ results' = results \o Constantly("fail", Plan[k].width)
  /\ pc' = "final"
  /\ UNCHANGED <<k, runState, groupVars, interrupted, resultFile>>
  /\ WriteStatus

\* The output a dynamic group expands cannot be materialized.
MaterializeFails ==
  /\ AtGroup /\ Plan[k].kind = "dynamic"
  /\ status' = [status EXCEPT ![k] = <<"failed">>]
  /\ runState' = "failed"
  /\ results' = Append(results, "fail")
  /\ pc' = "final"
  /\ UNCHANGED <<k, groupVars, interrupted, resultFile>>
  /\ WriteStatus

\* A dynamic group over an empty collection: the placeholder completes without
\* a child and without a result; its acceptance is evaluated asynchronously.
EmptyFanout ==
  /\ AtGroup /\ Plan[k].kind = "dynamic"
  /\ status' = [status EXCEPT ![k] = <<"complete">>]
  /\ pc' = "empty"
  /\ UNCHANGED <<k, runState, groupVars, interrupted, results, statusFile, resultFile>>

EmptyFanoutAccepted ==
  /\ pc = "empty"
  /\ pc' = "loop" /\ k' = k + 1
  /\ UNCHANGED <<status, runState, groupVars, interrupted, results, resultFile>>
  /\ WriteStatus

\* The rejection overwrites whatever state the run was in.
EmptyFanoutRejected ==
  /\ pc = "empty"
  /\ status' = [status EXCEPT ![k] = <<"failed">>]
  /\ runState' = "failed"
  /\ results' = Append(results, "fail")
  /\ pc' = "final"
  /\ UNCHANGED <<k, groupVars, interrupted, resultFile>>
  /\ WriteStatus

\* The child's `close` event: the slot is cleared, whoever it belonged to.  A
\* child that was signalled exits 0 unless its output hides an error or the
\* completion guard finds no edit in it.
ChildCloses(t) ==
  /\ Alive /\ t \in Live
  /\ \E e \in IF child[t] = "signalled" THEN {"paused", "fail"} ELSE {"ok", "fail"} :
       exit' = [exit EXCEPT ![t] = e]
  /\ child' = [child EXCEPT ![t] = "closed"]
  /\ slot' = 0
  /\ UNCHANGED <<pc, k, status, runState, attempts, next, aborted, interrupted,
                 results, statusFile, resultFile>>

\* A retryable model failure with a candidate left: the next attempt starts,
\* whether or not the run has been interrupted in the meantime.
Retry(t) ==
  /\ pc = "group" /\ child[t] = "closed"
  /\ exit[t] = "fail" /\ attempts[t] < MaxAttempts
  /\ attempts' = [attempts EXCEPT ![t] = @ + 1]
  /\ child' = [child EXCEPT ![t] = "live"]
  /\ exit' = [exit EXCEPT ![t] = "none"]
  /\ slot' = t
  /\ UNCHANGED <<pc, k, status, runState, next, aborted, interrupted, results,
                 resultFile>>
  /\ WriteStatus

\* How a closed attempt ends its task: acceptance can fail a clean exit, but
\* not the exit of an interrupted child.
Verdicts(t) ==
  CASE exit[t] = "ok"     -> {"complete", "failed"}
    [] exit[t] = "paused" -> {"complete"}
    [] OTHER              -> {"failed"}

Aborts(verdict) == aborted \/ (verdict = "failed" /\ Plan[k].failFast)

\* The task settles and its worker claims the next one; once the group has
\* aborted, the workers settle every task left without running it.
Settle(t) ==
  /\ pc = "group" /\ child[t] = "closed"
  /\ \E v \in Verdicts(t) :
       /\ aborted' = Aborts(v)
       /\ IF aborted'
          THEN /\ status' = [status EXCEPT ![k] = [i \in 1..Width |->
                    IF i = t THEN v ELSE IF i >= next THEN "failed" ELSE status[k][i]]]
               /\ child' = [child EXCEPT ![t] = "idle"]
               /\ exit' = [i \in Task |-> IF i = t
                            THEN IF v = "complete" THEN "done" ELSE "bad"
                            ELSE IF i \in next..Width THEN "skip" ELSE exit[i]]
               /\ next' = Width + 1
               /\ UNCHANGED <<attempts, slot>>
          ELSE /\ status' = [status EXCEPT ![k] = [i \in 1..Width |->
                    IF i = t THEN v ELSE IF i = next THEN "running" ELSE status[k][i]]]
               /\ exit' = [exit EXCEPT ![t] = IF v = "complete" THEN "done" ELSE "bad"]
               /\ child' = [i \in Task |-> IF i = t THEN "idle"
                             ELSE IF i = next /\ next <= Width THEN "live" ELSE child[i]]
               /\ IF next <= Width
                  THEN /\ attempts' = [attempts EXCEPT ![next] = 1]
                       /\ slot' = next
                       /\ next' = next + 1
                  ELSE UNCHANGED <<attempts, slot, next>>
  /\ UNCHANGED <<pc, k, runState, interrupted, results, resultFile>>
  /\ WriteStatus

OutcomeOf(t) == CASE exit[t] = "done" -> "ok" [] exit[t] = "skip" -> "skip" [] OTHER -> "fail"
GroupOutcomes == [t \in 1..Width |-> OutcomeOf(t)]
\* Mutant: only the last task's failure ends the plan.
GroupFailedLast == OutcomeOf(Width) = "fail"
GroupFailed == \E t \in 1..Width : OutcomeOf(t) = "fail"
GroupSettled == InFlight = {} /\ next > Width

\* All workers returned.  A failed task ends the plan.
EndGroup ==
  /\ pc = "group" /\ GroupSettled
  /\ results' = results \o GroupOutcomes
  /\ IF GroupFailed THEN pc' = "final" /\ UNCHANGED k ELSE pc' = "loop" /\ k' = k + 1
  /\ UNCHANGED <<status, runState, groupVars, interrupted, resultFile>>
  /\ WriteStatus

\* The collection of a dynamic group whose items all succeeded is rejected by
\* its schema or by the group's acceptance: a result with no step of its own.
RejectCollection ==
  /\ pc = "group" /\ GroupSettled /\ ~GroupFailed
  /\ Plan[k].kind = "dynamic"
  /\ results' = results \o Append(GroupOutcomes, "fail")
  /\ pc' = "final"
  /\ UNCHANGED <<k, status, runState, groupVars, interrupted, resultFile>>
  /\ WriteStatus

\* Mutant: the interrupt is taken whatever the state of the run.
InterruptAnytime ==
  /\ Alive /\ pc # "boot" /\ ~interrupted
  /\ interrupted' = TRUE
  /\ runState' = "paused"
  /\ UNCHANGED <<pc, k, status, groupVars, results, resultFile>>
  /\ WriteStatus

\* The interrupt signal: the run is reported paused at once, and the one child
\* the slot points to is signalled.
Interrupt ==
  /\ Alive /\ pc # "boot" /\ ~interrupted /\ runState = "running"
  /\ interrupted' = TRUE
  /\ runState' = "paused"
  /\ status' = [g \in Group |-> [t \in 1..Len(status[g]) |->
       IF status[g][t] = "running" THEN "paused" ELSE status[g][t]]]
  /\ child' = [t \in Task |->
       IF t = slot /\ child[t] = "live" THEN "signalled" ELSE child[t]]
  /\ UNCHANGED <<pc, k, exit, attempts, next, aborted, slot, results, resultFile>>
  /\ WriteStatus

\* Mutant: an interrupted run waits at the top of the loop.
LeaveLoopAtEnd ==
  /\ pc = "loop" /\ k \notin Group
  /\ pc' = "final"
  /\ UNCHANGED <<k, status, runState, groupVars, interrupted, results, statusFile, resultFile>>

\* The loop is left at the end of the plan or, between groups, on interrupt.
LeaveLoop ==
  /\ pc = "loop" /\ (k \notin Group \/ interrupted)
  /\ pc' = "final"
  /\ UNCHANGED <<k, status, runState, groupVars, interrupted, results, statusFile, resultFile>>

AllSucceeded == \A i \in 1..Len(results) : results[i] = "ok"

\* Mutant: an interrupt is not reflected in the final state.
FinalStateIgnoringInterrupt == IF AllSucceeded THEN "complete" ELSE "failed"
FinalState ==
  CASE interrupted -> "paused" [] AllSucceeded /\ ~interrupted -> "complete" [] OTHER -> "failed"

Finalize ==
  /\ pc = "final"
  /\ runState' = FinalState
  /\ pc' = "result"
  /\ UNCHANGED <<k, status, groupVars, interrupted, results, resultFile>>
  /\ WriteStatus

\* Writing the result is the last thing the runner does; an error is logged.
WriteResult ==
  /\ pc = "result"
  /\ resultFile' = [state |-> FinalState, success |-> ~interrupted /\ AllSucceeded]
  /\ pc' = "exited"
  /\ UNCHANGED <<k, status, runState, groupVars, interrupted, results, statusFile>>

ResultWriteFails ==
  /\ pc = "result"
  /\ pc' = "exited"
  /\ UNCHANGED <<k, status, runState, groupVars, interrupted, results, statusFile, resultFile>>

\* The process is killed, or an exception leaves runSubagent (exit code 1).
Crash ==
  /\ Alive
  /\ pc' = "crashed"
  /\ UNCHANGED <<k, status, runState, groupVars, interrupted, results, statusFile, resultFile>>

RunnerStep ==
  \/ Boot \/ StartGroup \/ WorktreeSetupFails \/ MaterializeFails
  \/ EmptyFanout \/ EmptyFanoutAccepted \/ EmptyFanoutRejected
  \/ \E t \in Task : Retry(t)
  \/ \E t \in Task : Settle(t)
  \/ EndGroup \/ RejectCollection \/ LeaveLoop
  \/ Finalize \/ WriteResult \/ ResultWriteFails

Next ==
  \/ RunnerStep
  \/ \E t \in Task : ChildCloses(t)
  \/ Interrupt
  \/ Crash

Spec == Init /\ [][Next]_vars

\* The event loop runs, and every child the runner started exits in the end
\* (the runner sets no time limit on a child: that is its environment's duty).
FairSpec ==
  /\ Spec
  /\ WF_vars(RunnerStep)
  /\ \A t \in Task : WF_vars(ChildCloses(t))
-----------------------------------------------------------------------------
RunStates == {"running", "complete", "failed", "paused"}

\* Every variable of the runner ranges over the values the code gives it.
TypeOK ==
  /\ pc \in {"boot", "loop", "group", "empty", "final", "result", "exited", "crashed"}
  /\ k \in 1..Len(Plan) + 1
  /\ status \in [Group -> Seq(StepStatus)]
  /\ runState \in RunStates
  /\ child \in [Task -> {"idle", "live", "signalled", "closed"}]
  /\ exit \in [Task -> {"none", "ok", "paused", "fail", "done", "bad", "skip"}]
  /\ attempts \in [Task -> 0..MaxAttempts]
  /\ next \in 1..MaxWidth + 1
  /\ aborted \in BOOLEAN
  /\ slot \in 0..MaxWidth
  /\ interrupted \in BOOLEAN
  /\ results \in Seq(Outcome)
  /\ statusFile = Absent \/ statusFile \in [state: RunStates, steps: [Group -> Seq(StepStatus)]]
  /\ resultFile \in [state: RunStates \cup {"absent"}, success: BOOLEAN]

\* A step that has not started or has ended in status.json has no child process
\* left: what status.json calls finished is not still writing to the workspace.
NoChildBehindAnEndedStep ==
  Alive => \A t \in Live : k \in Group /\ t <= Width /\ status[k][t] \in {"running", "paused"}

\* mapConcurrent never has more children in flight than the group's limit,
\* through retries, fail-fast and interrupts alike.
ConcurrencyBound == pc = "group" => Cardinality(InFlight) <= Plan[k].limit

\* The plan is sequential: a group whose tasks have left `pending` is preceded
\* only by groups all of whose tasks completed.
GroupsInOrder ==
  \A g, h \in Group :
    (g < h /\ \E t \in 1..Len(status[h]) : status[h][t] # "pending")
      => \A t \in 1..Len(status[g]) : status[g][t] = "complete"

\* The run is only finalized once all its children are gone: the result file
\* is never published under a child that still works.
ChildrenGoneAtEnd == pc \in {"final", "result", "exited"} => InFlight = {}

\* `complete` in status.json means every step of every group completed, the
\* items of dynamic groups included.
CompleteMeansAllStepsComplete ==
  statusFile.state = "complete" =>
    \A g \in Group : \A t \in 1..Len(status[g]) : status[g][t] = "complete"

\* The two files agree: whoever reads the result learns what a reader of
\* status.json learns, and `success` is the state `complete`.
ResultAgreesWithStatus ==
  resultFile.state # "absent" =>
    /\ resultFile.state = statusFile.state
    /\ resultFile.success = (statusFile.state = "complete")

\* An interrupt that was handled is what the run ends with, whatever its
\* children and its acceptance checks did after it.
InterruptedRunEndsPaused ==
  (interrupted /\ pc \in {"result", "exited"}) =>
    statusFile.state = "paused" /\ resultFile.state \in {"absent", "paused"}

\* What every plan keeps, whatever its children do: types, the limit of a group, no child
\* behind the final files, and two files that agree and say paused after an interrupt.
RunnerHolds ==
  TypeOK /\ ConcurrencyBound /\ ChildrenGoneAtEnd /\ ResultAgreesWithStatus /\ InterruptedRunEndsPaused

\* The plan is carried out in order: no child behind a step that ended, no group begun
\* before those in front of it completed, and `complete` only when all did.
StepsInOrder ==
  NoChildBehindAnEndedStep /\ GroupsInOrder /\ CompleteMeansAllStepsComplete

\* Given a fair event loop and children that exit, the runner ends: no
\* interrupt, failure or retry leaves it waiting in its loop.
RunEnds == <>~Alive

\* The same run as RunLifecycle describes it.
Phase ==
  CASE pc = "boot" -> "starting"
    [] pc \in {"exited", "crashed"} -> "gone"
    [] pc = "result" -> "ended"
    [] OTHER -> IF interrupted THEN "interrupted" ELSE "running"

Lifecycle == INSTANCE RunLifecycle
  WITH phase <- Phase, state <- runState,
       statusState <- statusFile.state, resultState <- resultFile.state

\* Groups, workers, retries and fail-fast included, the runner is the runner
\* that the readers of its files are composed with in AsyncRun.
ImplementsLifecycle == Lifecycle!LifecycleSpec
=============================================================================
