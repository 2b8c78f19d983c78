-------------------------- MODULE AsyncRunnerProofs --------------------------
(***************************************************************************)
(* Theorems about AsyncRunner, for every plan, width and number of models. *)
(*                                                                         *)
(* The inductive invariant Inv adds to TypeOK what the steps of a group    *)
(* rely on: a group is never wider than MaxWidth, and while one is being   *)
(* executed k is its index. The order of the steps rests on three more:    *)
(* Front is about the groups before and behind k, Workers about the tasks  *)
(* of k, Left about a plan that was left.                                  *)
(***************************************************************************)
EXTENDS AsyncRunner, SequenceTheorems, FiniteSetTheorems, TLAPS

\* Every group has between one and MaxWidth steps, whatever it expanded to.
Shape ==
  /\ \A g \in Group : Len(status[g]) \in 1..MaxWidth
  /\ pc \in {"group", "empty"} => k \in Group

Inv == TypeOK /\ Shape

\* A function on 1..n is a sequence of length n: what the code's arrays are.
LEMMA FunctionIsSeq ==
  ASSUME NEW S, NEW n \in Nat, NEW f \in [1..n -> S]
  PROVE  f \in Seq(S) /\ Len(f) = n
<1>1. f \in Seq(S)
  BY SeqDef
<1>2. DOMAIN f = 1..Len(f) /\ Len(f) \in Nat
  BY <1>1, LenProperties
<1>3. 1..Len(f) = 1..n
  BY <1>2
<1> QED
  BY <1>1, <1>2, <1>3

\* Rewriting the steps of one group keeps the shape of the whole status.
LEMMA RewriteGroup ==
  ASSUME TypeOK, Shape, k \in Group,
         NEW n \in 1..MaxWidth, NEW f \in [1..n -> StepStatus],
         status' = [status EXCEPT ![k] = f]
  PROVE  /\ status' \in [Group -> Seq(StepStatus)]
         /\ \A g \in Group : Len(status'[g]) \in 1..MaxWidth
<1>1. f \in Seq(StepStatus) /\ Len(f) = n
  BY FunctionIsSeq, PlanAssumption
<1> QED
  BY <1>1 DEF TypeOK, Shape

\* What writeStatusPayload leaves in status.json has the type of the status.
LEMMA WriteStatusType ==
  ASSUME WriteStatus, runState' \in RunStates,
         status' \in [Group -> Seq(StepStatus)]
  PROVE  statusFile' \in [state: RunStates, steps: [Group -> Seq(StepStatus)]]
BY DEF WriteStatus

\* A group's outcomes, one per step, can be pushed to `results`.
LEMMA GroupOutcomesType ==
  ASSUME TypeOK, Shape, k \in Group
  PROVE  GroupOutcomes \in Seq(Outcome)
<1>1. Width \in Nat
  BY DEF Shape, Width
<1>2. GroupOutcomes \in [1..Width -> Outcome]
  BY DEF GroupOutcomes, OutcomeOf, Outcome
<1> QED
  BY <1>1, <1>2, FunctionIsSeq

\* What the assumption on Plan says of one group.
LEMMA PlanType ==
  /\ Len(Plan) \in Nat
  /\ \A g \in Group : Plan[g].width \in 1..MaxWidth /\ Plan[g].limit \in 1..MaxWidth
<1> DEFINE G == [kind: GroupKind, width: 1..MaxWidth, limit: 1..MaxWidth,
                 failFast: BOOLEAN, worktree: BOOLEAN]
<1>1. Plan \in Seq(G)
  BY PlanAssumption
<1> HIDE DEF G
<1>2. Len(Plan) \in Nat /\ \A g \in 1..Len(Plan) : Plan[g] \in G
  BY <1>1, LenProperties, ElementOfSeq
<1> QED
  BY <1>2 DEF G, Group

LEMMA InitInv == Init => Inv
<1> SUFFICES ASSUME Init PROVE Inv
  OBVIOUS
<1>1. \A g \in Group : status[g] \in Seq(StepStatus) /\ Len(status[g]) \in 1..MaxWidth
  <2> TAKE g \in Group
  <2> DEFINE n == IF Plan[g].kind = "dynamic" THEN 1 ELSE Plan[g].width
  <2>1. n \in 1..MaxWidth /\ n \in Nat
    BY PlanType, PlanAssumption
  <2>2. status[g] = [i \in 1..n |-> "pending"]
    BY DEF Init, Constantly
  <2> HIDE DEF n
  <2>3. status[g] \in [1..n -> StepStatus]
    BY <2>2 DEF StepStatus
  <2> QED
    BY <2>1, <2>3, FunctionIsSeq
<1>2. status = [g \in Group |-> status[g]]
  BY DEF Init
<1>3. status \in [Group -> Seq(StepStatus)]
  BY <1>1, <1>2
<1>4. /\ pc \in {"boot", "loop", "group", "empty", "final", "result", "exited", "crashed"}
      /\ k \in 1..Len(Plan) + 1
      /\ next \in 1..MaxWidth + 1 /\ slot \in 0..MaxWidth
      /\ attempts \in [Task -> 0..MaxAttempts]
  BY PlanType, PlanAssumption DEF Init
<1>5. /\ child \in [Task -> {"idle", "live", "signalled", "closed"}]
      /\ exit \in [Task -> {"none", "ok", "paused", "fail", "done", "bad", "skip"}]
  BY DEF Init
<1>6. runState \in RunStates /\ aborted \in BOOLEAN /\ interrupted \in BOOLEAN
  BY DEF Init, RunStates
<1>7. results \in Seq(Outcome)
  BY EmptySeq DEF Init
<1>8. statusFile = Absent /\ resultFile \in [state: RunStates \cup {"absent"}, success: BOOLEAN]
  BY DEF Init, NoResult
<1>9. TypeOK
  BY <1>3, <1>4, <1>5, <1>6, <1>7, <1>8 DEF TypeOK
<1>10. Shape
  BY <1>1 DEF Init, Shape
<1> QED
  BY <1>9, <1>10 DEF Inv

\* Starting the workers of a group of any width up to MaxWidth.
LEMMA LaunchShape ==
  ASSUME TypeOK, Shape, k \in Group, NEW width \in 1..MaxWidth, Launch(width)
  PROVE  /\ status' \in [Group -> Seq(StepStatus)]
         /\ \A g \in Group : Len(status'[g]) \in 1..MaxWidth
         /\ child' \in [Task -> {"idle", "live", "signalled", "closed"}]
         /\ exit' \in [Task -> {"none", "ok", "paused", "fail", "done", "bad", "skip"}]
         /\ attempts' \in [Task -> 0..MaxAttempts]
         /\ next' \in 1..MaxWidth + 1
         /\ aborted' \in BOOLEAN
         /\ slot' \in 0..MaxWidth
<1> USE PlanAssumption
<1> DEFINE n == Smaller(Plan[k].limit, width)
<1>1. Plan[k].limit \in 1..MaxWidth
  BY PlanType
<1>2. n \in 1..MaxWidth
  BY <1>1 DEF Smaller
<1>3. status' = [status EXCEPT ![k] =
        [t \in 1..width |-> IF t <= n THEN "running" ELSE "pending"]]
  BY DEF Launch
<1> HIDE DEF n
<1>4. [t \in 1..width |-> IF t <= n THEN "running" ELSE "pending"] \in [1..width -> StepStatus]
  BY DEF StepStatus
<1>5. /\ status' \in [Group -> Seq(StepStatus)]
      /\ \A g \in Group : Len(status'[g]) \in 1..MaxWidth
  BY <1>3, <1>4, RewriteGroup
<1>6. /\ child' \in [Task -> {"idle", "live", "signalled", "closed"}]
      /\ exit' \in [Task -> {"none", "ok", "paused", "fail", "done", "bad", "skip"}]
      /\ attempts' \in [Task -> 0..MaxAttempts]
  BY DEF Launch, Task
<1>7. next' = n + 1 /\ slot' = n
  BY DEF Launch, n
<1>8. next' \in 1..MaxWidth + 1 /\ slot' \in 0..MaxWidth
  BY <1>2, <1>7
<1>9. aborted' \in BOOLEAN
  BY DEF Launch
<1> QED
  BY <1>5, <1>6, <1>8, <1>9

LEMMA BootInv == Inv /\ Boot => Inv'
BY WriteStatusType DEF Inv, TypeOK, Shape, Boot, groupVars, Group, Task

LEMMA StartGroupInv == Inv /\ StartGroup => Inv'
<1> SUFFICES ASSUME Inv, StartGroup PROVE Inv'
  OBVIOUS
<1>1. k \in Group /\ TypeOK /\ Shape
  BY DEF Inv, StartGroup, AtGroup
<1>2. \E w \in 1..MaxWidth : Launch(w)
  BY <1>1, PlanType DEF StartGroup
<1>3. PICK w \in 1..MaxWidth : Launch(w)
  BY <1>2
<1>4. /\ status' \in [Group -> Seq(StepStatus)]
      /\ \A g \in Group : Len(status'[g]) \in 1..MaxWidth
      /\ child' \in [Task -> {"idle", "live", "signalled", "closed"}]
      /\ exit' \in [Task -> {"none", "ok", "paused", "fail", "done", "bad", "skip"}]
      /\ attempts' \in [Task -> 0..MaxAttempts]
      /\ next' \in 1..MaxWidth + 1
      /\ aborted' \in BOOLEAN
      /\ slot' \in 0..MaxWidth
  BY <1>1, <1>3, LaunchShape
<1>5. runState' \in RunStates
  BY <1>1 DEF StartGroup, TypeOK
<1>6. statusFile' \in [state: RunStates, steps: [Group -> Seq(StepStatus)]]
  BY <1>4, <1>5, WriteStatusType DEF StartGroup
<1> QED
  BY <1>1, <1>4, <1>5, <1>6 DEF StartGroup, Inv, TypeOK, Shape, Group, Task

\* The steps that give every step of group k the same status and push failures.
LEMMA WorktreeSetupFailsInv == Inv /\ WorktreeSetupFails => Inv'
<1> SUFFICES ASSUME Inv, WorktreeSetupFails PROVE Inv'
  OBVIOUS
<1> DEFINE n == Plan[k].width
<1>1. k \in Group /\ TypeOK /\ Shape /\ n \in 1..MaxWidth /\ n \in Nat
  BY PlanType, PlanAssumption DEF Inv, WorktreeSetupFails, AtGroup
<1>2. /\ status' = [status EXCEPT ![k] = [i \in 1..n |-> "failed"]]
      /\ results' = results \o [i \in 1..n |-> "fail"]
  BY DEF WorktreeSetupFails, Constantly
<1> HIDE DEF n
<1>3. [i \in 1..n |-> "failed"] \in [1..n -> StepStatus]
  BY DEF StepStatus
<1>4. /\ status' \in [Group -> Seq(StepStatus)]
      /\ \A g \in Group : Len(status'[g]) \in 1..MaxWidth
  BY <1>1, <1>2, <1>3, RewriteGroup
<1>5. [i \in 1..n |-> "fail"] \in [1..n -> Outcome]
  BY DEF Outcome
<1>6. results' \in Seq(Outcome)
  BY <1>1, <1>2, <1>5, FunctionIsSeq, ConcatProperties DEF TypeOK
<1>7. statusFile' \in [state: RunStates, steps: [Group -> Seq(StepStatus)]]
  BY <1>1, <1>4, WriteStatusType DEF WorktreeSetupFails, TypeOK
<1> QED
  BY <1>1, <1>4, <1>6, <1>7 DEF WorktreeSetupFails, Inv, TypeOK, Shape, groupVars, Group, Task

\* The placeholder of a dynamic group is the only step that is rewritten.
LEMMA Placeholder ==
  ASSUME TypeOK, Shape, k \in Group, NEW s \in StepStatus,
         status' = [status EXCEPT ![k] = <<s>>]
  PROVE  /\ status' \in [Group -> Seq(StepStatus)]
         /\ \A g \in Group : Len(status'[g]) \in 1..MaxWidth
<1>1. 1 \in 1..MaxWidth
  BY PlanAssumption
<1>2. <<s>> \in [1..1 -> StepStatus]
  OBVIOUS
<1> QED
  BY <1>1, <1>2, RewriteGroup

LEMMA MaterializeFailsInv == Inv /\ MaterializeFails => Inv'
<1> SUFFICES ASSUME Inv, MaterializeFails PROVE Inv'
  OBVIOUS
<1>1. k \in Group /\ TypeOK /\ Shape
  BY DEF Inv, MaterializeFails, AtGroup
<1>2. /\ status' \in [Group -> Seq(StepStatus)]
      /\ \A g \in Group : Len(status'[g]) \in 1..MaxWidth
  BY <1>1, Placeholder DEF MaterializeFails, StepStatus
<1>3. runState' \in RunStates
  BY DEF MaterializeFails, RunStates
<1>4. results' \in Seq(Outcome)
  BY <1>1 DEF MaterializeFails, TypeOK, Outcome
<1>5. statusFile' \in [state: RunStates, steps: [Group -> Seq(StepStatus)]]
  BY <1>2, <1>3, WriteStatusType DEF MaterializeFails
<1> QED
  BY <1>1, <1>2, <1>3, <1>4, <1>5
     DEF MaterializeFails, Inv, TypeOK, Shape, groupVars, Group, Task

LEMMA EmptyFanoutInv == Inv /\ EmptyFanout => Inv'
<1> SUFFICES ASSUME Inv, EmptyFanout PROVE Inv'
  OBVIOUS
<1>1. k \in Group /\ TypeOK /\ Shape
  BY DEF Inv, EmptyFanout, AtGroup
<1>2. /\ status' \in [Group -> Seq(StepStatus)]
      /\ \A g \in Group : Len(status'[g]) \in 1..MaxWidth
  BY <1>1, Placeholder DEF EmptyFanout, StepStatus
<1> QED
  BY <1>1, <1>2 DEF EmptyFanout, Inv, TypeOK, Shape, groupVars, Group, Task

LEMMA EmptyFanoutAcceptedInv == Inv /\ EmptyFanoutAccepted => Inv'
<1> SUFFICES ASSUME Inv, EmptyFanoutAccepted PROVE Inv'
  OBVIOUS
<1>1. k \in Group /\ TypeOK /\ Shape
  BY DEF Inv, EmptyFanoutAccepted, Shape
<1>2. k + 1 \in 1..Len(Plan) + 1
  BY <1>1, PlanType DEF Group
<1>3. statusFile' \in [state: RunStates, steps: [Group -> Seq(StepStatus)]]
  BY <1>1, WriteStatusType DEF EmptyFanoutAccepted, TypeOK
<1> QED
  BY <1>1, <1>2, <1>3 DEF EmptyFanoutAccepted, Inv, TypeOK, Shape, groupVars, Group, Task

LEMMA EmptyFanoutRejectedInv == Inv /\ EmptyFanoutRejected => Inv'
<1> SUFFICES ASSUME Inv, EmptyFanoutRejected PROVE Inv'
  OBVIOUS
<1>1. k \in Group /\ TypeOK /\ Shape
  BY DEF Inv, EmptyFanoutRejected, Shape
<1>2. /\ status' \in [Group -> Seq(StepStatus)]
      /\ \A g \in Group : Len(status'[g]) \in 1..MaxWidth
  BY <1>1, Placeholder DEF EmptyFanoutRejected, StepStatus
<1>3. runState' \in RunStates
  BY DEF EmptyFanoutRejected, RunStates
<1>4. results' \in Seq(Outcome)
  BY <1>1 DEF EmptyFanoutRejected, TypeOK, Outcome
<1>5. statusFile' \in [state: RunStates, steps: [Group -> Seq(StepStatus)]]
  BY <1>2, <1>3, WriteStatusType DEF EmptyFanoutRejected
<1> QED
  BY <1>1, <1>2, <1>3, <1>4, <1>5
     DEF EmptyFanoutRejected, Inv, TypeOK, Shape, groupVars, Group, Task

LEMMA ChildClosesInv == Inv /\ (\E t \in Task : ChildCloses(t)) => Inv'
<1> SUFFICES ASSUME Inv, NEW t \in Task, ChildCloses(t) PROVE Inv'
  OBVIOUS
<1>1. /\ exit' \in [Task -> {"none", "ok", "paused", "fail", "done", "bad", "skip"}]
      /\ child' \in [Task -> {"idle", "live", "signalled", "closed"}]
      /\ slot' \in 0..MaxWidth
  BY PlanAssumption DEF Inv, TypeOK, ChildCloses
<1> QED
  BY <1>1 DEF ChildCloses, Inv, TypeOK, Shape, Group, Task

LEMMA RetryInv == Inv /\ (\E t \in Task : Retry(t)) => Inv'
<1> SUFFICES ASSUME Inv, NEW t \in Task, Retry(t) PROVE Inv'
  OBVIOUS
<1>1. attempts[t] + 1 \in 0..MaxAttempts /\ slot' \in 0..MaxWidth
  BY PlanAssumption DEF Inv, TypeOK, Retry, Task
<1>2. /\ exit' \in [Task -> {"none", "ok", "paused", "fail", "done", "bad", "skip"}]
      /\ child' \in [Task -> {"idle", "live", "signalled", "closed"}]
      /\ attempts' \in [Task -> 0..MaxAttempts]
  BY <1>1 DEF Inv, TypeOK, Retry
<1>3. statusFile' \in [state: RunStates, steps: [Group -> Seq(StepStatus)]]
  BY WriteStatusType DEF Inv, TypeOK, Retry
<1> QED
  BY <1>1, <1>2, <1>3 DEF Retry, Inv, TypeOK, Shape, Group, Task

\* Settling rewrites the steps of the group, whether it aborts or goes on.
LEMMA SettleInv == Inv /\ (\E t \in Task : Settle(t)) => Inv'
<1> SUFFICES ASSUME Inv, NEW t \in Task, Settle(t) PROVE Inv'
  OBVIOUS
<1>1. k \in Group /\ TypeOK /\ Shape
  BY DEF Inv, Shape, Settle
<1>2. Width \in 1..MaxWidth /\ Width \in Nat /\ status[k] \in [1..Width -> StepStatus]
  BY <1>1, LenProperties, PlanAssumption DEF Shape, TypeOK, Width
<1>3. PICK v \in Verdicts(t) :
        /\ aborted' = Aborts(v)
        /\ IF aborted'
           THEN /\ status' = [status EXCEPT ![k] = [i \in 1..Width |->
                     IF i = t THEN v ELSE IF i >= next THEN "failed" ELSE status[k][i]]]
                /\ child' = [child EXCEPT ![t] = "idle"]
                /\ exit' = [i \in Task |-> IF i = t
                             THEN IF v = "complete" THEN "done" ELSE "bad"
                             ELSE IF i \in next..Width THEN "skip" ELSE exit[i]]
                /\ next' = Width + 1
                /\ UNCHANGED <<attempts, slot>>
           ELSE /\ status' = [status EXCEPT ![k] = [i \in 1..Width |->
                     IF i = t THEN v ELSE IF i = next THEN "running" ELSE status[k][i]]]
                /\ exit' = [exit EXCEPT ![t] = IF v = "complete" THEN "done" ELSE "bad"]
                /\ child' = [i \in Task |-> IF i = t THEN "idle"
                              ELSE IF i = next /\ next <= Width THEN "live" ELSE child[i]]
                /\ IF next <= Width
                   THEN /\ attempts' = [attempts EXCEPT ![next] = 1]
                        /\ slot' = next
                        /\ next' = next + 1
                   ELSE UNCHANGED <<attempts, slot, next>>
  BY DEF Settle
<1>4. v \in {"complete", "failed"} /\ v \in StepStatus
  BY <1>3 DEF Verdicts, StepStatus
<1>5. aborted' \in BOOLEAN
  BY <1>1, <1>3, Zenon DEF Aborts, TypeOK
<1>6. CASE aborted'
  <2>1. [i \in 1..Width |-> IF i = t THEN v ELSE IF i >= next THEN "failed" ELSE status[k][i]]
          \in [1..Width -> StepStatus]
    BY <1>2, <1>4 DEF StepStatus
  <2>2. /\ status' \in [Group -> Seq(StepStatus)]
        /\ \A g \in Group : Len(status'[g]) \in 1..MaxWidth
    BY <1>1, <1>2, <1>3, <1>6, <2>1, RewriteGroup
  <2>3. /\ child' \in [Task -> {"idle", "live", "signalled", "closed"}]
        /\ exit' \in [Task -> {"none", "ok", "paused", "fail", "done", "bad", "skip"}]
    BY <1>1, <1>3, <1>6 DEF TypeOK
  <2>4. next' \in 1..MaxWidth + 1
    BY <1>2, <1>3, <1>6, PlanAssumption
  <2>5. statusFile' \in [state: RunStates, steps: [Group -> Seq(StepStatus)]]
    BY <1>1, <2>2, WriteStatusType DEF Settle, TypeOK
  <2> QED
    BY <1>1, <1>3, <1>5, <1>6, <2>2, <2>3, <2>4, <2>5
       DEF Settle, Inv, TypeOK, Shape, Group, Task
<1>7. CASE ~aborted'
  <2>1. [i \in 1..Width |-> IF i = t THEN v ELSE IF i = next THEN "running" ELSE status[k][i]]
          \in [1..Width -> StepStatus]
    BY <1>2, <1>4 DEF StepStatus
  <2>2. /\ status' \in [Group -> Seq(StepStatus)]
        /\ \A g \in Group : Len(status'[g]) \in 1..MaxWidth
    BY <1>1, <1>2, <1>3, <1>7, <2>1, RewriteGroup
  <2>3. /\ child' \in [Task -> {"idle", "live", "signalled", "closed"}]
        /\ exit' \in [Task -> {"none", "ok", "paused", "fail", "done", "bad", "skip"}]
    BY <1>1, <1>3, <1>7 DEF TypeOK
  <2>4. /\ attempts' \in [Task -> 0..MaxAttempts]
        /\ slot' \in 0..MaxWidth
        /\ next' \in 1..MaxWidth + 1
    <3>1. /\ attempts \in [Task -> 0..MaxAttempts] /\ 1 \in 0..MaxAttempts
          /\ slot \in 0..MaxWidth /\ next \in 1..MaxWidth + 1
      BY <1>1, PlanAssumption DEF TypeOK
    <3>2. CASE next <= Width
      <4>1. attempts' = [attempts EXCEPT ![next] = 1] /\ slot' = next /\ next' = next + 1
        BY <1>3, <1>7, <3>2
      <4>2. attempts' \in [Task -> 0..MaxAttempts]
        BY <3>1, <4>1
      <4>3. slot' \in 0..MaxWidth /\ next' \in 1..MaxWidth + 1
        BY <1>2, <3>1, <3>2, <4>1, PlanAssumption
      <4> QED
        BY <4>2, <4>3
    <3>3. CASE ~(next <= Width)
      BY <1>3, <1>7, <3>1, <3>3
    <3> QED
      BY <3>2, <3>3
  <2>5. statusFile' \in [state: RunStates, steps: [Group -> Seq(StepStatus)]]
    BY <1>1, <2>2, WriteStatusType DEF Settle, TypeOK
  <2> QED
    BY <1>1, <1>5, <2>2, <2>3, <2>4, <2>5 DEF Settle, Inv, TypeOK, Shape, Group, Task
<1> QED
  BY <1>6, <1>7

LEMMA EndGroupInv == Inv /\ EndGroup => Inv'
<1> SUFFICES ASSUME Inv, EndGroup PROVE Inv'
  OBVIOUS
<1>1. k \in Group /\ TypeOK /\ Shape
  BY DEF Inv, Shape, EndGroup
<1>2. k' \in 1..Len(Plan) + 1 /\ pc' \in {"final", "loop"}
  BY <1>1, PlanType DEF EndGroup, Group
<1>3. results' \in Seq(Outcome)
  BY <1>1, GroupOutcomesType, ConcatProperties DEF EndGroup, TypeOK
<1>4. statusFile' \in [state: RunStates, steps: [Group -> Seq(StepStatus)]]
  BY <1>1, WriteStatusType DEF EndGroup, TypeOK
<1> QED
  BY <1>1, <1>2, <1>3, <1>4 DEF EndGroup, Inv, TypeOK, Shape, groupVars, Group, Task

LEMMA RejectCollectionInv == Inv /\ RejectCollection => Inv'
<1> SUFFICES ASSUME Inv, RejectCollection PROVE Inv'
  OBVIOUS
<1>1. k \in Group /\ TypeOK /\ Shape
  BY DEF Inv, Shape, RejectCollection
<1>2. Append(GroupOutcomes, "fail") \in Seq(Outcome)
  BY <1>1, GroupOutcomesType DEF Outcome
<1>3. results' \in Seq(Outcome)
  BY <1>1, <1>2, ConcatProperties DEF RejectCollection, TypeOK
<1>4. statusFile' \in [state: RunStates, steps: [Group -> Seq(StepStatus)]]
  BY <1>1, WriteStatusType DEF RejectCollection, TypeOK
<1> QED
  BY <1>1, <1>3, <1>4 DEF RejectCollection, Inv, TypeOK, Shape, groupVars, Group, Task

\* The interrupt rewrites every group, but only the status of its steps.
LEMMA InterruptInv == Inv /\ Interrupt => Inv'
<1> SUFFICES ASSUME Inv, Interrupt PROVE Inv'
  OBVIOUS
<1>1. TypeOK /\ Shape
  BY DEF Inv
<1>2. \A g \in Group : status'[g] \in Seq(StepStatus) /\ Len(status'[g]) = Len(status[g])
  <2> TAKE g \in Group
  <2> DEFINE n == Len(status[g])
  <2>1. n \in Nat /\ status[g] \in [1..n -> StepStatus]
    BY <1>1, LenProperties DEF TypeOK
  <2>2. status'[g] = [t \in 1..n |-> IF status[g][t] = "running" THEN "paused" ELSE status[g][t]]
    BY DEF Interrupt
  <2> HIDE DEF n
  <2>3. status'[g] \in [1..n -> StepStatus]
    BY <2>1, <2>2 DEF StepStatus
  <2>4. status'[g] \in Seq(StepStatus) /\ Len(status'[g]) = n
    BY <2>1, <2>3, FunctionIsSeq
  <2> QED
    BY <2>4 DEF n
<1>3. status' = [g \in Group |-> status'[g]]
  BY DEF Interrupt
<1>4. status' \in [Group -> Seq(StepStatus)]
  BY <1>2, <1>3
<1>5. \A g \in Group : Len(status'[g]) \in 1..MaxWidth
  BY <1>1, <1>2 DEF Shape
<1>6. child' \in [Task -> {"idle", "live", "signalled", "closed"}]
  BY <1>1 DEF Interrupt, TypeOK
<1>7. runState' \in RunStates /\ interrupted' \in BOOLEAN
  BY DEF Interrupt, RunStates
<1>8. statusFile' \in [state: RunStates, steps: [Group -> Seq(StepStatus)]]
  BY <1>4, <1>7, WriteStatusType DEF Interrupt
<1> QED
  BY <1>1, <1>4, <1>5, <1>6, <1>7, <1>8 DEF Interrupt, Inv, TypeOK, Shape, Group, Task

LEMMA FinalStateType == FinalState \in RunStates
BY DEF FinalState, RunStates

\* The three writes at the end, and leaving: nothing but the files changes.
LEMMA EndInv ==
  Inv /\ (LeaveLoop \/ Finalize \/ WriteResult \/ ResultWriteFails \/ Crash) => Inv'
<1> SUFFICES ASSUME Inv, LeaveLoop \/ Finalize \/ WriteResult \/ ResultWriteFails \/ Crash
             PROVE Inv'
  OBVIOUS
<1>1. CASE LeaveLoop
  BY <1>1 DEF LeaveLoop, Inv, TypeOK, Shape, groupVars, Group, Task
<1>2. CASE Finalize
  <2>1. statusFile' \in [state: RunStates, steps: [Group -> Seq(StepStatus)]]
    BY <1>2, FinalStateType, WriteStatusType DEF Finalize, Inv, TypeOK
  <2> QED
    BY <1>2, <2>1, FinalStateType DEF Finalize, Inv, TypeOK, Shape, groupVars, Group, Task
<1>3. CASE WriteResult
  <2>1. (~interrupted /\ AllSucceeded) \in BOOLEAN
    BY DEF AllSucceeded
  <2>2. resultFile' \in [state: RunStates \cup {"absent"}, success: BOOLEAN]
    BY <1>3, <2>1, FinalStateType DEF WriteResult
  <2> QED
    BY <1>3, <2>2 DEF WriteResult, Inv, TypeOK, Shape, groupVars, Group, Task
<1>4. CASE ResultWriteFails
  BY <1>4 DEF ResultWriteFails, Inv, TypeOK, Shape, groupVars, Group, Task
<1>5. CASE Crash
  BY <1>5 DEF Crash, Inv, TypeOK, Shape, groupVars, Group, Task
<1> QED
  BY <1>1, <1>2, <1>3, <1>4, <1>5

LEMMA NextInv == Inv /\ [Next]_vars => Inv'
<1> SUFFICES ASSUME Inv, [Next]_vars PROVE Inv'
  OBVIOUS
<1>1. CASE UNCHANGED vars
  BY <1>1 DEF vars, Inv, TypeOK, Shape, Group, Task
<1>2. CASE Next
  BY <1>2, BootInv, StartGroupInv, WorktreeSetupFailsInv, MaterializeFailsInv, EmptyFanoutInv,
     EmptyFanoutAcceptedInv, EmptyFanoutRejectedInv, ChildClosesInv, RetryInv, SettleInv,
     EndGroupInv, RejectCollectionInv, InterruptInv, EndInv
     DEF Next, RunnerStep
<1> QED
  BY <1>1, <1>2

\* Type correctness of the runner, for every plan.
THEOREM TypeCorrect == Spec => []TypeOK
<1>1. Inv => TypeOK
  BY DEF Inv
<1> QED
  BY InitInv, NextInv, <1>1, PTL DEF Spec
-----------------------------------------------------------------------------
\* Outside a group no task is claimed, so no child exists.
Quiet == pc \notin {"group", "crashed"} => InFlight = {}

LEMMA QuietNext == Inv /\ Quiet /\ [Next]_vars => Quiet'
<1> SUFFICES ASSUME Inv, Quiet, [Next]_vars PROVE Quiet'
  OBVIOUS
<1>1. ASSUME child' = child, pc' \in {"group", "crashed"} \/ pc \notin {"group", "crashed"}
      PROVE  Quiet'
  BY <1>1 DEF Quiet, InFlight
<1>2. CASE Boot \/ WorktreeSetupFails \/ MaterializeFails \/ EmptyFanout
             \/ EmptyFanoutAccepted \/ EmptyFanoutRejected
  BY <1>1, <1>2 DEF Boot, WorktreeSetupFails, MaterializeFails, EmptyFanout,
     EmptyFanoutAccepted, EmptyFanoutRejected, AtGroup, groupVars
<1>3. CASE StartGroup
  BY <1>3 DEF StartGroup, Quiet
<1>4. CASE (\E t \in Task : Retry(t)) \/ (\E t \in Task : Settle(t))
  BY <1>4 DEF Retry, Settle, Quiet
<1>5. CASE EndGroup \/ RejectCollection
  BY <1>5 DEF EndGroup, RejectCollection, GroupSettled, groupVars, Quiet, InFlight
<1>6. CASE LeaveLoop \/ Finalize \/ WriteResult \/ ResultWriteFails \/ Crash
  BY <1>1, <1>6 DEF LeaveLoop, Finalize, WriteResult, ResultWriteFails, Crash, groupVars
<1>7. CASE \E t \in Task : ChildCloses(t)
  BY <1>7 DEF ChildCloses, Alive, Live, Quiet, InFlight
<1>8. CASE Interrupt
  <2>1. pc' = pc /\ \A t \in Task : child'[t] # "idle" => child[t] # "idle"
    BY <1>8 DEF Interrupt, Inv, TypeOK
  <2> QED
    BY <2>1 DEF Quiet, InFlight
<1>9. CASE UNCHANGED vars
  BY <1>9 DEF vars, Quiet, InFlight
<1> QED
  BY <1>2, <1>3, <1>4, <1>5, <1>6, <1>7, <1>8, <1>9 DEF Next, RunnerStep

\* The result file is only published when every child of the run is gone.
THEOREM NoChildAtTheEnd == Spec => []ChildrenGoneAtEnd
<1>1. Init => Quiet
  BY DEF Init, Quiet, InFlight
<1>2. Quiet => ChildrenGoneAtEnd
  BY DEF Quiet, ChildrenGoneAtEnd
<1> QED
  BY InitInv, NextInv, QuietNext, <1>1, <1>2, PTL DEF Spec
-----------------------------------------------------------------------------
\* What the end of a run leaves in memory and in the two files: once the final
\* state is written nothing it is computed from changes any more, because an
\* interrupt is only handled while the run is `running`.
Ended ==
  /\ pc \in {"result", "exited"} => runState = FinalState /\ statusFile.state = FinalState
  /\ resultFile # NoResult =>
       /\ pc = "exited"
       /\ resultFile = [state |-> FinalState, success |-> ~interrupted /\ AllSucceeded]

LEMMA FinalStateCases ==
  /\ FinalState \in {"paused", "complete", "failed"}
  /\ interrupted => FinalState = "paused"
  /\ (~interrupted /\ AllSucceeded) <=> FinalState = "complete"
BY DEF FinalState

LEMMA EndedNext == Inv /\ Ended /\ [Next]_vars => Ended'
<1> SUFFICES ASSUME Inv, Ended, [Next]_vars PROVE Ended'
  OBVIOUS
<1>1. ASSUME resultFile' = resultFile, pc \notin {"result", "exited"},
             pc' \notin {"result", "exited"}
      PROVE  Ended'
  BY <1>1 DEF Ended, NoResult
<1>2. CASE Boot \/ StartGroup \/ WorktreeSetupFails \/ MaterializeFails \/ EmptyFanout
             \/ EmptyFanoutAccepted \/ EmptyFanoutRejected
  BY <1>1, <1>2 DEF Boot, StartGroup, WorktreeSetupFails, MaterializeFails, EmptyFanout,
     EmptyFanoutAccepted, EmptyFanoutRejected, AtGroup
<1>3. CASE (\E t \in Task : Retry(t)) \/ (\E t \in Task : Settle(t))
  BY <1>1, <1>3 DEF Retry, Settle
<1>4. CASE EndGroup \/ RejectCollection \/ LeaveLoop
  BY <1>1, <1>4 DEF EndGroup, RejectCollection, LeaveLoop
<1>5. CASE Finalize
  <2>1. FinalState' = FinalState
    BY <1>5 DEF Finalize, FinalState, AllSucceeded
  <2> QED
    BY <1>5, <2>1 DEF Finalize, WriteStatus, Ended
<1>6. CASE WriteResult
  <2>1. FinalState' = FinalState /\ AllSucceeded' = AllSucceeded
    BY <1>6 DEF WriteResult, FinalState, AllSucceeded
  <2> QED
    BY <1>6, <2>1 DEF WriteResult, Ended
<1>7. CASE ResultWriteFails
  <2>1. FinalState' = FinalState
    BY <1>7 DEF ResultWriteFails, FinalState, AllSucceeded
  <2> QED
    BY <1>7, <2>1 DEF ResultWriteFails, Ended
<1>8. CASE Crash
  BY <1>8 DEF Crash, Alive, Ended
<1>9. CASE \E t \in Task : ChildCloses(t)
  <2>1. FinalState' = FinalState /\ pc' = pc /\ resultFile' = resultFile /\ pc # "exited"
        /\ runState' = runState /\ statusFile' = statusFile
    BY <1>9 DEF ChildCloses, Alive, FinalState, AllSucceeded
  <2> QED
    BY <2>1 DEF Ended
<1>10. CASE Interrupt
  <2>1. pc # "exited" /\ pc # "result"
    BY <1>10, FinalStateCases DEF Interrupt, Alive, Ended
  <2> QED
    BY <1>1, <1>10, <2>1 DEF Interrupt
<1>11. CASE UNCHANGED vars
  <2>1. FinalState' = FinalState /\ AllSucceeded' = AllSucceeded
    BY <1>11 DEF vars, FinalState, AllSucceeded
  <2> QED
    BY <1>11, <2>1 DEF vars, Ended
<1> QED
  BY <1>2, <1>3, <1>4, <1>5, <1>6, <1>7, <1>8, <1>9, <1>10, <1>11 DEF Next, RunnerStep

LEMMA InitEnded == Init => Ended
BY DEF Init, Ended, NoResult

\* Whoever reads the result file learns what status.json says.
THEOREM FilesAgree == Spec => []ResultAgreesWithStatus
<1>1. Ended => ResultAgreesWithStatus
  BY FinalStateCases DEF Ended, ResultAgreesWithStatus, NoResult
<1> QED
  BY InitInv, NextInv, InitEnded, EndedNext, <1>1, PTL DEF Spec

\* A handled interrupt is what the run ends with.
THEOREM InterruptPrevails == Spec => []InterruptedRunEndsPaused
<1>1. Ended => InterruptedRunEndsPaused
  BY FinalStateCases DEF Ended, InterruptedRunEndsPaused, NoResult
<1> QED
  BY InitInv, NextInv, InitEnded, EndedNext, <1>1, PTL DEF Spec
-----------------------------------------------------------------------------
LEMMA InFlightFinite == IsFiniteSet(InFlight) /\ IsFiniteSet(InFlight')
<1>1. IsFiniteSet(Task)
  BY PlanAssumption, FS_Interval DEF Task
<1>2. InFlight \subseteq Task /\ InFlight' \subseteq Task
  BY DEF InFlight, Task
<1> QED
  BY <1>1, <1>2, FS_Subset

\* A step that claims no new task does not raise the number in flight.
LEMMA NoNewClaim ==
  ASSUME Inv, ConcurrencyBound, pc = "group", k' = k, InFlight' \subseteq InFlight
  PROVE  Cardinality(InFlight') <= Plan[k].limit
<1>1. Cardinality(InFlight') <= Cardinality(InFlight)
  BY InFlightFinite, FS_Subset
<1>2. Cardinality(InFlight) \in Nat /\ Cardinality(InFlight') \in Nat
  BY InFlightFinite, FS_CardinalityType
<1>3. Cardinality(InFlight) <= Plan[k].limit /\ Plan[k].limit \in Nat
  BY PlanType, PlanAssumption DEF ConcurrencyBound, Inv, Shape
<1> QED
  BY <1>1, <1>2, <1>3

LEMMA LaunchBound ==
  ASSUME Inv, k \in Group, NEW w \in 1..MaxWidth, Launch(w)
  PROVE  Cardinality(InFlight') <= Plan[k].limit
<1> DEFINE n == Smaller(Plan[k].limit, w)
<1>1. Plan[k].limit \in Nat /\ w \in Nat
  BY PlanType, PlanAssumption
<1>2. n \in Nat /\ n <= Plan[k].limit
  BY <1>1 DEF Smaller
<1>3. child' = [t \in Task |-> IF t <= n THEN "live" ELSE "idle"]
  BY DEF Launch
<1> HIDE DEF n
<1>4. InFlight' \subseteq 1..n
  <2> SUFFICES ASSUME NEW t \in Task, child'[t] # "idle" PROVE t \in 1..n
    BY DEF InFlight
  <2> QED
    BY <1>2, <1>3, PlanAssumption DEF Task
<1>5. IsFiniteSet(1..n) /\ Cardinality(1..n) = n
  BY <1>2, FS_Interval
<1>6. Cardinality(InFlight') <= n /\ Cardinality(InFlight') \in Nat
  BY <1>4, <1>5, FS_Subset, FS_CardinalityType
<1> QED
  BY <1>1, <1>2, <1>6

\* A worker that settles its task claims at most one other.
LEMMA SettleBound ==
  ASSUME Inv, ConcurrencyBound, NEW t \in Task, Settle(t)
  PROVE  Cardinality(InFlight') <= Plan[k].limit
<1>1. t \in InFlight /\ pc = "group" /\ k' = k /\ k \in Group /\ TypeOK
  BY DEF Settle, InFlight, Inv, Shape
<1>2. InFlight' \subseteq (InFlight \ {t}) \cup {next}
  BY <1>1 DEF Settle, InFlight, TypeOK
<1>3. /\ IsFiniteSet(InFlight \ {t})
      /\ Cardinality(InFlight \ {t}) = Cardinality(InFlight) - 1
  BY <1>1, InFlightFinite, FS_RemoveElement
<1> DEFINE Others == InFlight \ {t}
<1>4. /\ IsFiniteSet(Others \cup {next})
      /\ Cardinality(Others \cup {next}) <= Cardinality(InFlight)
  <2>1. Cardinality(Others) \in Nat /\ Cardinality(InFlight) \in Nat
    BY <1>3, InFlightFinite, FS_CardinalityType
  <2>2. IsFiniteSet(Others) /\ Cardinality(Others) = Cardinality(InFlight) - 1
    BY <1>3
  <2> HIDE DEF Others
  <2>3. /\ IsFiniteSet(Others \cup {next})
        /\ Cardinality(Others \cup {next}) =
             IF next \in Others THEN Cardinality(Others) ELSE Cardinality(Others) + 1
    BY <2>2, FS_AddElement
  <2> QED
    BY <2>1, <2>2, <2>3
<1>5. Cardinality(InFlight') <= Cardinality((InFlight \ {t}) \cup {next})
  BY <1>2, <1>4, FS_Subset
<1>6. Cardinality(InFlight) <= Plan[k].limit
  BY <1>1 DEF ConcurrencyBound
<1>7. /\ Cardinality(InFlight) \in Nat /\ Cardinality(InFlight') \in Nat
      /\ Cardinality((InFlight \ {t}) \cup {next}) \in Nat /\ Plan[k].limit \in Nat
  BY <1>1, <1>4, InFlightFinite, FS_CardinalityType, PlanType, PlanAssumption
<1> QED
  BY <1>4, <1>5, <1>6, <1>7

LEMMA BoundNext == Inv /\ ConcurrencyBound /\ [Next]_vars => ConcurrencyBound'
<1> SUFFICES ASSUME Inv, ConcurrencyBound, [Next]_vars, pc' = "group"
             PROVE  Cardinality(InFlight') <= Plan[k'].limit
  BY DEF ConcurrencyBound
<1>1. CASE StartGroup
  <2>1. k \in Group /\ k' = k /\ \E w \in 1..MaxWidth : Launch(w)
    BY <1>1, PlanType DEF StartGroup, AtGroup
  <2> QED
    BY <2>1, LaunchBound
<1>2. CASE \E t \in Task : Settle(t)
  BY <1>2, SettleBound DEF Settle
<1>3. CASE \E t \in Task : Retry(t)
  <2>1. pc = "group" /\ k' = k /\ InFlight' \subseteq InFlight
    BY <1>3 DEF Retry, InFlight, Inv, TypeOK
  <2> QED
    BY <2>1, NoNewClaim
<1>4. CASE \E t \in Task : ChildCloses(t)
  <2>1. pc = "group" /\ k' = k /\ InFlight' \subseteq InFlight
    BY <1>4 DEF ChildCloses, Live, InFlight, Inv, TypeOK
  <2> QED
    BY <2>1, NoNewClaim
<1>5. CASE Interrupt
  <2>1. pc = "group" /\ k' = k /\ InFlight' \subseteq InFlight
    BY <1>5 DEF Interrupt, InFlight, Inv, TypeOK
  <2> QED
    BY <2>1, NoNewClaim
<1>6. CASE UNCHANGED vars
  <2>1. pc = "group" /\ k' = k /\ InFlight' \subseteq InFlight
    BY <1>6 DEF vars, InFlight
  <2> QED
    BY <2>1, NoNewClaim
<1>7. CASE \/ Boot \/ WorktreeSetupFails \/ MaterializeFails \/ EmptyFanout
           \/ EmptyFanoutAccepted \/ EmptyFanoutRejected \/ EndGroup \/ RejectCollection
           \/ LeaveLoop \/ Finalize \/ WriteResult \/ ResultWriteFails \/ Crash
  BY <1>7 DEF Boot, WorktreeSetupFails, MaterializeFails, EmptyFanout, EmptyFanoutAccepted,
     EmptyFanoutRejected, EndGroup, RejectCollection, LeaveLoop, Finalize, WriteResult,
     ResultWriteFails, Crash
<1> QED
  BY <1>1, <1>2, <1>3, <1>4, <1>5, <1>6, <1>7 DEF Next, RunnerStep

\* A group of any width and limit never has more children than its limit.
THEOREM WithinLimit == Spec => []ConcurrencyBound
<1>1. Init => ConcurrencyBound
  BY DEF Init, ConcurrencyBound
<1> QED
  BY InitInv, NextInv, BoundNext, <1>1, PTL DEF Spec
-----------------------------------------------------------------------------
\* A step that keeps the phase, the state and the result, and that writes
\* status.json if it changes it, is Progress.
LEMMA ProgressStep ==
  ASSUME pc \in {"loop", "group", "empty", "final"}, pc' \in {"loop", "group", "empty", "final"},
         UNCHANGED <<runState, interrupted, resultFile>>,
         statusFile' = statusFile \/ WriteStatus
  PROVE  [Lifecycle!LifecycleNext]_(Lifecycle!lifecycleVars)
<1>1. Phase' = Phase /\ Phase \in {"running", "interrupted"}
  BY DEF Phase
<1> QED
  BY <1>1 DEF WriteStatus, Lifecycle!LifecycleNext, Lifecycle!Progress, Lifecycle!lifecycleVars

\* Before its first write, the runner has no handler that could interrupt it.
NotBeforeBoot == pc = "boot" => ~interrupted

LEMMA NotBeforeBootNext == NotBeforeBoot /\ [Next]_vars => NotBeforeBoot'
BY DEF NotBeforeBoot, Next, RunnerStep, vars, Boot, StartGroup, WorktreeSetupFails,
   MaterializeFails, EmptyFanout, EmptyFanoutAccepted, EmptyFanoutRejected, Retry, Settle,
   EndGroup, RejectCollection, LeaveLoop, Finalize, WriteResult, ResultWriteFails,
   ChildCloses, Interrupt, Crash

LEMMA InitLifecycle == Init => Lifecycle!LifecycleInit
BY DEF Init, Phase, Absent, NoResult, Lifecycle!LifecycleInit

\* Every step of the runner is a step of its lifecycle, or none.
LEMMA StepLifecycle ==
  Inv /\ Ended /\ NotBeforeBoot /\ [Next]_vars
    => [Lifecycle!LifecycleNext]_(Lifecycle!lifecycleVars)
<1> SUFFICES ASSUME Inv, Ended, NotBeforeBoot, [Next]_vars
             PROVE  [Lifecycle!LifecycleNext]_(Lifecycle!lifecycleVars)
  OBVIOUS
<1> USE DEF Lifecycle!LifecycleNext, Lifecycle!lifecycleVars
<1>1. CASE Boot
  BY <1>1 DEF NotBeforeBoot, Boot, WriteStatus, Phase, Lifecycle!Start
<1>2. CASE StartGroup \/ WorktreeSetupFails
  BY <1>2, ProgressStep DEF StartGroup, WorktreeSetupFails, AtGroup
<1>3. CASE MaterializeFails \/ EmptyFanoutRejected
  BY <1>3 DEF MaterializeFails, EmptyFanoutRejected, AtGroup, WriteStatus, Phase,
     Lifecycle!FailEarly
<1>4. CASE EmptyFanout \/ EmptyFanoutAccepted \/ EndGroup \/ RejectCollection \/ LeaveLoop
  BY <1>4, ProgressStep DEF EmptyFanout, EmptyFanoutAccepted, EndGroup, RejectCollection,
     LeaveLoop, AtGroup
<1>5. CASE (\E t \in Task : Retry(t)) \/ (\E t \in Task : Settle(t))
  BY <1>5, ProgressStep DEF Retry, Settle
<1>6. CASE Finalize
  <2>1. Phase = (IF interrupted THEN "interrupted" ELSE "running") /\ Phase' = "ended"
    BY <1>6 DEF Finalize, Phase
  <2>2. interrupted \in BOOLEAN
    BY DEF Inv, TypeOK
  <2>3. FinalState \in IF interrupted THEN {"paused"} ELSE {"complete", "failed"}
    BY DEF FinalState
  <2> QED
    BY <1>6, <2>1, <2>2, <2>3 DEF Finalize, WriteStatus, Lifecycle!End
<1>7. CASE WriteResult
  BY <1>7 DEF WriteResult, Ended, Phase, Lifecycle!Publish
<1>8. CASE ResultWriteFails \/ Crash
  BY <1>8 DEF ResultWriteFails, Crash, Alive, Phase, Lifecycle!Die
<1>9. CASE \E t \in Task : ChildCloses(t)
  BY <1>9 DEF ChildCloses, Phase
<1>10. CASE Interrupt
  <2>1. pc \in {"loop", "group", "empty", "final"}
    BY <1>10, FinalStateCases DEF Interrupt, Alive, Ended, Inv, TypeOK
  <2> QED
    BY <1>10, <2>1 DEF Interrupt, WriteStatus, Phase, Lifecycle!Pause
<1>11. CASE UNCHANGED vars
  BY <1>11 DEF vars, Phase
<1> QED
  BY <1>1, <1>2, <1>3, <1>4, <1>5, <1>6, <1>7, <1>8, <1>9, <1>10, <1>11 DEF Next, RunnerStep

\* The detailed runner implements the lifecycle that AsyncRun composes with the
\* readers of its files.
THEOREM RunnerImplementsLifecycle == Spec => ImplementsLifecycle
<1>1. Init => NotBeforeBoot
  BY DEF Init, NotBeforeBoot
<1>2. Spec => Lifecycle!LifecycleInit
  BY InitLifecycle, PTL DEF Spec
<1>3. Spec => [][Lifecycle!LifecycleNext]_(Lifecycle!lifecycleVars)
  BY InitInv, NextInv, InitEnded, EndedNext, <1>1, NotBeforeBootNext, StepLifecycle, PTL
     DEF Spec
<1> QED
  BY <1>2, <1>3 DEF ImplementsLifecycle, Lifecycle!LifecycleSpec

-----------------------------------------------------------------------------
\* All the steps of a group say s.
AllSay(g, s) == \A t \in 1..Len(status[g]) : status[g][t] = s

\* The groups in front of the one being executed have completed, those behind it
\* have not begun.
Front ==
  \A g \in Group :
    /\ g < k => AllSay(g, "complete")
    /\ g > k => AllSay(g, "pending")
    /\ g = k /\ pc \in {"boot", "loop"} => AllSay(g, "pending")
    /\ g = k /\ pc = "empty" => AllSay(g, "complete")

\* The workers of a group: a claimed task is shown as being worked at, a settled one
\* as what it ended with, and a group is only aborted by a task that failed.
Workers ==
  pc = "group" =>
    /\ next <= Width + 1
    /\ \A t \in Task : child[t] # "idle" => t < next /\ status[k][t] \in {"running", "paused"}
    /\ \A t \in Task : child[t] = "idle" /\ t < next /\ exit[t] = "done" => status[k][t] = "complete"
    /\ \A t \in Task : exit[t] = "skip" => aborted
    /\ aborted => \E t \in Task : t < next /\ child[t] = "idle" /\ exit[t] = "bad"

\* A plan that was left with nothing but successes was carried out.
Left ==
  /\ pc \in {"final", "result", "exited"} /\ AllSucceeded /\ ~ interrupted => k \notin Group
  /\ statusFile.state = "complete" \/ runState = "complete" => pc \in {"result", "exited", "crashed"} /\ k \notin Group

\* A settled group none of whose tasks failed has completed.
LEMMA SettledGroup ==
  ASSUME Inv, Workers, pc = "group", GroupSettled, ~ GroupFailed
  PROVE  AllSay(k, "complete")
<1>1. k \in Group /\ Width \in 1..MaxWidth /\ next \in Nat /\ MaxWidth \in Nat
  BY PlanAssumption DEF Inv, Shape, Width, TypeOK
<1>2. \A t \in 1..Width : t \in Task /\ t < next /\ child[t] = "idle"
  BY <1>1 DEF Task, GroupSettled, InFlight
<1>3. ~ aborted
  <2> SUFFICES ASSUME aborted PROVE FALSE
    OBVIOUS
  <2>1. PICK t \in Task : t < next /\ exit[t] = "bad"
    BY DEF Workers
  <2>2. t \in 1..Width
    BY <1>1, <2>1 DEF Task, Workers
  <2> QED
    BY <2>1, <2>2 DEF GroupFailed, OutcomeOf
<1>4. ASSUME NEW t \in 1..Width PROVE exit[t] = "done"
  BY <1>2, <1>3 DEF GroupFailed, OutcomeOf, Workers
<1> QED
  BY <1>2, <1>4 DEF Workers, AllSay, Width

LEMMA FrontNext == Inv /\ Workers /\ Front /\ [Next]_vars => Front'
<1> SUFFICES ASSUME Inv, Workers, Front, [Next]_vars PROVE Front'
  OBVIOUS
<1>1. /\ \A g \in Group : g \in Nat /\ status[g] \in Seq(StepStatus) /\ Len(status[g]) \in Nat
      /\ k \in Nat /\ status \in [Group -> Seq(StepStatus)]
  <2>1. status \in [Group -> Seq(StepStatus)] /\ k \in 1..Len(Plan) + 1 /\ Len(Plan) \in Nat
    BY PlanType DEF Inv, TypeOK
  <2>2. \A g \in Group : status[g] \in Seq(StepStatus)
    BY <2>1
  <2> QED
    BY <2>1, <2>2 DEF Group
\* The group at work is rewritten, and it stays, or the plan is left.
<1>2. ASSUME k' = k, pc' \notin {"boot", "loop", "empty"}, \A g \in Group : g # k => status'[g] = status[g] PROVE Front'
  BY <1>1, <1>2 DEF Front, AllSay
<1>3. ASSUME k' = k, status' = status, pc' = pc \/ pc' \notin {"boot", "loop", "empty"} PROVE Front'
  BY <1>3 DEF Front, AllSay
<1>4. ASSUME k' = k + 1, k \in Group, status' = status, AllSay(k, "complete"), pc' = "loop" PROVE Front'
  BY <1>1, <1>4 DEF Front, AllSay
<1>5. CASE Boot
  BY <1>5 DEF Boot, Front, AllSay
<1>6. CASE StartGroup
  BY <1>1, <1>2, <1>6 DEF StartGroup, Launch
<1>7. CASE WorktreeSetupFails \/ MaterializeFails \/ EmptyFanoutRejected
  BY <1>1, <1>2, <1>7 DEF WorktreeSetupFails, MaterializeFails, EmptyFanoutRejected
<1>8. CASE EmptyFanout
  <2>1. status'[k] = <<"complete">> /\ \A g \in Group : g # k => status'[g] = status[g]
    BY <1>1, <1>8 DEF EmptyFanout, AtGroup
  <2> QED
    BY <1>1, <1>8, <2>1 DEF EmptyFanout, Front, AllSay
<1>9. CASE EmptyFanoutAccepted
  <2>1. k \in Group /\ AllSay(k, "complete")
    BY <1>9 DEF EmptyFanoutAccepted, Inv, Shape, Front
  <2> QED
    BY <1>4, <1>9, <2>1 DEF EmptyFanoutAccepted
<1>10. CASE \E t \in Task : Retry(t)
  BY <1>3, <1>10 DEF Retry
<1>11. ASSUME NEW t \in Task, Settle(t) PROVE Front'
  <2>1. \A g \in Group : g # k => status'[g] = status[g]
    BY <1>1, <1>11 DEF Settle
  <2> QED
    BY <1>2, <1>11, <2>1 DEF Settle
<1>12. CASE EndGroup
  <2>1. CASE GroupFailed
    BY <1>3, <1>12, <2>1 DEF EndGroup
  <2>2. CASE ~ GroupFailed
    <3>1. AllSay(k, "complete") /\ k \in Group
      BY <1>12, <2>2, SettledGroup DEF EndGroup, Inv, Shape
    <3> QED
      BY <1>4, <1>12, <2>2, <3>1 DEF EndGroup
  <2> QED
    BY <2>1, <2>2
<1>13. CASE RejectCollection \/ LeaveLoop \/ Finalize \/ WriteResult \/ ResultWriteFails \/ Crash
  BY <1>3, <1>13 DEF RejectCollection, LeaveLoop, Finalize, WriteResult, ResultWriteFails, Crash
<1>14. CASE \E t \in Task : ChildCloses(t)
  BY <1>3, <1>14 DEF ChildCloses
<1>15. CASE Interrupt
  <2>1. \A g \in Group : status'[g] = [t \in 1..Len(status[g]) |-> IF status[g][t] = "running" THEN "paused" ELSE status[g][t]]
    BY <1>15 DEF Interrupt
  <2>2. \A g \in Group : Len(status'[g]) = Len(status[g])
    <3> TAKE g \in Group
    <3> DEFINE n == Len(status[g])
               f == [t \in 1..n |-> IF status[g][t] = "running" THEN "paused" ELSE status[g][t]]
    <3>1. n \in Nat /\ status[g] \in [1..n -> StepStatus]
      BY <1>1, LenProperties
    <3>2. f \in [1..n -> StepStatus]
      BY <3>1 DEF StepStatus
    <3>3. status'[g] = f
      BY <2>1
    <3> HIDE DEF f, n
    <3>4. Len(f) = n
      BY <3>1, <3>2, FunctionIsSeq
    <3> QED
      BY <3>3, <3>4 DEF n
  <2>3. ASSUME NEW g \in Group PROVE (AllSay(g, "pending") => AllSay(g, "pending")') /\ (AllSay(g, "complete") => AllSay(g, "complete")')
    <3>1. \A t \in 1..Len(status[g]) : status[g][t] # "running" => status'[g][t] = status[g][t]
      BY <2>1
    <3> QED
      BY <2>2, <3>1 DEF AllSay
  <2>4. k' = k /\ pc' = pc
    BY <1>15 DEF Interrupt
  <2> QED
    BY <2>3, <2>4 DEF Front
<1>16. CASE UNCHANGED vars
  BY <1>3, <1>16 DEF vars
<1> QED
  BY <1>5, <1>6, <1>7, <1>8, <1>9, <1>10, <1>11, <1>12, <1>13, <1>14, <1>15, <1>16 DEF Next, RunnerStep

\* A group that starts: the first n tasks are claimed.
LEMMA LaunchWorkers ==
  ASSUME Inv, k \in Group, k' = k, NEW w \in 1..MaxWidth, Launch(w)
  PROVE  Workers'
<1> DEFINE n == Smaller(Plan[k].limit, w)
           f == [t \in 1..w |-> IF t <= n THEN "running" ELSE "pending"]
<1>1. w \in Nat /\ n \in Nat /\ n >= 1 /\ n <= w /\ MaxWidth \in Nat
  BY PlanType, PlanAssumption DEF Smaller
<1>2. /\ status' = [status EXCEPT ![k] = f] /\ child' = [t \in Task |-> IF t <= n THEN "live" ELSE "idle"]
      /\ exit' = [t \in Task |-> "none"] /\ next' = n + 1 /\ aborted' = FALSE
  BY DEF Launch
<1> HIDE DEF n
<1>3. f \in [1..w -> StepStatus]
  BY DEF StepStatus
<1>4. Len(f) = w
  BY <1>1, <1>3, FunctionIsSeq
<1>5. status'[k] = f
  BY <1>2 DEF Inv, TypeOK
<1>6. Width' = w
  BY <1>4, <1>5 DEF Width
<1>7. \A t \in Task : child'[t] # "idle" => t < next' /\ status'[k][t] \in {"running", "paused"}
  BY <1>1, <1>2, <1>5 DEF Task
<1> HIDE DEF f
<1>8. \A t \in Task : exit'[t] = "none"
  BY <1>2
<1>9. next' <= Width' + 1
  BY <1>1, <1>2, <1>6
<1> QED
  BY <1>2, <1>7, <1>8, <1>9 DEF Workers, Task

\* What the verdict on a task, and the next claim, leave to the workers.
LEMMA SettleWorkers == ASSUME Inv, Workers, NEW t \in Task, Settle(t) PROVE Workers'
<1>1. /\ k \in Group /\ k' = k /\ pc = "group" /\ TypeOK /\ Shape /\ child[t] = "closed"
      /\ Width \in 1..MaxWidth /\ MaxWidth \in Nat /\ next \in Nat
  BY PlanAssumption DEF Inv, Shape, Settle, Width, TypeOK
<1>2. /\ next <= Width + 1
      /\ \A i \in Task : child[i] # "idle" => i < next /\ status[k][i] \in {"running", "paused"}
      /\ \A i \in Task : child[i] = "idle" /\ i < next /\ exit[i] = "done" => status[k][i] = "complete"
      /\ \A i \in Task : exit[i] = "skip" => aborted
      /\ aborted => \E i \in Task : i < next /\ child[i] = "idle" /\ exit[i] = "bad"
  BY <1>1 DEF Workers
<1>3. \A i \in Task : i \in Nat /\ i >= 1 /\ (i < next => i \in 1..Width)
  BY <1>1, <1>2 DEF Task
<1>4. status[k] \in [1..Width -> StepStatus]
  BY <1>1, LenProperties DEF TypeOK, Width
<1>5. PICK v \in Verdicts(t) :
        /\ aborted' = Aborts(v)
        /\ IF aborted'
           THEN /\ status' = [status EXCEPT ![k] = [i \in 1..Width |->
                     IF i = t THEN v ELSE IF i >= next THEN "failed" ELSE status[k][i]]]
                /\ child' = [child EXCEPT ![t] = "idle"]
                /\ exit' = [i \in Task |-> IF i = t
                             THEN IF v = "complete" THEN "done" ELSE "bad"
                             ELSE IF i \in next..Width THEN "skip" ELSE exit[i]]
                /\ next' = Width + 1
           ELSE /\ status' = [status EXCEPT ![k] = [i \in 1..Width |->
                     IF i = t THEN v ELSE IF i = next THEN "running" ELSE status[k][i]]]
                /\ exit' = [exit EXCEPT ![t] = IF v = "complete" THEN "done" ELSE "bad"]
                /\ child' = [i \in Task |-> IF i = t THEN "idle"
                              ELSE IF i = next /\ next <= Width THEN "live" ELSE child[i]]
                /\ next' = IF next <= Width THEN next + 1 ELSE next
  BY DEF Settle
<1>6. v \in {"complete", "failed"}
  BY <1>5 DEF Verdicts
<1>7. CASE aborted'
  <2> DEFINE f == [i \in 1..Width |-> IF i = t THEN v ELSE IF i >= next THEN "failed" ELSE status[k][i]]
  <2>1. f \in [1..Width -> StepStatus]
    BY <1>4, <1>6 DEF StepStatus
  <2>2. /\ status'[k] = f /\ next' = Width + 1 /\ child' = [child EXCEPT ![t] = "idle"]
        /\ \A i \in Task : exit'[i] = IF i = t THEN IF v = "complete" THEN "done" ELSE "bad"
                                      ELSE IF i \in next..Width THEN "skip" ELSE exit[i]
    BY <1>1, <1>5, <1>7 DEF TypeOK
  <2>3. Len(f) = Width
    BY <1>1, <2>1, FunctionIsSeq
  <2>4. Width' = Width
    BY <1>1, <2>2, <2>3 DEF Width
  <2>5. \A i \in Task : child'[i] # "idle" => i # t /\ child[i] # "idle"
    BY <1>1, <2>2 DEF TypeOK
  <2>6. \A i \in Task : child'[i] # "idle" => i < next' /\ status'[k][i] \in {"running", "paused"}
    BY <1>1, <1>2, <1>3, <2>2, <2>5
  <2>7. \A i \in Task : child'[i] = "idle" /\ i < next' /\ exit'[i] = "done" => status'[k][i] = "complete"
    <3> SUFFICES ASSUME NEW i \in Task, child'[i] = "idle", i < next', exit'[i] = "done" PROVE status'[k][i] = "complete"
      OBVIOUS
    <3>1. i \in 1..Width
      BY <1>1, <1>3, <2>2
    <3>2. CASE i = t
      BY <1>6, <2>2, <3>1, <3>2
    <3>3. CASE i # t
      <4>1. exit[i] = "done" /\ i < next
        BY <1>1, <1>3, <2>2, <3>1, <3>3
      <4>2. child[i] = "idle"
        BY <1>1, <2>2, <3>3 DEF TypeOK
      <4> QED
        BY <1>1, <1>2, <1>3, <2>2, <3>1, <3>3, <4>1, <4>2
    <3> QED
      BY <3>2, <3>3
  <2>8. \E i \in Task : i < next' /\ child'[i] = "idle" /\ exit'[i] = "bad"
    <3>1. CASE v = "failed"
      <4>1. t < next' /\ child'[t] = "idle" /\ exit'[t] = "bad"
        BY <1>1, <1>2, <1>3, <2>2, <3>1 DEF TypeOK
      <4> QED
        BY <4>1
    <3>2. CASE v # "failed"
      <4>1. aborted
        BY <1>5, <1>7, <3>2 DEF Aborts
      <4>2. PICK i \in Task : i < next /\ child[i] = "idle" /\ exit[i] = "bad"
        BY <1>2, <4>1
      <4>3. i # t /\ i < next' /\ child'[i] = "idle" /\ exit'[i] = "bad"
        BY <1>1, <1>2, <1>3, <2>2, <4>2 DEF TypeOK
      <4> QED
        BY <4>3
    <3> QED
      BY <3>1, <3>2
  <2>9. next' <= Width' + 1
    BY <1>1, <2>2, <2>4
  <2> QED
    BY <1>1, <1>7, <2>6, <2>7, <2>8, <2>9 DEF Workers, Task
<1>8. CASE ~ aborted'
  <2> DEFINE f == [i \in 1..Width |-> IF i = t THEN v ELSE IF i = next THEN "running" ELSE status[k][i]]
  <2>1. f \in [1..Width -> StepStatus]
    BY <1>4, <1>6 DEF StepStatus
  <2>2. /\ status'[k] = f /\ next' = IF next <= Width THEN next + 1 ELSE next
        /\ \A i \in Task : child'[i] = IF i = t THEN "idle" ELSE IF i = next /\ next <= Width THEN "live" ELSE child[i]
        /\ exit'[t] = IF v = "complete" THEN "done" ELSE "bad"
        /\ \A i \in Task : i # t => exit'[i] = exit[i]
    BY <1>1, <1>5, <1>8 DEF TypeOK
  <2>3. Len(f) = Width
    BY <1>1, <2>1, FunctionIsSeq
  <2>4. Width' = Width
    BY <1>1, <2>2, <2>3 DEF Width
  <2>5. ~ aborted
    BY <1>5, <1>8 DEF Aborts
  <2>6. \A i \in Task : child'[i] # "idle" => i < next' /\ status'[k][i] \in {"running", "paused"}
    <3> SUFFICES ASSUME NEW i \in Task, child'[i] # "idle" PROVE i < next' /\ status'[k][i] \in {"running", "paused"}
      OBVIOUS
    <3>1. i # t
      BY <2>2
    <3>2. CASE i = next /\ next <= Width
      BY <1>1, <1>3, <2>2, <3>1, <3>2
    <3>3. CASE ~ (i = next /\ next <= Width)
      <4>1. child[i] # "idle"
        BY <2>2, <3>1, <3>3
      <4> QED
        BY <1>1, <1>2, <1>3, <2>2, <3>1, <4>1
    <3> QED
      BY <3>2, <3>3
  <2>7. \A i \in Task : child'[i] = "idle" /\ i < next' /\ exit'[i] = "done" => status'[k][i] = "complete"
    <3> SUFFICES ASSUME NEW i \in Task, child'[i] = "idle", i < next', exit'[i] = "done" PROVE status'[k][i] = "complete"
      OBVIOUS
    <3>1. CASE i = t
      <4>1. i \in 1..Width
        BY <1>1, <1>2, <1>3, <3>1
      <4> QED
        BY <1>6, <2>2, <3>1, <4>1
    <3>2. CASE i # t
      <4>1. exit[i] = "done" /\ ~ (i = next /\ next <= Width)
        BY <2>2, <3>2
      <4>2. child[i] = "idle" /\ i < next
        BY <1>1, <1>3, <2>2, <3>2, <4>1
      <4> QED
        BY <1>1, <1>2, <1>3, <2>2, <3>2, <4>1, <4>2
    <3> QED
      BY <3>1, <3>2
  <2>8. \A i \in Task : exit'[i] = "skip" => aborted'
    <3>1. exit'[t] # "skip"
      BY <2>2
    <3> QED
      BY <1>2, <2>2, <2>5, <3>1
  <2>9. next' <= Width' + 1
    BY <1>1, <1>2, <2>2, <2>4
  <2> QED
    BY <1>1, <1>8, <2>6, <2>7, <2>8, <2>9 DEF Workers, Task
<1> QED
  BY <1>7, <1>8

LEMMA WorkersNext == Inv /\ Workers /\ [Next]_vars => Workers'
<1> SUFFICES ASSUME Inv, Workers, [Next]_vars PROVE Workers'
  OBVIOUS
<1> USE DEF Width
<1>1. ASSUME pc' # "group" PROVE Workers'
  BY <1>1 DEF Workers
<1>2. CASE StartGroup
  <2>1. k \in Group /\ k' = k /\ \E w \in 1..MaxWidth : Launch(w)
    BY <1>2, PlanType DEF StartGroup, AtGroup
  <2> QED
    BY <2>1, LaunchWorkers
<1>3. ASSUME NEW t \in Task, Retry(t) PROVE Workers'
  BY <1>3 DEF Retry, Workers, Inv, TypeOK, Task
<1>4. CASE \E t \in Task : Settle(t)
  BY <1>4, SettleWorkers
<1>5. ASSUME NEW t \in Task, ChildCloses(t) PROVE Workers'
  BY <1>5 DEF ChildCloses, Live, Workers, Inv, TypeOK, Task
<1>6. CASE Interrupt
  <2>1. CASE pc = "group"
    <3> DEFINE n == Len(status[k])
               f == [t \in 1..n |-> IF status[k][t] = "running" THEN "paused" ELSE status[k][t]]
    <3>1. n \in Nat /\ status[k] \in [1..n -> StepStatus] /\ k \in Group
      BY <2>1, LenProperties DEF Inv, TypeOK, Shape
    <3>2. f \in [1..n -> StepStatus]
      BY <3>1 DEF StepStatus
    <3>3. /\ status'[k] = f /\ k' = k /\ UNCHANGED <<exit, next, aborted>>
          /\ \A t \in Task : child'[t] # "idle" <=> child[t] # "idle"
      BY <1>6, <3>1 DEF Interrupt, Inv, TypeOK
    <3> HIDE DEF n
    <3>4. Len(f) = n
      BY <3>1, <3>2, FunctionIsSeq
    <3>5. Len(status'[k']) = n /\ next <= n + 1 /\ next \in Nat
      BY <2>1, <3>3, <3>4, PlanAssumption DEF Workers, n, Inv, TypeOK
    <3>6. \A t \in Task : t < next => t \in 1..n
      BY <3>1, <3>5 DEF Task
    <3>7. \A t \in Task : t < next => status'[k'][t] = IF status[k][t] = "running" THEN "paused" ELSE status[k][t]
      BY <3>3, <3>6
    <3> HIDE DEF f
    <3> QED
      BY <2>1, <3>3, <3>5, <3>7 DEF Workers, Task
  <2>2. CASE pc # "group"
    BY <1>6, <2>2 DEF Interrupt, Workers
  <2> QED
    BY <2>1, <2>2
<1>7. CASE UNCHANGED vars
  BY <1>7 DEF vars, Workers, Task
<1>8. CASE \/ Boot \/ WorktreeSetupFails \/ MaterializeFails \/ EmptyFanout
           \/ EmptyFanoutAccepted \/ EmptyFanoutRejected \/ EndGroup \/ RejectCollection
           \/ LeaveLoop \/ Finalize \/ WriteResult \/ ResultWriteFails \/ Crash
  BY <1>1, <1>8 DEF Boot, WorktreeSetupFails, MaterializeFails, EmptyFanout, EmptyFanoutAccepted,
     EmptyFanoutRejected, EndGroup, RejectCollection, LeaveLoop, Finalize, WriteResult,
     ResultWriteFails, Crash
<1> QED
  BY <1>2, <1>3, <1>4, <1>5, <1>6, <1>7, <1>8 DEF Next, RunnerStep

\* A result that failed is among the results.
LEMMA FailedAmong ==
  ASSUME NEW s \in Seq(Outcome), results' = results \o s, results \in Seq(Outcome), NEW i \in 1..Len(s), s[i] = "fail"
  PROVE  ~ AllSucceeded'
<1>1. Len(results) \in Nat /\ Len(s) \in Nat
  OBVIOUS
<1>2. Len(results') = Len(results) + Len(s) /\ results'[Len(results) + i] = s[i]
  BY <1>1, ConcatProperties
<1>3. Len(results) + i \in 1..Len(results')
  BY <1>1, <1>2
<1> QED
  BY <1>2, <1>3 DEF AllSucceeded

LEMMA LeftNext == Inv /\ Left /\ [Next]_vars => Left'
<1> SUFFICES ASSUME Inv, Left, [Next]_vars PROVE Left'
  OBVIOUS
<1>1. TypeOK /\ results \in Seq(Outcome)
  BY DEF Inv, TypeOK
\* A step before the end that writes nothing but what the run is.
<1>2. ASSUME pc \notin {"result", "exited", "crashed"}, runState' \in {runState, "failed", "paused"}, statusFile' = statusFile \/ WriteStatus,
             pc' = "final" => (~ AllSucceeded' \/ interrupted' \/ k' \notin Group), pc' \notin {"result", "exited"}
      PROVE  Left'
  BY <1>2 DEF Left, WriteStatus
<1>3. CASE Boot \/ StartGroup \/ EmptyFanout \/ EmptyFanoutAccepted \/ LeaveLoop
  BY <1>2, <1>3 DEF Boot, StartGroup, EmptyFanout, EmptyFanoutAccepted, LeaveLoop, AtGroup
<1>4. CASE (\E t \in Task : Retry(t)) \/ (\E t \in Task : Settle(t))
  BY <1>2, <1>4 DEF Retry, Settle
<1>5. CASE MaterializeFails \/ EmptyFanoutRejected
  <2>1. results' = Append(results, "fail") /\ pc \notin {"result", "exited", "crashed"} /\ pc' = "final" /\ runState' = "failed" /\ WriteStatus
    BY <1>5 DEF MaterializeFails, EmptyFanoutRejected, AtGroup
  <2>2. ~ AllSucceeded'
    <3>1. Len(results') \in Nat /\ Len(results') >= 1 /\ results'[Len(results')] = "fail"
      BY <1>1, <2>1
    <3> QED
      BY <3>1 DEF AllSucceeded
  <2> QED
    BY <1>2, <2>1, <2>2
<1>6. CASE WorktreeSetupFails
  <2> DEFINE n == Plan[k].width
             s == [i \in 1..n |-> "fail"]
  <2>1. n \in Nat /\ n >= 1 /\ k \in Group
    BY <1>6, PlanType, PlanAssumption DEF WorktreeSetupFails, AtGroup
  <2>2. results' = results \o s
    BY <1>6 DEF WorktreeSetupFails, Constantly
  <2> HIDE DEF n
  <2>3. s \in [1..n -> Outcome]
    BY DEF Outcome
  <2>4. s \in Seq(Outcome) /\ Len(s) = n
    BY <2>1, <2>3, FunctionIsSeq
  <2>5. 1 \in 1..Len(s) /\ s[1] = "fail"
    BY <2>1, <2>4
  <2> HIDE DEF s
  <2>6. ~ AllSucceeded'
    BY <1>1, <2>2, <2>4, <2>5, FailedAmong
  <2> QED
    BY <1>2, <1>6, <2>6 DEF WorktreeSetupFails, AtGroup
<1>7. CASE EndGroup \/ RejectCollection
  <2>1. GroupOutcomes \in Seq(Outcome) /\ pc = "group" /\ k \in Group /\ Width \in Nat /\ GroupOutcomes = [t \in 1..Width |-> OutcomeOf(t)]
    BY <1>7, GroupOutcomesType, PlanAssumption DEF EndGroup, RejectCollection, Inv, Shape, Width, GroupOutcomes
  <2>2. Len(GroupOutcomes) = Width
    <3>1. GroupOutcomes \in [1..Width -> Outcome]
      BY <2>1 DEF OutcomeOf, Outcome
    <3> QED
      BY <2>1, <3>1, FunctionIsSeq
  <2>3. CASE EndGroup
    <3>1. CASE GroupFailed
      <4>1. PICK i \in 1..Width : OutcomeOf(i) = "fail"
        BY <3>1 DEF GroupFailed
      <4>2. i \in 1..Len(GroupOutcomes) /\ GroupOutcomes[i] = "fail"
        BY <2>1, <2>2, <4>1
      <4>3. ~ AllSucceeded'
        BY <1>1, <2>1, <2>3, <4>2, FailedAmong DEF EndGroup
      <4> QED
        BY <1>2, <2>1, <2>3, <4>3 DEF EndGroup
    <3>2. CASE ~ GroupFailed
      BY <1>2, <2>3, <3>2 DEF EndGroup
    <3> QED
      BY <3>1, <3>2
  <2>4. CASE RejectCollection
    <3> DEFINE s == Append(GroupOutcomes, "fail")
    <3>1. s \in Seq(Outcome) /\ Len(s) = Width + 1 /\ s[Width + 1] = "fail"
      BY <2>1, <2>2 DEF Outcome
    <3>2. Width + 1 \in 1..Len(s) /\ results' = results \o s
      BY <2>1, <2>4, <3>1 DEF RejectCollection
    <3> HIDE DEF s
    <3>3. ~ AllSucceeded'
      BY <1>1, <3>1, <3>2, FailedAmong
    <3> QED
      BY <1>2, <2>4, <3>3 DEF RejectCollection
  <2> QED
    BY <1>7, <2>3, <2>4
<1>8. CASE Finalize
  <2>1. AllSucceeded' = AllSucceeded /\ interrupted' = interrupted /\ k' = k /\ runState' = FinalState /\ statusFile'.state = FinalState /\ pc = "final" /\ pc' = "result"
    BY <1>8 DEF Finalize, WriteStatus, AllSucceeded
  <2>2. FinalState = "complete" => AllSucceeded /\ ~ interrupted
    BY DEF FinalState
  <2> QED
    BY <2>1, <2>2 DEF Left, Group
<1>9. CASE WriteResult \/ ResultWriteFails \/ Crash
  BY <1>9 DEF WriteResult, ResultWriteFails, Crash, Alive, Left, AllSucceeded, Group
<1>10. CASE \E t \in Task : ChildCloses(t)
  BY <1>10 DEF ChildCloses, Left, AllSucceeded, Group
<1>11. CASE Interrupt
  BY <1>11 DEF Interrupt, WriteStatus, Left, Group
<1>12. CASE UNCHANGED vars
  BY <1>12 DEF vars, Left, AllSucceeded, Group
<1> QED
  BY <1>3, <1>4, <1>5, <1>6, <1>7, <1>8, <1>9, <1>10, <1>11, <1>12 DEF Next, RunnerStep

\* However wide the groups are and whatever their children, retries, refusals, fail-fast
\* and interrupts do: the plan is carried out in order, no child works behind a step that
\* status.json calls ended, and it says complete only of a plan that was carried out.
THEOREM PlanInOrder == Spec => []StepsInOrder
<1>1. Init => Workers /\ Front /\ Left /\ Quiet
  <2> SUFFICES ASSUME Init PROVE Workers /\ Front /\ Left /\ Quiet
    OBVIOUS
  <2>1. ASSUME NEW g \in Group PROVE AllSay(g, "pending")
    <3> DEFINE n == IF Plan[g].kind = "dynamic" THEN 1 ELSE Plan[g].width
    <3>1. n \in Nat
      BY PlanType, PlanAssumption
    <3>2. status[g] = [i \in 1..n |-> "pending"]
      BY DEF Init, Constantly
    <3> HIDE DEF n
    <3>3. [i \in 1..n |-> "pending"] \in [1..n -> StepStatus]
      BY DEF StepStatus
    <3> QED
      BY <3>1, <3>2, <3>3, FunctionIsSeq DEF AllSay
  <2> QED
    BY <2>1, PlanType DEF Init, Workers, Front, Left, Quiet, InFlight, Absent, Group
<1>2. Inv /\ Workers /\ Front /\ Left /\ Quiet => StepsInOrder
  <2> SUFFICES ASSUME Inv, Workers, Front, Left, Quiet PROVE StepsInOrder
    OBVIOUS
  <2>1. NoChildBehindAnEndedStep
    <3> SUFFICES ASSUME Alive, NEW t \in Live PROVE k \in Group /\ t <= Width /\ status[k][t] \in {"running", "paused"}
      BY DEF NoChildBehindAnEndedStep
    <3>1. t \in Task /\ child[t] # "idle"
      BY DEF Live
    <3>2. pc = "group"
      BY <3>1 DEF Alive, Quiet, InFlight
    <3>3. t < next /\ next <= Width + 1 /\ status[k][t] \in {"running", "paused"} /\ k \in Group
      BY <3>1, <3>2 DEF Workers, Inv, Shape
    <3>4. t \in Nat /\ next \in Nat /\ Width \in Nat
      <4>1. Width \in 1..MaxWidth /\ next \in 1..MaxWidth + 1 /\ t \in 1..MaxWidth
        BY <3>1, <3>3 DEF Task, Inv, TypeOK, Shape, Width
      <4> QED
        BY <4>1
    <3> QED
      BY <3>3, <3>4
  <2>2. \A g \in Group : g \in Nat /\ k \in Nat
    BY DEF Inv, TypeOK, Group
  <2>3. GroupsInOrder
    BY <2>2 DEF GroupsInOrder, Front, AllSay
  <2>4. CompleteMeansAllStepsComplete
    <3> SUFFICES ASSUME statusFile.state = "complete", NEW g \in Group PROVE AllSay(g, "complete")
      BY DEF CompleteMeansAllStepsComplete, AllSay
    <3>1. k \notin Group /\ k \in 1..Len(Plan) + 1
      BY DEF Left, Inv, TypeOK
    <3>2. g < k
      BY <3>1, PlanType DEF Group
    <3> QED
      BY <3>2 DEF Front
  <2> QED
    BY <2>1, <2>3, <2>4 DEF StepsInOrder
<1> QED
  BY InitInv, NextInv, QuietNext, WorkersNext, FrontNext, LeftNext, <1>1, <1>2, PTL DEF Spec

-----------------------------------------------------------------------------
\* Everything every plan keeps, whatever its children do.
THEOREM RunnerIsHeld == Spec => []RunnerHolds
  BY TypeCorrect, WithinLimit, NoChildAtTheEnd, FilesAgree, InterruptPrevails, PTL DEF RunnerHolds
=============================================================================
