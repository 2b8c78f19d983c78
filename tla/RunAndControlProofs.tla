------------------------- MODULE RunAndControlProofs -------------------------
(***************************************************************************)
(* Theorems about one background run: how its runner watches the children  *)
(* (ActivityControl), for any plan, any number of files and any            *)
(* thresholds; and how the hosts see it (AsyncRun), for any number of      *)
(* reconciling processes and any number of crashes and announcements.      *)
(*                                                                         *)
(* The inductive invariant Inv of ActivityControl adds to the properties   *)
(* that events.jsonl holds exactly the claimed remarks, each once          *)
(* (LogOfClaims), that a long-running remark is the only one of its step   *)
(* and marks it (LongOnce), and that a step which has not started has no   *)
(* activity (PendingIsQuiet). AsyncInv is described where its part begins. *)
(***************************************************************************)
EXTENDS ActivityControl, AsyncRun, SequenceTheorems, TLAPS

Types ==
  /\ group \in 1..Groups + 1
  /\ status \in [Step -> {"pending", "running", "paused", "ended"}]
  /\ runState \in {"running", "paused", "ended"}
  /\ activity \in [Step -> Activity]
  /\ runActivity \in Activity /\ current \in Activity
  /\ noticed \subseteq Step
  /\ silent \in [Step -> BOOLEAN]
  /\ due \in [Step -> LongRunning \cup {None}]

ToolTypes ==
  /\ pending \in [Step -> [mutates: BOOLEAN, path: Paths \cup {NoPath}]]
  /\ failures \in [Step -> [consecutive: 0..MaxRetell, path: Paths \cup {NoPath},
                             repeated: 0..MaxRetell, old: BOOLEAN]]

LogOfClaims ==
  /\ claimed \subseteq Step \X Reason
  /\ log = [e \in Step \X Reason |-> IF e \in claimed THEN 1 ELSE 0]

LongOnce ==
  \A s \in Step : \A q, r \in LongRunning :
    <<s, q>> \in claimed => s \in noticed /\ (<<s, r>> \in claimed => q = r)

Reported ==
  "needs_attention" \in NotifyOn =>
    \A s \in Step : activity[s] = "needs_attention" =>
      <<s, "idle">> \in claimed \/ <<s, "tool_failures">> \in claimed

PendingIsQuiet == \A s \in Step : status[s] = "pending" => activity[s] = None

Inv == /\ Types /\ ToolTypes /\ LogOfClaims /\ LongOnce /\ Reported /\ PendingIsQuiet
       /\ FileIsCurrent /\ RunAttentionHasAStep /\ RepeatsWithinFailures

USE DEF Activity, None

\* What the invariant says of the properties.
LEMMA InvSuffices == Inv => /\ TypeOK /\ ReportedOnce /\ AttentionIsReported
                            /\ FileIsCurrent /\ RunAttentionHasAStep /\ RepeatsWithinFailures
<1> SUFFICES ASSUME Inv
             PROVE  TypeOK /\ ReportedOnce /\ AttentionIsReported
  BY DEF Inv
<1> USE ControlAssumption DEF Inv
<1>1. \A s \in Step, r \in Reason :
        <<s, r>> \in Step \X Reason /\ log[<<s, r>>] = IF <<s, r>> \in claimed THEN 1 ELSE 0
  BY DEF LogOfClaims
<1>2. Attention \subseteq Reason /\ LongRunning \subseteq Reason
  BY DEF Reason
<1>3. TypeOK
  <2>1. log \in [Step \X Reason -> 0..MaxRetell]
    BY DEF LogOfClaims
  <2>2. file \in [run: Activity, steps: [Step -> Activity]]
    BY DEF FileIsCurrent, Types
  <2> QED
    BY <2>1, <2>2 DEF Types, ToolTypes, LogOfClaims, TypeOK
<1>4. ReportedOnce
  <2>1. ASSUME NEW s \in Step, NEW q \in LongRunning, NEW r \in LongRunning, q # r
        PROVE  log[<<s, q>>] + log[<<s, r>>] <= 1
    <3>1. ~(<<s, q>> \in claimed /\ <<s, r>> \in claimed)
      BY <2>1 DEF LongOnce
    <3> QED
      BY <1>1, <1>2, <3>1
  <2>2. ASSUME NEW s \in Step, NEW r \in Attention PROVE log[<<s, r>>] <= 1
    <3>1. log[<<s, r>>] \in {0, 1}
      BY <1>1, <1>2
    <3> QED
      BY <3>1
  <2> QED
    BY <2>1, <2>2 DEF ReportedOnce
<1>5. AttentionIsReported
  <2>1. "idle" \in Reason /\ "tool_failures" \in Reason
    BY DEF Reason, Attention
  <2> QED
    BY <1>1, <2>1 DEF Reported, AttentionIsReported
<1> QED
  BY <1>3, <1>4, <1>5

\* AppendControlEvents writes what has not been claimed, and claims it.
LEMMA AppendLog ==
  ASSUME LogOfClaims, NEW E \in SUBSET (Step \X Reason), AppendControlEvents(E)
  PROVE  /\ LogOfClaims'
         /\ claimed \subseteq claimed' /\ claimed' \subseteq claimed \cup E
         /\ \A e \in E : TypeOf(e[2]) \in NotifyOn => e \in claimed'
<1> USE ControlAssumption DEF LogOfClaims, AppendControlEvents, New
<1>1. claimed' = claimed \cup New(E) /\ New(E) \subseteq E
  OBVIOUS
<1>2. Capped(0 + 1) = 1
  BY DEF Capped
<1>3. ASSUME NEW e \in Step \X Reason
      PROVE  (IF e \in New(E) THEN Capped(log[e] + 1) ELSE log[e])
               = (IF e \in claimed' THEN 1 ELSE 0)
  <2>1. CASE e \in New(E)
    <3>1. log[e] = 0 /\ e \in claimed'
      BY <2>1, <1>1
    <3> QED
      BY <2>1, <3>1, <1>2
  <2>2. CASE e \notin New(E)
    BY <2>2, <1>1
  <2> QED
    BY <2>1, <2>2
<1>4. log' = [e \in Step \X Reason |-> IF e \in claimed' THEN 1 ELSE 0]
  BY <1>3
<1>5. \A e \in E : TypeOf(e[2]) \in NotifyOn => e \in claimed'
  BY <1>1
<1> QED
  BY <1>1, <1>4, <1>5

\* A failure counted for a path is counted for the step.
LEMMA RecordedType ==
  ASSUME NEW f \in [consecutive: 0..MaxRetell, path: Paths \cup {NoPath},
                    repeated: 0..MaxRetell, old: BOOLEAN],
         f.repeated <= f.consecutive,
         NEW p \in Paths \cup {NoPath}
  PROVE  /\ Recorded(f, p) \in [consecutive: 0..MaxRetell, path: Paths \cup {NoPath},
                                repeated: 0..MaxRetell, old: BOOLEAN]
         /\ Recorded(f, p).repeated <= Recorded(f, p).consecutive
<1> DEFINE g == IF f.consecutive = 0 \/ f.old THEN NoFailures ELSE f
<1>1. /\ g \in [consecutive: 0..MaxRetell, path: Paths \cup {NoPath},
                repeated: 0..MaxRetell, old: BOOLEAN]
      /\ g.repeated <= g.consecutive
  BY ControlAssumption DEF NoFailures
<1>2. /\ Recorded(f, p).consecutive = Capped(g.consecutive + 1)
      /\ Recorded(f, p).repeated = IF p = NoPath THEN g.repeated
                                   ELSE IF p = g.path THEN Capped(g.repeated + 1) ELSE 1
      /\ Recorded(f, p).path \in Paths \cup {NoPath} /\ Recorded(f, p).old = FALSE
      /\ Recorded(f, p) = [consecutive |-> Recorded(f, p).consecutive,
                           path |-> Recorded(f, p).path,
                           repeated |-> Recorded(f, p).repeated, old |-> Recorded(f, p).old]
  BY <1>1 DEF Recorded
<1> HIDE DEF g
<1>3. \A m, n \in 0..MaxRetell : m <= n =>
        /\ Capped(m + 1) \in 0..MaxRetell /\ Capped(m + 1) <= Capped(n + 1)
        /\ m <= Capped(n + 1) /\ 1 <= Capped(n + 1)
  BY ControlAssumption DEF Capped
<1>4. g.repeated \in 0..MaxRetell /\ g.consecutive \in 0..MaxRetell
  BY <1>1
<1>5. Recorded(f, p).repeated \in 0..MaxRetell /\ Recorded(f, p).consecutive \in 0..MaxRetell
      /\ Recorded(f, p).repeated <= Recorded(f, p).consecutive
  BY <1>1, <1>2, <1>3, <1>4, ControlAssumption
<1> QED
  BY <1>2, <1>5

LEMMA InitInv == Init => Inv
<1> SUFFICES ASSUME Init PROVE Inv
  OBVIOUS
<1> USE ControlAssumption DEF Init
<1>1. Types
  BY DEF Types, Quiet
<1>2. ToolTypes /\ RepeatsWithinFailures
  BY DEF ToolTypes, NoTool, NoFailures, RepeatsWithinFailures
<1>3. LogOfClaims /\ LongOnce /\ Reported /\ PendingIsQuiet /\ FileIsCurrent /\ RunAttentionHasAStep
  BY DEF LogOfClaims, LongOnce, Reported, PendingIsQuiet, FileIsCurrent, RunAttentionHasAStep, Quiet
<1> QED
  BY <1>1, <1>2, <1>3 DEF Inv

\* The steps of the plan: activity is only ever cleared.
LEMMA PlanInv ==
  ASSUME Inv, StartGroup \/ NextGroup \/ Interrupt \/ EndRun
  PROVE  Inv'
<1> USE ControlAssumption DEF Inv
<1>1. CASE StartGroup
  <2>1. /\ \A s \in Step : activity'[s] = activity[s] \/ activity'[s] = None
        /\ \A s \in Step : activity[s] # None => activity'[s] = activity[s]
    BY <1>1 DEF StartGroup, Types, PendingIsQuiet, StepsOf
  <2>2. Types' /\ ToolTypes' /\ RepeatsWithinFailures' /\ LogOfClaims'
    BY <1>1 DEF StartGroup, Types, ToolTypes, RepeatsWithinFailures, LogOfClaims, Quiet
  <2>3. LongOnce' /\ Reported'
    BY <1>1, <2>1 DEF StartGroup, LongOnce, Reported
  <2>4. PendingIsQuiet'
    BY <1>1 DEF StartGroup, Types, PendingIsQuiet
  <2>5. FileIsCurrent'
    BY <1>1 DEF StartGroup, WriteStatus, FileIsCurrent
  <2>6. RunAttentionHasAStep'
    BY <1>1, <2>1 DEF StartGroup, RunAttentionHasAStep
  <2> QED
    BY <2>2, <2>3, <2>4, <2>5, <2>6
<1>2. CASE NextGroup
  BY <1>2 DEF NextGroup, Types, ToolTypes, LogOfClaims, LongOnce, Reported, PendingIsQuiet,
              FileIsCurrent, RunAttentionHasAStep, RepeatsWithinFailures
<1>3. CASE Interrupt
  <2>1. Types' /\ ToolTypes' /\ RepeatsWithinFailures' /\ LogOfClaims'
    BY <1>3 DEF Interrupt, Types, ToolTypes, RepeatsWithinFailures, LogOfClaims
  <2>2. LongOnce' /\ Reported' /\ PendingIsQuiet' /\ FileIsCurrent' /\ RunAttentionHasAStep'
    BY <1>3 DEF Interrupt, Running, WriteStatus, Types, LongOnce, Reported, PendingIsQuiet,
                FileIsCurrent, RunAttentionHasAStep
  <2> QED
    BY <2>1, <2>2
<1>4. CASE EndRun
  BY <1>4 DEF EndRun, WriteStatus, Types, ToolTypes, LogOfClaims, LongOnce, Reported,
              PendingIsQuiet, FileIsCurrent, RunAttentionHasAStep, RepeatsWithinFailures
<1> QED
  BY <1>1, <1>2, <1>3, <1>4

LEMMA StepEndsInv == ASSUME Inv, NEW s \in Step, StepEnds(s) PROVE Inv'
<1> USE ControlAssumption DEF Inv
<1>1. PICK E \in {{}, {<<s, "completion_guard">>}} : AppendControlEvents(E)
  BY DEF StepEnds
<1>2. E \in SUBSET (Step \X Reason)
  BY <1>1 DEF Reason, Attention
<1>3. LogOfClaims' /\ claimed \subseteq claimed' /\ claimed' \subseteq claimed \cup E
  BY <1>1, <1>2, AppendLog
<1>4. \A h \in Step, r \in LongRunning : <<h, r>> \in claimed' => <<h, r>> \in claimed
  BY <1>1, <1>3 DEF LongRunning
<1>5. Types' /\ ToolTypes' /\ RepeatsWithinFailures'
  BY DEF StepEnds, Types, ToolTypes, RepeatsWithinFailures
<1>6. LongOnce' /\ Reported'
  BY <1>3, <1>4 DEF StepEnds, LongOnce, Reported
<1>7. PendingIsQuiet' /\ FileIsCurrent' /\ RunAttentionHasAStep'
  BY DEF StepEnds, WriteStatus, Types, PendingIsQuiet, FileIsCurrent, RunAttentionHasAStep
<1> QED
  BY <1>3, <1>5, <1>6, <1>7

LEMMA PassingInv == ASSUME Inv, Passing PROVE Inv'
<1> USE ControlAssumption DEF Inv, stepVars
<1>1. PICK s \in Step : FallSilent(s) \/ OutputGrows(s) \/ TimeIsUp(s) \/ WindowPasses(s)
  BY DEF Passing
<1>2. Types'
  BY <1>1 DEF FallSilent, OutputGrows, TimeIsUp, WindowPasses, Types, LongRunning
<1>3. ToolTypes' /\ RepeatsWithinFailures'
  <2>1. CASE WindowPasses(s)
    <3> DEFINE Failures == [consecutive: 0..MaxRetell, path: Paths \cup {NoPath},
                            repeated: 0..MaxRetell, old: BOOLEAN]
    <3>1. failures \in [Step -> Failures] /\ failures[s] \in Failures
      BY DEF ToolTypes
    <3>2. failures' = [failures EXCEPT ![s] = [failures[s] EXCEPT !.old = TRUE]]
          /\ pending' = pending
      BY <2>1 DEF WindowPasses
    <3>3. [failures[s] EXCEPT !.old = TRUE] \in Failures
      BY <3>1
    <3>4. failures' \in [Step -> Failures]
      BY <3>1, <3>2, <3>3
    <3>5. \A h \in Step : /\ failures'[h].repeated = failures[h].repeated
                          /\ failures'[h].consecutive = failures[h].consecutive
      BY <3>1, <3>2
    <3> QED
      BY <3>2, <3>4, <3>5 DEF ToolTypes, RepeatsWithinFailures
  <2>2. CASE FallSilent(s) \/ OutputGrows(s) \/ TimeIsUp(s)
    BY <2>2 DEF FallSilent, OutputGrows, TimeIsUp, ToolTypes, RepeatsWithinFailures
  <2> QED
    BY <1>1, <2>1, <2>2
<1>4. LogOfClaims' /\ LongOnce' /\ Reported' /\ PendingIsQuiet' /\ FileIsCurrent'
      /\ RunAttentionHasAStep'
  BY <1>1 DEF FallSilent, OutputGrows, TimeIsUp, WindowPasses, LogOfClaims, LongOnce, Reported,
              PendingIsQuiet, FileIsCurrent, RunAttentionHasAStep
<1> QED
  BY <1>2, <1>3, <1>4

\* What every event of a child ends with.  Its remarks E are about the step that
\* a says needs attention, and the run's activity r is as before or the same.
LEMMA AfterEventInv ==
  ASSUME Inv, NEW s \in Step, NEW a \in Activity, NEW r \in Activity,
         NEW E \in SUBSET {<<s, "tool_failures">>},
         AfterEvent(s, a, r, E), Heard(s),
         \/ a = activity[s] /\ r = runActivity
         \/ a = "needs_attention" /\ r = "needs_attention" /\ E # {},
         due' \in [Step -> LongRunning \cup {None}],
         ToolTypes', RepeatsWithinFailures'
  PROVE  Inv'
<1> USE ControlAssumption DEF Inv, stepVars
<1> DEFINE long == BecomesLong(s, a)
           L == LongEvents(IF long THEN {s} ELSE {})
<1>1. long => due'[s] \in LongRunning /\ s \notin noticed /\ a # "needs_attention"
  BY DEF BecomesLong
<1>2. L = IF long THEN {<<s, due'[s]>>} ELSE {}
  BY DEF LongEvents
<1>3. noticed' = IF long THEN noticed \cup {s} ELSE noticed
  BY DEF AfterEvent
<1>4. activity' = [activity EXCEPT ![s] = IF long THEN "active_long_running" ELSE a]
      /\ runActivity' = (IF long /\ r # "needs_attention" THEN "active_long_running" ELSE r)
      /\ status' = status /\ runState' = runState /\ group' = group /\ current' = current
      /\ silent' = [silent EXCEPT ![s] = FALSE]
  BY DEF AfterEvent
<1>5. AppendControlEvents(E \cup L)
  BY DEF AfterEvent
<1> HIDE DEF long, L
<1>6. E \cup L \in SUBSET (Step \X Reason)
  BY <1>1, <1>2 DEF Reason, Attention
<1>7. /\ LogOfClaims'
      /\ claimed \subseteq claimed' /\ claimed' \subseteq claimed \cup E \cup L
      /\ \A e \in E : TypeOf(e[2]) \in NotifyOn => e \in claimed'
  BY <1>5, <1>6, AppendLog
<1>8. Types'
  BY <1>3, <1>4 DEF Types
<1>9. LongOnce'
  <2>1. \A h \in Step, q \in LongRunning : <<h, q>> \in claimed' =>
          <<h, q>> \in claimed \/ (long /\ h = s /\ q = due'[s])
    BY <1>2, <1>7 DEF LongRunning
  <2> QED
    BY <1>1, <1>3, <2>1 DEF LongOnce
<1>10. Reported'
  <2>1. "needs_attention" \in NotifyOn /\ E # {} => <<s, "tool_failures">> \in claimed'
    <3>1. TypeOf("tool_failures") = "needs_attention" /\ <<s, "tool_failures">>[2] = "tool_failures"
      BY DEF TypeOf, Attention
    <3> QED
      BY <1>7, <3>1
  <2>2. \A h \in Step : activity'[h] = "needs_attention" =>
          activity[h] = "needs_attention" \/ (h = s /\ E # {})
    BY <1>4 DEF Types
  <2> QED
    BY <1>7, <2>1, <2>2 DEF Reported
<1>11. PendingIsQuiet' /\ FileIsCurrent'
  BY <1>4 DEF AfterEvent, WriteStatus, Heard, Types, PendingIsQuiet, FileIsCurrent
<1>12. RunAttentionHasAStep'
  <2>1. \A h \in Step : activity[h] = "needs_attention" => activity'[h] = "needs_attention"
    BY <1>1, <1>4 DEF Types
  <2>2. runActivity' = "needs_attention" => r = "needs_attention"
    BY <1>4
  <2>3. E # {} /\ a = "needs_attention" => activity'[s] = "needs_attention"
    BY <1>1, <1>4 DEF Types
  <2> QED
    BY <2>1, <2>2, <2>3 DEF RunAttentionHasAStep
<1> QED
  BY <1>7, <1>8, <1>9, <1>10, <1>11, <1>12

\* An event that has no remark of its own.
LEMMA QuietEventInv ==
  ASSUME Inv, NEW s \in Step, AfterEvent(s, activity[s], runActivity, {}), Heard(s),
         due' \in [Step -> LongRunning \cup {None}],
         ToolTypes', RepeatsWithinFailures'
  PROVE  Inv'
<1>1. activity[s] \in Activity /\ runActivity \in Activity
  BY DEF Inv, Types
<1>2. PICK a \in Activity, r \in Activity : a = activity[s] /\ r = runActivity
  BY <1>1
<1>3. PICK E \in SUBSET {<<s, "tool_failures">>} : E = {}
  OBVIOUS
<1>4. AfterEvent(s, a, r, E)
  BY <1>2, <1>3 DEF AfterEvent, BecomesLong
<1> QED
  BY <1>2, <1>4, AfterEventInv

LEMMA ChildEventInv == ASSUME Inv, ChildEvent PROVE Inv'
<1> USE ControlAssumption DEF Inv
<1>1. PICK s \in Step : ToolStarts(s) \/ ToolFails(s) \/ ToolSucceeds(s) \/ TurnEnds(s)
  BY DEF ChildEvent
<1> DEFINE Failures == [consecutive: 0..MaxRetell, path: Paths \cup {NoPath},
                        repeated: 0..MaxRetell, old: BOOLEAN]
           Tools == [mutates: BOOLEAN, path: Paths \cup {NoPath}]
<1>2. NoTool \in Tools /\ NoFailures \in Failures
  BY DEF NoTool, NoFailures
<1>3. /\ pending \in [Step -> Tools] /\ failures \in [Step -> Failures]
      /\ due \in [Step -> LongRunning \cup {None}] /\ activity[s] \in Activity
      /\ runActivity \in Activity
      /\ \A h \in Step : failures[h].repeated <= failures[h].consecutive
  BY DEF ToolTypes, Types, RepeatsWithinFailures
<1>4. CASE ToolStarts(s)
  <2>1. PICK tool \in [mutates: {TRUE}, path: Paths \cup {NoPath}] \cup {NoTool} :
          pending' = [pending EXCEPT ![s] = tool]
    BY <1>4 DEF ToolStarts
  <2>2. tool \in Tools
    BY <1>2
  <2>3. ToolTypes' /\ RepeatsWithinFailures' /\ due' = due
    BY <1>3, <1>4, <2>1, <2>2 DEF ToolStarts, ToolTypes, RepeatsWithinFailures
  <2>4. Heard(s) /\ AfterEvent(s, activity[s], runActivity, {})
    BY <1>4 DEF ToolStarts
  <2> QED
    BY <1>3, <2>3, <2>4, QuietEventInv
<1>5. CASE TurnEnds(s)
  <2>1. PICK d \in {due[s]} \cup (IF due[s] = None THEN {"turn_threshold"} ELSE {}) :
          due' = [due EXCEPT ![s] = d]
    BY <1>5 DEF TurnEnds
  <2>2. d \in LongRunning \cup {None}
    BY <1>3 DEF LongRunning
  <2>3. due' \in [Step -> LongRunning \cup {None}]
    BY <1>3, <2>1, <2>2
  <2>4. ToolTypes' /\ RepeatsWithinFailures'
    BY <1>5 DEF TurnEnds, ToolTypes, RepeatsWithinFailures
  <2>5. Heard(s) /\ AfterEvent(s, activity[s], runActivity, {})
    BY <1>5 DEF TurnEnds
  <2> QED
    BY <1>3, <2>3, <2>4, <2>5, QuietEventInv
<1>6. CASE ToolSucceeds(s)
  <2>1. pending' = [pending EXCEPT ![s] = NoTool]
        /\ failures' = [failures EXCEPT ![s] = IF pending[s].mutates THEN NoFailures ELSE failures[s]]
    BY <1>6 DEF ToolSucceeds
  <2>2. pending' \in [Step -> Tools] /\ failures' \in [Step -> Failures]
    BY <1>2, <1>3, <2>1
  <2>3. \A h \in Step : failures'[h].repeated <= failures'[h].consecutive
    BY <1>3, <2>1 DEF NoFailures
  <2>4. Heard(s) /\ due' = due /\ AfterEvent(s, activity[s], runActivity, {})
    BY <1>6 DEF ToolSucceeds
  <2>5. ToolTypes' /\ RepeatsWithinFailures'
    BY <2>2, <2>3 DEF ToolTypes, RepeatsWithinFailures
  <2> QED
    BY <1>3, <2>4, <2>5, QuietEventInv
<1>7. CASE ToolFails(s)
  <2>1. pending' = [pending EXCEPT ![s] = NoTool]
        /\ failures' = [failures EXCEPT ![s] = Recorded(failures[s], pending[s].path)]
    BY <1>7 DEF ToolFails
  <2>2. /\ Recorded(failures[s], pending[s].path) \in Failures
        /\ Recorded(failures[s], pending[s].path).repeated
              <= Recorded(failures[s], pending[s].path).consecutive
    <3>1. failures[s] \in Failures /\ pending[s].path \in Paths \cup {NoPath}
      BY <1>3
    <3> QED
      BY <1>3, <3>1, RecordedType
  <2>3. pending' \in [Step -> Tools] /\ failures' \in [Step -> Failures]
    BY <1>2, <1>3, <2>1, <2>2
  <2>4. \A h \in Step : failures'[h].repeated <= failures'[h].consecutive
    BY <1>3, <2>1, <2>2
  <2>5. ToolTypes' /\ RepeatsWithinFailures'
    BY <2>3, <2>4 DEF ToolTypes, RepeatsWithinFailures
  <2>6. Heard(s) /\ due' = due
    BY <1>7 DEF ToolFails
  <2>7. CASE AfterEvent(s, activity[s], runActivity, {})
    BY <1>3, <2>5, <2>6, <2>7, QuietEventInv
  <2>8. CASE AfterEvent(s, "needs_attention", "needs_attention", {<<s, "tool_failures">>})
    <3>1. "needs_attention" \in Activity
      OBVIOUS
    <3> QED
      BY <1>3, <2>5, <2>6, <2>8, <3>1, AfterEventInv
  <2> QED
    BY <1>7, <2>7, <2>8 DEF ToolFails
<1> QED
  BY <1>1, <1>4, <1>5, <1>6, <1>7

\* The timer: steps that fell silent need attention, others may run long.
LEMMA TickInv == ASSUME Inv, Tick PROVE Inv'
<1> USE ControlAssumption DEF Inv
<1> DEFINE E == {<<s, "idle">> : s \in NewlyIdle} \cup LongEvents(Long)
<1>1. /\ Idle \subseteq Step /\ Long \subseteq Step /\ NewlyIdle \subseteq Idle
      /\ \A s \in Idle : s \in NewlyIdle \/ activity[s] = "needs_attention"
      /\ \A s \in Idle : status[s] = "running"
  BY DEF Idle, Long, NewlyIdle, Running
<1>2. due' = due /\ \A s \in Long : /\ due'[s] \in LongRunning /\ s \notin noticed
                                    /\ activity[s] # "needs_attention" /\ status[s] = "running"
  BY DEF Tick, Types, Long, BecomesLong, Running
<1>3. /\ activity' = [s \in Step |-> IF s \in Idle THEN "needs_attention"
                        ELSE IF s \in Long THEN "active_long_running" ELSE activity[s]]
      /\ noticed' = noticed \cup Long /\ current' = RunOf(activity')
      /\ runActivity' = IF RunOf(activity') # current THEN RunOf(activity') ELSE RunBefore
      /\ status' = status /\ runState' = runState /\ group' = group /\ silent' = silent
      /\ pending' = pending /\ failures' = failures
  BY DEF Tick, stepVars
<1>4. E \in SUBSET (Step \X Reason) /\ AppendControlEvents(E)
  <2>1. {<<s, "idle">> : s \in NewlyIdle} \subseteq Step \X Reason
    BY <1>1 DEF Reason, Attention
  <2>2. LongEvents(Long) \subseteq Step \X Reason
    BY <1>1, <1>2 DEF LongEvents, Reason
  <2> QED
    BY <2>1, <2>2 DEF Tick
<1>5. \A e \in E : (\E s \in NewlyIdle : e = <<s, "idle">>)
                    \/ (\E s \in Long : e = <<s, due'[s]>>)
  <2>1. LongEvents(Long) = {<<s, due'[s]>> : s \in Long}
    BY DEF LongEvents
  <2> QED
    BY <2>1
<1>6. \A s \in NewlyIdle : <<s, "idle">> \in E
  OBVIOUS
<1> HIDE DEF E
<1>7. /\ LogOfClaims'
      /\ claimed \subseteq claimed' /\ claimed' \subseteq claimed \cup E
      /\ \A e \in E : TypeOf(e[2]) \in NotifyOn => e \in claimed'
  BY <1>4, AppendLog
<1>8. \A act : RunOf(act) \in Activity /\ (RunOf(act) = "needs_attention" =>
                                             \E s \in Step : act[s] = "needs_attention")
  BY DEF RunOf
<1>9. Types'
  <2>1. RunBefore \in Activity
    BY DEF RunBefore, Types
  <2> QED
    BY <1>1, <1>2, <1>3, <1>8, <2>1 DEF Types
<1>10. ToolTypes' /\ RepeatsWithinFailures'
  BY <1>3 DEF ToolTypes, RepeatsWithinFailures
<1>11. LongOnce'
  <2>1. \A h \in Step, q \in LongRunning : <<h, q>> \in claimed' =>
          <<h, q>> \in claimed \/ (h \in Long /\ q = due'[h])
    BY <1>5, <1>7 DEF LongRunning
  <2> QED
    BY <1>2, <1>3, <2>1 DEF LongOnce
<1>12. Reported'
  <2>1. \A s \in NewlyIdle : "needs_attention" \in NotifyOn => <<s, "idle">> \in claimed'
    <3>1. TypeOf("idle") = "needs_attention" /\ \A s : <<s, "idle">>[2] = "idle"
      BY DEF TypeOf, Attention
    <3> QED
      BY <1>6, <1>7, <3>1
  <2>2. \A s \in Step : activity'[s] = "needs_attention" =>
          s \in NewlyIdle \/ activity[s] = "needs_attention"
    BY <1>1, <1>3
  <2> QED
    BY <1>7, <2>1, <2>2 DEF Reported
<1>13. PendingIsQuiet'
  BY <1>1, <1>2, <1>3 DEF PendingIsQuiet
<1>14. FileIsCurrent'
  <2>1. CASE NewlyIdle # {} \/ Long # {} \/ current' # current
    BY <2>1 DEF Tick, WriteStatus, FileIsCurrent
  <2>2. CASE NewlyIdle = {} /\ Long = {} /\ current' = current
    <3>1. file' = file
      BY <2>2 DEF Tick
    <3>2. activity' = activity
      BY <1>1, <1>3, <2>2 DEF Types
    <3>3. runActivity' = runActivity
      BY <1>3, <2>2 DEF RunBefore
    <3> QED
      BY <3>1, <3>2, <3>3 DEF FileIsCurrent
  <2> QED
    BY <2>1, <2>2
<1>15. RunAttentionHasAStep'
  <2>1. \A s \in Step : activity[s] = "needs_attention" => activity'[s] = "needs_attention"
    BY <1>2, <1>3
  <2>2. RunBefore = "needs_attention" => runActivity = "needs_attention"
    BY DEF RunBefore
  <2> QED
    BY <1>3, <1>8, <2>1, <2>2 DEF RunAttentionHasAStep
<1> QED
  BY <1>7, <1>9, <1>10, <1>11, <1>12, <1>13, <1>14, <1>15

LEMMA StepInv == Inv /\ [Next]_vars => Inv'
<1> SUFFICES ASSUME Inv, [Next]_vars PROVE Inv'
  OBVIOUS
<1>1. CASE Next
  BY <1>1, PlanInv, StepEndsInv, PassingInv, ChildEventInv, TickInv DEF Next
<1>2. CASE UNCHANGED vars
  BY <1>2 DEF vars, stepVars, Inv, Types, ToolTypes, LogOfClaims, LongOnce, Reported,
              PendingIsQuiet, FileIsCurrent, RunAttentionHasAStep, RepeatsWithinFailures
<1> QED
  BY <1>1, <1>2

LEMMA Invariance == Spec => []Inv
  BY InitInv, StepInv, PTL DEF Spec

\* Every variable of the control layer keeps its type.
THEOREM TypeCorrect == Spec => []TypeOK
  BY Invariance, InvSuffices, PTL

\* No remark about a step is appended to events.jsonl twice, and at most one
\* remark that it runs long, whatever timer, events and interrupt do.
THEOREM RemarksOnce == Spec => []ReportedOnce
  BY Invariance, InvSuffices, PTL

\* Whenever a step needs attention, the event that says so has been appended.
THEOREM AttentionReported == Spec => []AttentionIsReported
  BY Invariance, InvSuffices, PTL

\* status.json is what the runner holds, although a tick skips the write when it
\* noticed nothing.
THEOREM FileCurrent == Spec => []FileIsCurrent
  BY Invariance, InvSuffices, PTL

\* The run needs attention only while a step does.
THEOREM RunAttentionJustified == Spec => []RunAttentionHasAStep
  BY Invariance, InvSuffices, PTL

\* The count for one path never overtakes the count of all failures.
THEOREM RepeatsBounded == Spec => []RepeatsWithinFailures
  BY Invariance, InvSuffices, PTL

\* A step that needs attention stops doing so only by an interrupt.
THEOREM AttentionKept == Spec => AttentionNotDowngraded
<1> DEFINE Kept == \A s \in Step :
             activity[s] = "needs_attention" /\ activity'[s] # "needs_attention"
               => activity'[s] = None /\ status'[s] = "paused"
<1>1. ASSUME Inv, StartGroup \/ NextGroup \/ Interrupt \/ EndRun PROVE Kept
  BY <1>1 DEF Inv, Types, PendingIsQuiet, StartGroup, StepsOf, NextGroup, Interrupt, EndRun
<1>2. ASSUME Inv, (\E s \in Step : StepEnds(s)) \/ Passing PROVE Kept
  BY <1>2 DEF StepEnds, Passing, FallSilent, OutputGrows, TimeIsUp, WindowPasses
<1>3. ASSUME Inv, Tick PROVE Kept
  BY <1>3 DEF Tick, Long, BecomesLong
<1>4. ASSUME Inv, ChildEvent PROVE Kept
  <2>1. ASSUME NEW s \in Step, NEW r, NEW E, NEW a,
               AfterEvent(s, a, r, E), a \in {activity[s], "needs_attention"}
        PROVE  Kept
    BY <1>4, <2>1 DEF AfterEvent, BecomesLong, Inv, Types
  <2> QED
    BY <1>4, <2>1 DEF ChildEvent, ToolStarts, ToolFails, ToolSucceeds, TurnEnds
<1>5. Inv /\ [Next]_vars => [Kept]_vars
  BY <1>1, <1>2, <1>3, <1>4 DEF Next
<1> QED
  BY <1>5, Invariance, PTL DEF Spec, AttentionNotDowngraded

\* For any plan, remarks are made once, none is withheld, and status.json follows.
THEOREM RemarksAreHeld == Spec => []RemarksHold
  BY TypeCorrect, RemarksOnce, AttentionReported, FileCurrent, RunAttentionJustified,
     RepeatsBounded, PTL DEF RemarksHold

-------------------------------------------------------------------------------
(***************************************************************************)
(* AsyncRun. AsyncInv adds to AsyncTypeOK that a run which ended has a     *)
(* verdict and that only an age of 24 hours makes a reader give up a run   *)
(* that lives (Shape), that a fresh live run is untouched, and that every  *)
(* `complete` or `paused` found anywhere is the runner's own (Honest).     *)
(***************************************************************************)

USE DEF Reader

Shape ==
  /\ phase = "ended" => state \in Verdict
  /\ phase = "starting" => state = "running"
  /\ stale => wasStale
  /\ \A r \in Rec : rec[r].old => wasStale

Honest ==
  /\ \A i \in 1..Len(announced) :
       announced[i] # "failed" => phase = "gone" /\ announced[i] = state
  /\ resultState \in {"complete", "paused"} => phase = "gone" /\ resultState = state
  /\ statusState \in {"complete", "paused"} => statusState = state

AsyncInv == AsyncTypeOK /\ Shape /\ LiveRunnerUntouched /\ Honest

LEMMA AsyncInitInv == AsyncInit => AsyncInv
<1> SUFFICES ASSUME AsyncInit PROVE AsyncInv
  OBVIOUS
<1>1. AsyncTypeOK
  <2>1. announced = <<>> /\ announced \in Seq(Verdict) /\ Len(announced) = 0
    BY DEF AsyncInit
  <2>2. rec \in [Rec -> Reader]
    BY DEF AsyncInit, IdleReader
  <2>3. crashes \in 0..MaxCrashes
    BY AsyncRunAssumption DEF AsyncInit
  <2>4. phase \in Phase /\ state \in Verdict \cup {"running"}
    BY DEF AsyncInit, LifecycleInit, Phase
  <2>5. 0 <= MaxAnnounced
    BY AsyncRunAssumption
  <2>6. \A r \in Rec : rec[r].at = "idle"
    BY DEF AsyncInit, IdleReader
  <2> QED
    BY <2>1, <2>2, <2>3, <2>4, <2>5, <2>6 DEF AsyncInit, LifecycleInit, AsyncTypeOK
<1>2. Shape /\ LiveRunnerUntouched /\ Honest
  BY DEF AsyncInit, LifecycleInit, IdleReader, Shape, LiveRunnerUntouched, Honest
<1> QED
  BY <1>1, <1>2 DEF AsyncInv

\* A step of the runner.
LEMMA RunnerInv == AsyncInv /\ RunnerStep => AsyncInv'
<1> SUFFICES ASSUME AsyncInv, RunnerStep PROVE AsyncInv'
  OBVIOUS
<1> USE DEF AsyncInv, AsyncTypeOK, Shape, LiveRunnerUntouched, Honest, RunnerStep, readerVars,
            deliveryVars, Phase, Verdict, Terminal
<1>1. CASE Start
  BY <1>1 DEF Start
<1>2. CASE Progress
  BY <1>2 DEF Progress
<1>3. CASE FailEarly
  BY <1>3 DEF FailEarly
<1>4. CASE Pause
  BY <1>4 DEF Pause
<1>5. CASE End
  BY <1>5 DEF End
<1>6. CASE Publish
  BY <1>6 DEF Publish, Start, Progress, FailEarly, Pause, End
<1>7. CASE Die
  BY <1>7 DEF Die, Start, Progress, FailEarly, Pause, End
<1> QED
  BY <1>1, <1>2, <1>3, <1>4, <1>5, <1>6, <1>7 DEF LifecycleNext

\* A step that only moves one reader, in ways the invariant allows.
LEMMA MoveReader ==
  ASSUME AsyncInv, NEW r \in Rec,
         NEW new \in Reader,
         rec' = [rec EXCEPT ![r] = new],
         new.at \notin {"idle", "read"} => ~Terminal(new.read),
         new.old => wasStale,
         new.at \in {"repair", "status"} => phase = "gone" \/ wasStale,
         crashes' \in 0..MaxCrashes,
         UNCHANGED <<lifecycleVars, stale, wasStale, deliveryVars>>
  PROVE  AsyncInv'
BY DEF AsyncInv, AsyncTypeOK, Shape, LiveRunnerUntouched, Honest, lifecycleVars, deliveryVars, Terminal

LEMMA ReadInv == AsyncInv /\ (\E r \in Rec : ReadStatus(r) \/ FindNoResult(r)
                           \/ GiveUp(r) \/ LeaveAlone(r) \/ ReaderDies(r)) => AsyncInv'
<1> SUFFICES ASSUME AsyncInv, NEW r \in Rec,
                    ReadStatus(r) \/ FindNoResult(r) \/ GiveUp(r) \/ LeaveAlone(r) \/ ReaderDies(r)
             PROVE  AsyncInv'
  OBVIOUS
<1>1. CASE ReadStatus(r)
  <2> DEFINE new == [at |-> "read", read |-> statusState, old |-> stale /\ statusState # "absent"]
  <2>1. rec' = [rec EXCEPT ![r] = new] /\ crashes' = crashes
    BY <1>1 DEF ReadStatus
  <2>2. UNCHANGED <<lifecycleVars, stale, wasStale, deliveryVars>>
    BY <1>1 DEF ReadStatus
  <2>3. new \in Reader
    BY DEF AsyncInv, AsyncTypeOK
  <2>4. new.old => wasStale
    BY DEF AsyncInv, Shape
  <2>5. crashes' \in 0..MaxCrashes
    BY <2>1 DEF AsyncInv, AsyncTypeOK
  <2> QED
    BY <2>1, <2>2, <2>3, <2>4, <2>5, MoveReader
<1>2. ASSUME Done(r), crashes' \in 0..MaxCrashes,
             UNCHANGED <<lifecycleVars, stale, wasStale, deliveryVars>>
      PROVE  AsyncInv'
  <2>1. IdleReader \in Reader
    BY DEF IdleReader
  <2> QED
    BY <1>2, <2>1, MoveReader DEF Done, IdleReader
<1>3. ASSUME NEW a \in {"probe", "repair"}, rec' = [rec EXCEPT ![r].at = a],
             ~Terminal(rec[r].read), a = "repair" => phase = "gone" \/ wasStale,
             UNCHANGED <<lifecycleVars, stale, wasStale, crashes, deliveryVars>>
      PROVE  AsyncInv'
  <2> DEFINE new == [at |-> a, read |-> rec[r].read, old |-> rec[r].old]
  <2>1. rec[r] \in Reader
    BY DEF AsyncInv, AsyncTypeOK
  <2>2. rec' = [rec EXCEPT ![r] = new]
    <3>1. [rec[r] EXCEPT !.at = a] = new
      BY <2>1
    <3>2. rec' = [rec EXCEPT ![r] = [rec[r] EXCEPT !.at = a]]
      BY <1>3
    <3> QED
      BY <3>1, <3>2
  <2>3. new \in Reader
    BY <1>3, <2>1
  <2>4. new.old => wasStale
    BY DEF AsyncInv, Shape
  <2>5. crashes' \in 0..MaxCrashes
    BY <1>3 DEF AsyncInv, AsyncTypeOK
  <2> QED
    BY <1>3, <2>2, <2>3, <2>4, <2>5, MoveReader
<1>4. crashes' = crashes => crashes' \in 0..MaxCrashes
  BY DEF AsyncInv, AsyncTypeOK
<1>5. CASE FindNoResult(r)
  BY <1>2, <1>3, <1>4, <1>5 DEF FindNoResult
<1>6. CASE GiveUp(r)
  <2>1. ~Terminal(rec[r].read) /\ (rec[r].old => wasStale)
    BY <1>6 DEF GiveUp, AsyncInv, AsyncTypeOK, Shape
  <2> QED
    BY <1>3, <1>6, <2>1 DEF GiveUp
<1>7. CASE LeaveAlone(r)
  BY <1>2, <1>4, <1>7 DEF LeaveAlone
<1>8. CASE ReaderDies(r)
  <2>1. crashes' \in 0..MaxCrashes
    BY <1>8, AsyncRunAssumption DEF ReaderDies, AsyncInv, AsyncTypeOK
  <2> QED
    BY <1>2, <1>8, <2>1 DEF ReaderDies
<1> QED
  BY <1>1, <1>5, <1>6, <1>7, <1>8

\* The two repairs: from an existing result, and for want of one.
LEMMA RepairInv == AsyncInv /\ (\E r \in Rec : RepairFromResult(r) \/ WriteRepair(r)) => AsyncInv'
<1> SUFFICES ASSUME AsyncInv, NEW r \in Rec, RepairFromResult(r) \/ WriteRepair(r) PROVE AsyncInv'
  OBVIOUS
<1> USE DEF AsyncInv, AsyncTypeOK, Shape, LiveRunnerUntouched, Honest, Terminal
<1>1. CASE RepairFromResult(r)
  BY <1>1 DEF RepairFromResult, Done, IdleReader, deliveryVars, Verdict
<1>2. CASE WriteRepair(r)
  <2>1. phase = "gone" \/ wasStale
    BY <1>2 DEF WriteRepair
  <2>2. ~Terminal(rec[r].read)
    BY <1>2 DEF WriteRepair
  <2>3. CASE rec[r].at = "repair"
    <3>1. rec' = [rec EXCEPT ![r].at = "status"] /\ resultState' = "failed"
      BY <1>2, <2>3 DEF WriteRepair
    <3>2. rec' \in [Rec -> Reader]
      BY <3>1
    <3>3. \A q \in Rec : /\ rec'[q].read = rec[q].read /\ rec'[q].old = rec[q].old
                         /\ rec'[q].at = IF q = r THEN "status" ELSE rec[q].at
      BY <3>1
    <3> QED
      BY <1>2, <2>1, <2>2, <2>3, <3>1, <3>2, <3>3 DEF WriteRepair, deliveryVars, Verdict
  <2>4. CASE rec[r].at = "status"
    <3>1. /\ rec' = [rec EXCEPT ![r] = IdleReader]
          /\ statusState' = "failed" /\ stale' = FALSE
          /\ UNCHANGED <<phase, state, resultState, wasStale, crashes, deliveryVars>>
      BY <1>2, <2>4 DEF WriteRepair, Done
    <3>2. IdleReader \in Reader
      BY DEF IdleReader
    <3>3. rec' \in [Rec -> Reader]
      BY <3>1, <3>2
    <3>4. \A q \in Rec : rec'[q] = IF q = r THEN IdleReader ELSE rec[q]
      BY <3>1
    <3>5. \A q \in Rec : /\ rec'[q].at \notin {"idle", "read"} => ~Terminal(rec'[q].read)
                         /\ rec'[q].old => wasStale
                         /\ rec'[q].at \in {"repair", "status"} => phase = "gone" \/ wasStale
      BY <2>1, <3>4 DEF IdleReader
    <3>6. "failed" \in Verdict
      BY DEF Verdict
    <3> HIDE DEF Terminal, AsyncInv, Shape, LiveRunnerUntouched, Honest
    <3>7. AsyncTypeOK'
      BY <3>1, <3>3, <3>5, <3>6 DEF AsyncInv, deliveryVars
    <3> HIDE DEF AsyncTypeOK
    <3>8. Shape' /\ LiveRunnerUntouched' /\ Honest'
      BY <2>1, <3>1, <3>5 DEF AsyncInv, Shape, LiveRunnerUntouched, Honest, deliveryVars
    <3> QED
      BY <3>7, <3>8 DEF AsyncInv
  <2> QED
    BY <1>2, <2>3, <2>4 DEF WriteRepair
<1> QED
  BY <1>1, <1>2

LEMMA DeliveryInv == AsyncInv /\ (GoSilent \/ Announce \/ DropDuplicate \/ Forget) => AsyncInv'
<1> SUFFICES ASSUME AsyncInv, GoSilent \/ Announce \/ DropDuplicate \/ Forget PROVE AsyncInv'
  OBVIOUS
<1> USE DEF AsyncInv, AsyncTypeOK, Shape, LiveRunnerUntouched, Honest, lifecycleVars, readerVars,
            deliveryVars
<1>1. CASE GoSilent
  BY <1>1 DEF GoSilent
<1>2. CASE Announce
  <2>1. resultState \in Verdict /\ announced \in Seq(Verdict) /\ Len(announced) < MaxAnnounced
    BY <1>2 DEF Announce
  <2>2. /\ announced' \in Seq(Verdict) /\ Len(announced') = Len(announced) + 1
        /\ Len(announced) \in Nat
    BY <1>2, <2>1 DEF Announce
  <2>3. \A i \in 1..Len(announced') :
          announced'[i] = IF i = Len(announced) + 1 THEN resultState ELSE announced[i]
    BY <1>2, <2>1, <2>2 DEF Announce
  <2>4. Len(announced') <= MaxAnnounced
    BY <2>1, <2>2, AsyncRunAssumption
  <2>5. phase = "gone" \/ wasStale
    BY <1>2 DEF Announce
  <2>6. \A i \in 1..Len(announced') :
          announced'[i] # "failed" => phase' = "gone" /\ announced'[i] = state'
    BY <1>2, <2>1, <2>2, <2>3 DEF Announce, Verdict
  <2> QED
    BY <1>2, <2>2, <2>4, <2>5, <2>6 DEF Announce
<1>3. CASE DropDuplicate
  BY <1>3 DEF DropDuplicate
<1>4. CASE Forget
  BY <1>4 DEF Forget
<1> QED
  BY <1>1, <1>2, <1>3, <1>4

LEMMA AsyncNextInv == AsyncInv /\ [AsyncNext]_asyncVars => AsyncInv'
<1> SUFFICES ASSUME AsyncInv, [AsyncNext]_asyncVars PROVE AsyncInv'
  OBVIOUS
<1>1. CASE AsyncNext
  BY <1>1, RunnerInv, ReadInv, RepairInv, DeliveryInv DEF AsyncNext, Reconcile
<1>2. CASE UNCHANGED asyncVars
  BY <1>2 DEF asyncVars, lifecycleVars, readerVars, deliveryVars, AsyncInv, AsyncTypeOK, Shape,
     LiveRunnerUntouched, Honest, Terminal
<1> QED
  BY <1>1, <1>2

\* The files and the readers of a run keep their types.
THEOREM FilesTyped == AsyncSpec => []AsyncTypeOK
<1>1. AsyncInv => AsyncTypeOK
  BY DEF AsyncInv
<1> QED
  BY AsyncInitInv, AsyncNextInv, <1>1, PTL DEF AsyncSpec

\* No number of readers, pid reuse or crashes makes a reader touch the files of
\* a live runner that keeps its status fresh.
THEOREM LiveRunnerSafe == AsyncSpec => []LiveRunnerUntouched
<1>1. AsyncInv => LiveRunnerUntouched
  BY DEF AsyncInv
<1> QED
  BY AsyncInitInv, AsyncNextInv, <1>1, PTL DEF AsyncSpec

\* No reader invents an outcome that the runner did not end with.
THEOREM OutcomesHonest == AsyncSpec => []OutcomesAreTheRunners
<1>1. AsyncInv => OutcomesAreTheRunners
  BY DEF AsyncInv, Honest, OutcomesAreTheRunners
<1> QED
  BY AsyncInitInv, AsyncNextInv, <1>1, PTL DEF AsyncSpec

\* A run that was called ended is not called running again.
THEOREM EndIsFinal == AsyncSpec => EndedStaysEnded
<1>1. AsyncInv /\ [AsyncNext]_asyncVars => [(Terminal(statusState) /\ ~wasStale') => Terminal(statusState')]_asyncVars
  <2> SUFFICES ASSUME AsyncInv, AsyncNext, Terminal(statusState), ~wasStale'
               PROVE  Terminal(statusState')
    OBVIOUS
  <2> USE DEF Terminal, Verdict
  <2>1. CASE RunnerStep
    BY <2>1 DEF RunnerStep, LifecycleNext, Start, Progress, FailEarly, Pause, End, Publish, Die,
       AsyncInv, Shape, LiveRunnerUntouched
  <2>2. CASE \E r \in Rec : Reconcile(r) \/ ReaderDies(r)
    BY <2>2 DEF Reconcile, ReaderDies, ReadStatus, RepairFromResult, FindNoResult, GiveUp,
       LeaveAlone, WriteRepair, lifecycleVars, AsyncInv, AsyncTypeOK
  <2>3. CASE GoSilent \/ Announce \/ DropDuplicate \/ Forget
    BY <2>3 DEF GoSilent, Announce, DropDuplicate, Forget, lifecycleVars
  <2> QED
    BY <2>1, <2>2, <2>3 DEF AsyncNext
<1> QED
  BY AsyncInitInv, AsyncNextInv, <1>1, PTL DEF AsyncSpec, EndedStaysEnded

\* For any number of readers, the files of a run tell what its runner did.
THEOREM RunsAreTrue == AsyncSpec => []RunIsTrue
  BY FilesTyped, LiveRunnerSafe, OutcomesHonest, PTL DEF RunIsTrue
===============================================================================
