--------------------------- MODULE ForegroundProofs ---------------------------
(***************************************************************************)
(* Theorems about Foreground, for any runs, tasks and limits: a request is  *)
(* answered once and leaves nothing behind, no session file is continued    *)
(* under a child that writes it, and the only child of a run is noticed.    *)
(*                                                                         *)
(* What a bridge, the executor and the notices know of a run is related to  *)
(* its phase (RequestInv, ControlInv) and to the states of its children     *)
(* (ChildInv, SessionInv, NoticeInv).                                       *)
(***************************************************************************)
EXTENDS Foreground, SequenceTheorems, WellFoundedInduction, TLAPS

\* What the bridges remember of a request agrees with the executor; a slash command that
\* gave up has aborted its run.
RequestInv ==
  \A f \in Run :
    /\ answers[f] = IF phase[f] = "ended" THEN 1 ELSE 0
    /\ f \in controllers \/ slash[f] = "live" => phase[f] \notin {"idle", "ended"}
    /\ slash[f] # "none" => f \in Slash
    /\ slash[f] = "live" => f \in controllers \cup aborted
    /\ slash[f] = "cancelled" /\ phase[f] # "ended" => f \in aborted

\* A run has a control only while it goes on, and as long as no new session took it, and worktrees only once it has begun.
ControlInv ==
  /\ \A f \in Run :
       /\ f \in controls => phase[f] \in {"clarify", "running", "receipt"}
       /\ phase[f] \in {"clarify", "running", "receipt"} => f \in controls \cup forgotten
       /\ worktree[f] = "present" => phase[f] \in {"running", "receipt"}
  /\ latest # None => latest \in controls

\* No task has started before the run, none is open when its results are collected, and a
\* process that is alive is that of a task going on or detached.
ChildInv ==
  \A f \in Run :
    /\ phase[f] \in {"idle", "clarify"} => \A i \in Index(f) : child[f][i] = "waiting"
    /\ phase[f] = "receipt" \/ f \in Range(remembered)
         \/ (worktree[f] = "removed" /\ ~Has(f, {"threw"})) => ~Has(f, Open)
    /\ \A i \in Index(f) : <<f, i>> \in alive => child[f][i] \in Running \cup {"detached", "both"}

\* The child whose session a background run continues is over.
SessionInv ==
  \A j \in Job : \A f \in Run : \A i \in Index(f) :
    job[j] = "running" /\ session[j] = <<f, i>> => child[f][i] \notin Open \cup {"detached", "both"}

\* The control of a run with one child shows that child as it is, and a claim to attention
\* is on its way or shown.
NoticeInv ==
  /\ attention \subseteq claimed
  /\ \A f \in Run :
       /\ \A i \in Index(f) : child[f][i] = "waiting" => <<f, i>> \notin claimed
       /\ Tasks[f] = 1 /\ f \in controls /\ child[f][1] = "running" =>
            /\ control[f].index = 1
            /\ <<f, 1>> \in claimed =>
                 /\ <<f, 1>> \in attention /\ control[f].attention
                 /\ disposed \/ <<f, 1>> \in pending \cup visible

RequestType ==
  /\ phase \in [Run -> {"idle", "clarify", "running", "receipt", "ended"}]
  /\ outcome \in [Run -> {"none", "error", "cancelled", "background", "complete",
                          "failed", "paused", "detached"}]
  /\ answers \in [Run -> Nat]
  /\ controllers \subseteq Slash \cup Prompt /\ cancelled \subseteq Slash \cup Prompt
  /\ aborted \subseteq Run /\ slash \in [Run -> {"none", "live", "cancelled", "answered"}]
ChildType ==
  /\ \A f \in Run : child[f] \in [Index(f) ->
        Open \cup {"completed", "failed", "paused", "detached", "both", "threw"}]
  /\ DOMAIN child = Run
  /\ alive \subseteq Child /\ attention \subseteq alive /\ claimed \subseteq Child
  /\ stopped \subseteq Child /\ pending \cup visible \subseteq claimed
ControlOf(f) == [index : 0 .. Tasks[f], attention : BOOLEAN, interrupt : 0 .. Tasks[f]]
ControlType ==
  /\ controls \subseteq Run /\ latest \in Run \cup {None} /\ DOMAIN control = Run
  /\ \A f \in Run : control[f] \in ControlOf(f)
RestType ==
  /\ worktree \in [Run -> {"none", "present", "removed"}] /\ captured \subseteq Isolated
  /\ remembered \in Seq(Run) /\ Len(remembered) <= RememberLimit
  /\ job \in [Job -> {"none", "running", "ended"}] /\ view \in [Job -> {"none", "running", "ended"}]
  /\ session \in [Job -> Child \cup {None}] /\ signalled \subseteq Job
  /\ disposed \in BOOLEAN /\ forgotten \subseteq Run

Inv ==
  /\ RequestType /\ ChildType /\ ControlType /\ RestType
  /\ RequestInv /\ ControlInv /\ ChildInv /\ SessionInv /\ NoticeInv

\* A worker takes a task that waits, if there is one for it.
LEMMA NextTaskIn ==
  ASSUME NEW f \in Run, NEW s
  PROVE  /\ NextTask(f, s) \in 0 .. Tasks[f]
         /\ NextTask(f, s) # 0 => child[f][NextTask(f, s)] = "waiting"
<1> DEFINE W == {k \in Index(f) : child[f][k] = "waiting"}
<1>1. W \subseteq Nat /\ Tasks[f] \in Nat
  BY ForegroundAssumption DEF Index
<1>2. IsWellFoundedOn(OpToRel(<, Nat), Nat)
  BY NatLessThanWellFounded
<1>3. ASSUME W # {} PROVE \E k \in W : \A l \in W : k <= l
  <2>1. PICK k \in W : \A l \in W : <<l, k>> \notin OpToRel(<, Nat)
    BY <1>1, <1>2, <1>3, WFMin
  <2>2. \A l \in W : ~ (l < k)
    BY <1>1, <2>1 DEF OpToRel
  <2> QED
    BY <1>1, <2>2
<1>4. CASE s = "threw" \/ W = {}
  BY <1>1, <1>4 DEF NextTask
<1>5. CASE s # "threw" /\ W # {}
  <2>1. NextTask(f, s) = CHOOSE k \in W : \A l \in W : k <= l
    BY <1>5 DEF NextTask
  <2>2. NextTask(f, s) \in W
    BY <1>3, <1>5, <2>1
  <2> QED
    BY <1>1, <2>2 DEF Index
<1> QED
  BY <1>4, <1>5

\* The result of a run.
LEMMA OutcomeIn == ASSUME NEW f PROVE Outcome(f) \in {"complete", "failed", "paused", "detached"}
<1> QED
  BY DEF Outcome

\* A run is remembered at the end, and at most the oldest is forgotten.
LEMMA Remembering ==
  ASSUME RestType, NEW f \in Run, Remember(f)
  PROVE  /\ remembered' \in Seq(Run) /\ Len(remembered') <= RememberLimit
         /\ Range(remembered') \subseteq Range(remembered) \cup {f}
<1> DEFINE all == Append(remembered, f)
<1>1. /\ all \in Seq(Run) /\ Len(all) = Len(remembered) + 1 /\ Len(remembered) \in Nat
      /\ Len(remembered) <= RememberLimit /\ RememberLimit \in Nat \ {0}
      /\ \A k \in 1 .. Len(all) : all[k] \in Range(remembered) \cup {f}
  BY AppendProperties, ForegroundAssumption DEF RestType, Range
<1>2. CASE Len(all) > RememberLimit
  <2>1. remembered' = Tail(all) /\ all # <<>>
    BY <1>1, <1>2 DEF Remember
  <2>2. /\ Tail(all) \in Seq(Run) /\ Len(Tail(all)) = Len(all) - 1
        /\ \A k \in 1 .. Len(all) - 1 : Tail(all)[k] = all[k + 1]
    BY <1>1, <2>1, HeadTailProperties
  <2> QED
    BY <1>1, <2>1, <2>2 DEF Range
<1>3. CASE ~ (Len(all) > RememberLimit)
  <2>1. remembered' = all
    BY <1>3 DEF Remember
  <2> QED
    BY <1>1, <1>3, <2>1 DEF Range
<1> QED
  BY <1>2, <1>3

\* What a step makes of the control of a run.
LEMMA ControlStep ==
  ASSUME ControlType, NEW f \in Run, NEW r \in ControlOf(f),
         control' = [control EXCEPT ![f] = r], controls' \subseteq Run, latest' \in Run \cup {None}
  PROVE  ControlType'
<1> QED
  BY DEF ControlType
LEMMA ControlNew ==
  ASSUME NEW f \in Run, NEW k \in 0 .. Tasks[f]
  PROVE  [index |-> k, attention |-> FALSE, interrupt |-> k] \in ControlOf(f) /\ NewControl \in ControlOf(f)
<1>1. Tasks[f] \in Nat
  BY ForegroundAssumption
<1> QED
  BY <1>1 DEF ControlOf, NewControl
LEMMA ControlUpdate ==
  ASSUME NEW f \in Run, NEW r \in ControlOf(f), NEW k \in 0 .. Tasks[f], NEW b \in BOOLEAN
  PROVE  /\ [r EXCEPT !.index = k, !.attention = b] \in ControlOf(f)
         /\ [r EXCEPT !.attention = b] \in ControlOf(f)
<1> QED
  BY DEF ControlOf
LEMMA ControlFields ==
  ASSUME NEW f \in Run, NEW k, control[f] \in ControlOf(f),
         control'[f] = [control[f] EXCEPT !.index = k, !.attention = TRUE]
  PROVE  control'[f].index = k /\ control'[f].attention
<1> QED
  BY DEF ControlOf
LEMMA ControlInterrupt ==
  ASSUME NEW f \in Run, NEW r \in ControlOf(f)
  PROVE  /\ [r EXCEPT !.interrupt = 0] \in ControlOf(f)
         /\ r.index \in 0 .. Tasks[f] /\ r.interrupt \in 0 .. Tasks[f]
<1>1. Tasks[f] \in Nat
  BY ForegroundAssumption
<1> QED
  BY <1>1 DEF ControlOf

\* The steps with several branches, as what they change: the end of a run with its children, ...
Ending == {"completed", "failed", "paused", "detached", "both", "threw"}
RunEnds(f) ==
  /\ phase[f] = "running" /\ phase' = [phase EXCEPT ![f] = "ended"]
  /\ answers' = [answers EXCEPT ![f] = @ + 1] /\ controllers' = controllers \ {f}
  /\ aborted' = aborted \ {f} /\ Reply(f)
  /\ pending' = {n \in pending : n[1] # f} /\ controls' = controls \ {f}
  /\ control' = [control EXCEPT ![f] = NewControl]
  /\ latest' = IF latest = f THEN None ELSE latest
  /\ stopped' = {n \in stopped : n[1] # f}
  /\ worktree' = [worktree EXCEPT ![f] = IF @ = "present" THEN "removed" ELSE @]
  /\ cancelled' = cancelled /\ claimed' = claimed /\ visible' = visible
  /\ job' = job /\ view' = view /\ session' = session /\ signalled' = signalled
Collected(f) ==
  /\ RunEnds(f) /\ ~Has(f, Open) /\ Remember(f)
  /\ outcome' = [outcome EXCEPT ![f] = Outcome(f)]
  /\ captured' = captured \/ (captured' = captured \cup {f} /\ f \in Isolated)
  /\ child' = child /\ alive' = alive /\ attention' = attention
Thrown(f, i) ==
  /\ RunEnds(f) /\ child[f][i] \in Running
  /\ outcome' = [outcome EXCEPT ![f] = "error"]
  /\ child' = [child EXCEPT ![f] = [@ EXCEPT ![i] = "threw"]]
  /\ alive' = alive \ {<<f, i>>} /\ attention' = attention \ {<<f, i>>}
  /\ captured' = captured /\ remembered' = remembered

\* ... the offer of its results to the orchestrator, ...
Offered(f) ==
  /\ phase[f] = "running" /\ ~Has(f, Open) /\ Remember(f)
  /\ phase' = [phase EXCEPT ![f] = "receipt"]
  /\ outcome' = [outcome EXCEPT ![f] = Outcome(f)]
  /\ UNCHANGED <<bridgeVars, aborted, answers, childVars, hostVars, pending, visible, worktree,
                 captured, jobVars>>

\* ... the end of a child, after which the next may start, ...
Settled(f, i, s, n) ==
  /\ child[f][i] \in Running
  /\ n # 0 => child[f][n] = "waiting"
  /\ child' = [child EXCEPT ![f] =
                 [k \in Index(f) |-> IF k = i THEN s ELSE IF k = n THEN "running" ELSE @[k]]]
  /\ alive' = (alive \ (IF s \in {"detached", "both"} THEN {} ELSE {<<f, i>>}))
                \cup (IF n = 0 THEN {} ELSE {<<f, n>>})
  /\ attention' = attention \ (IF s \in {"detached", "both"} THEN {} ELSE {<<f, i>>})
  /\ control' = IF f \notin controls THEN control
                ELSE IF n # 0 THEN [control EXCEPT ![f] = [index |-> n, attention |-> FALSE, interrupt |-> n]]
                ELSE IF control[f].index = i THEN [control EXCEPT ![f] = [@ EXCEPT !.interrupt = 0]]
                ELSE [control EXCEPT ![f] = @]
  /\ s = "threw" => n = 0 /\ phase[f] # "running"
  /\ UNCHANGED <<bridgeVars, endVars, aborted, controls, latest, stopped, claimed, pending,
                 visible, treeVars, jobVars>>

\* ... and an interrupt, heard by a child or not.
Interrupting == UNCHANGED <<bridgeVars, endVars, aborted, alive, claimed, controls, latest,
                            pending, visible, treeVars, jobVars>>
Ignored == Interrupting /\ UNCHANGED <<stopped, child, attention, control>>
Heard(f, i) ==
  /\ Interrupting /\ child[f][i] \in Running /\ stopped' = stopped \cup {<<f, i>>}
  /\ child' = [child EXCEPT ![f] = [@ EXCEPT ![i] = "stopping"]]
  /\ attention' = attention \ {<<f, i>>}
  /\ control' = [control EXCEPT ![f] = [@ EXCEPT !.index = i, !.attention = FALSE]]
Unheard(f, i) ==
  /\ Interrupting /\ child[f][i] \notin Running /\ stopped' = stopped \cup {<<f, i>>}
  /\ child' = child /\ attention' = attention
  /\ control' = [control EXCEPT ![f] = [@ EXCEPT !.attention = FALSE]]
Signalled ==
  /\ UNCHANGED <<bridgeVars, endVars, aborted, childVars, hostVars, pending, visible, treeVars,
                 job, view, session>>
  /\ signalled' \subseteq Job

LEMMA CollectSteps == ASSUME NEW f, Collect(f) PROVE Collected(f) \/ Offered(f)
<1> DEFINE out == Outcome(f)
<1>1. /\ phase[f] = "running" /\ ~Has(f, Open) /\ Remember(f)
      /\ UNCHANGED <<cancelled, child, alive, attention, claimed, visible, jobVars>>
  BY DEF Collect
<1>2. CASE out \in {"paused", "detached"} \/ ~Bridge
  <2>1. /\ captured' = captured \/ (captured' = captured \cup {f} /\ f \in Isolated)
        /\ Answer(f, out) /\ Leave(f) /\ Cleanup(f)
    BY <1>2 DEF Collect, WriteDiffs
  <2> QED
    BY <1>1, <2>1 DEF Collected, RunEnds, Answer, Leave, Cleanup, jobVars
<1>3. CASE ~ (out \in {"paused", "detached"} \/ ~Bridge)
  BY <1>1, <1>3 DEF Collect, Offered, childVars, hostVars, bridgeVars, jobVars
<1> QED
  BY <1>2, <1>3

LEMMA SettleSteps ==
  ASSUME ChildType, NEW f \in Run, NEW i \in Index(f), NEW s \in Ending,
         child[f][i] \in Running, Settle(f, i, s)
  PROVE  Thrown(f, i) \/ \E n \in 0 .. Tasks[f] : Settled(f, i, s, n)
<1> DEFINE n == NextTask(f, s)
<1>1. /\ n \in 0 .. Tasks[f]
      /\ n # 0 => child[f][n] = "waiting"
      /\ s = "threw" => n = 0
  BY NextTaskIn DEF NextTask
<1>2. /\ child' = [child EXCEPT ![f] =
                     [k \in Index(f) |-> IF k = i THEN s ELSE IF k = n THEN "running" ELSE @[k]]]
      /\ alive' = (alive \ (IF s \in {"detached", "both"} THEN {} ELSE {<<f, i>>}))
                    \cup (IF n = 0 THEN {} ELSE {<<f, n>>})
      /\ attention' = attention \ (IF s \in {"detached", "both"} THEN {} ELSE {<<f, i>>})
      /\ UNCHANGED <<claimed, cancelled, visible, captured, remembered, jobVars>>
  BY DEF Settle
<1>3. CASE s = "threw" /\ phase[f] = "running"
  <2>1. Answer(f, "error") /\ Leave(f) /\ Cleanup(f)
    BY <1>3 DEF Settle
  <2>2. DOMAIN child = Run /\ DOMAIN child[f] = Index(f) /\ \A k \in Index(f) : k # n
    BY <1>1, <1>3 DEF ChildType, Index
  <2>3. [k \in Index(f) |-> IF k = i THEN s ELSE IF k = n THEN "running" ELSE child[f][k]]
          = [child[f] EXCEPT ![i] = "threw"]
    BY <1>3, <2>2
  <2>4. child' = [child EXCEPT ![f] = [@ EXCEPT ![i] = "threw"]]
    BY <1>2, <2>3
  <2>5. alive' = alive \ {<<f, i>>} /\ attention' = attention \ {<<f, i>>}
    BY <1>1, <1>2, <1>3
  <2> QED
    BY <1>2, <1>3, <2>1, <2>4, <2>5 DEF Thrown, RunEnds, Answer, Leave, Cleanup, jobVars
<1>4. CASE ~ (s = "threw" /\ phase[f] = "running")
  <2>1. /\ control' = IF f \notin controls THEN control
                      ELSE [control EXCEPT ![f] = IF n = 0 THEN
                              (IF control[f].index = i THEN [control[f] EXCEPT !.interrupt = 0] ELSE control[f])
                              ELSE [index |-> n, attention |-> FALSE, interrupt |-> n]]
        /\ UNCHANGED <<controllers, aborted, slash, endVars, stopped, controls, latest, pending,
                       worktree>>
    BY <1>4 DEF Settle
  <2>2. control' = IF f \notin controls THEN control
                ELSE IF n # 0 THEN [control EXCEPT ![f] = [index |-> n, attention |-> FALSE, interrupt |-> n]]
                ELSE IF control[f].index = i THEN [control EXCEPT ![f] = [@ EXCEPT !.interrupt = 0]]
                ELSE [control EXCEPT ![f] = @]
    BY <2>1
  <2> QED
    BY <1>1, <1>2, <1>4, <2>1, <2>2 DEF Settled, bridgeVars, treeVars
<1> QED
  BY <1>3, <1>4

LEMMA InterruptSteps ==
  ASSUME ControlType, RestType, NEW t, Interrupt(t)
  PROVE  Signalled \/ Ignored \/ \E f \in Run : \E i \in Index(f) : Heard(f, i) \/ Unheard(f, i)
<1>1. Target(t) \subseteq Run
  BY DEF Target, ControlType
<1>2. UNCHANGED <<bridgeVars, endVars, aborted, alive, claimed, controls, latest, pending,
                  visible, treeVars>>
  BY DEF Interrupt
<1>3. ASSUME InterruptJob(t) PROVE Signalled
  BY <1>2, <1>3 DEF InterruptJob, Signalled, childVars, hostVars, RestType
<1>4. ASSUME NEW f \in Run, control[f].interrupt # 0, InterruptChild(f)
      PROVE  Ignored \/ \E i \in Index(f) : Heard(f, i) \/ Unheard(f, i)
  <2> DEFINE i == control[f].interrupt
  <2>1. i \in Index(f)
    <3>1. control[f] \in ControlOf(f) /\ Tasks[f] \in Nat
      BY ForegroundAssumption DEF ControlType
    <3>2. i \in 0 .. Tasks[f]
      BY <3>1, ControlInterrupt
    <3> QED
      BY <1>4, <3>1, <3>2 DEF Index
  <2>2. Interrupting
    BY <1>2, <1>4 DEF InterruptChild, Interrupting
  <2>3. CASE <<f, i>> \in stopped
    BY <1>4, <2>2, <2>3 DEF InterruptChild, Ignored
  <2>4. CASE <<f, i>> \notin stopped /\ child[f][i] \in Running
    BY <1>4, <2>1, <2>2, <2>4 DEF InterruptChild, Heard
  <2>5. CASE <<f, i>> \notin stopped /\ child[f][i] \notin Running
    BY <1>4, <2>1, <2>2, <2>5 DEF InterruptChild, Unheard
  <2> QED
    BY <2>2, <2>3, <2>4, <2>5
<1> QED
  BY <1>1, <1>3, <1>4 DEF Interrupt

\* The children after one of them has changed.
LEMMA ChildAt ==
  ASSUME NEW f \in Run, NEW i \in Index(f), NEW s, DOMAIN child = Run, DOMAIN child[f] = Index(f),
         child' = [child EXCEPT ![f] = [@ EXCEPT ![i] = s]]
  PROVE  \A g \in Run : \A k \in Index(g) : child'[g][k] = IF g = f /\ k = i THEN s ELSE child[g][k]
<1> QED
  OBVIOUS

\* What an interrupt that is heard makes of the children.
HeardChild(f, i) ==
  /\ child[f][i] \in Running
  /\ \A g \in Run : \A k \in Index(g) :
       child'[g][k] = IF g = f /\ k = i THEN "stopping" ELSE child[g][k]
  /\ phase' = phase /\ worktree' = worktree /\ remembered' = remembered /\ alive' = alive
LEMMA HeardChildren ==
  ASSUME ChildType, NEW f \in Run, NEW i \in Index(f), Heard(f, i) PROVE HeardChild(f, i)
<1>1. DOMAIN child = Run /\ DOMAIN child[f] = Index(f)
  BY DEF ChildType
<1>2. child' = [child EXCEPT ![f] = [@ EXCEPT ![i] = "stopping"]]
  BY DEF Heard
<1>3. \A g \in Run : \A k \in Index(g) :
        child'[g][k] = IF g = f /\ k = i THEN "stopping" ELSE child[g][k]
  BY <1>1, <1>2, ChildAt
<1> QED
  BY <1>3 DEF HeardChild, Heard, Interrupting, endVars, treeVars

LEMMA HeardKeeps ==
  ASSUME ChildInv, NEW f \in Run, NEW i \in Index(f), HeardChild(f, i) PROVE ChildInv'
<1>1. ASSUME NEW g \in Run, NEW k \in Index(g)
      PROVE  child'[g][k] = child[g][k] \/ (child[g][k] \in Running /\ child'[g][k] = "stopping")
  BY <1>1 DEF HeardChild
<1>2. ASSUME NEW g \in Run, NEW k \in Index(g)
      PROVE  /\ child'[g][k] = "threw" <=> child[g][k] = "threw"
             /\ child'[g][k] \in Open <=> child[g][k] \in Open
             /\ child[g][k] \in Running => child'[g][k] \in Running
  BY <1>1, <1>2 DEF Open, Running
<1>3. ASSUME NEW g \in Run PROVE /\ Has(g, {"threw"})' <=> Has(g, {"threw"})
                                 /\ Has(g, Open)' <=> Has(g, Open)
  BY <1>2 DEF Has
<1>4. ASSUME NEW g \in Run, phase'[g] \in {"idle", "clarify"}, NEW k \in Index(g)
      PROVE  child'[g][k] = "waiting"
  <2>1. child[g][k] = "waiting"
    BY <1>4 DEF ChildInv, HeardChild
  <2> QED
    BY <1>1, <2>1 DEF Running
<1>5. ASSUME NEW g \in Run, NEW k \in Index(g), <<g, k>> \in alive'
      PROVE  child'[g][k] \in Running \cup {"detached", "both"}
  <2>1. child[g][k] \in Running \cup {"detached", "both"}
    BY <1>5 DEF ChildInv, HeardChild
  <2> QED
    BY <1>1, <1>2, <2>1
<1>6. ASSUME NEW g \in Run, phase'[g] = "receipt" \/ g \in Range(remembered')
                              \/ (worktree'[g] = "removed" /\ ~Has(g, {"threw"})')
      PROVE  ~Has(g, Open)'
  BY <1>3, <1>6 DEF ChildInv, HeardChild
<1> QED
  BY <1>4, <1>5, <1>6 DEF ChildInv

\* The steps of the program, each once.
LEMMA Steps ==
  ASSUME ChildType, ControlType, RestType, [Next]_vars
  PROVE  \/ /\ UNCHANGED sessionVars
            /\ \/ \E f \in Run : Refuse(f)
               \/ \E f \in Run : CancelledBeforeStart(f)
               \/ \E f \in Run : RunInBackground(f)
               \/ \E f \in Run : Begin(f)
               \/ \E f \in Run : OpenDialog(f)
               \/ \E f \in Run : CloseDialog(f) /\ DialogGivesUp(f)
               \/ \E f \in Run : CloseDialog(f) /\ DialogToBackground(f)
               \/ \E f \in Run : CloseDialog(f) /\ DialogConfirmed(f)
               \/ \E f \in Run : Cancel(f)
               \/ \E f \in Run : Collected(f)
               \/ \E f \in Run : Offered(f)
               \/ \E f \in Run : Receipt(f)
               \/ \E f \in Run : \E i \in Index(f) : Progress(f, i)
               \/ \E f \in Run : \E i \in Index(f) : NeedsAttention(f, i)
               \/ \E f \in Run : \E i \in Index(f) : NoticeTimer(<<f, i>>)
               \/ \E f \in Run : \E i \in Index(f) : Thrown(f, i)
               \/ \E f \in Run : \E i \in Index(f) : \E s \in Ending : \E n \in 0 .. Tasks[f] : Settled(f, i, s, n)
               \/ \E f \in Run : \E i \in Index(f) : DetachedExits(<<f, i>>)
               \/ \E f \in Run : \E i \in Index(f) : Resume(f, i)
               \/ \E j \in Job : JobEnds(j)
               \/ \E j \in Job : Tracker(j)
               \/ \E f \in Run : \E i \in Index(f) : Heard(f, i)
               \/ \E f \in Run : \E i \in Index(f) : Unheard(f, i)
               \/ Signalled
               \/ Ignored
         \/ Shutdown
         \/ SessionStarts
         \/ UNCHANGED vars
<1>1. ASSUME NEW f \in Run, NEW i \in Index(f), ChildEnds(f, i) \/ ChildThrows(f, i)
      PROVE  Thrown(f, i) \/ \E s \in Ending : \E n \in 0 .. Tasks[f] : Settled(f, i, s, n)
  <2>1. PICK s \in Ending : child[f][i] \in Running /\ Settle(f, i, s)
    BY <1>1 DEF ChildEnds, ChildThrows, Ending
  <2> QED
    BY <2>1, SettleSteps
<1>2. ASSUME NEW f \in Run, CloseDialog(f)
      PROVE  CloseDialog(f) /\ (DialogGivesUp(f) \/ DialogToBackground(f) \/ DialogConfirmed(f))
  BY <1>2 DEF CloseDialog
<1> QED
  BY <1>1, <1>2, CollectSteps, InterruptSteps DEF Next, Step, RunStep, ChildStep

\* Types are kept.
LEMMA RequestTypeNext == ASSUME RequestType, ChildType, ControlType, RestType, [Next]_vars PROVE RequestType'
<1> USE ForegroundAssumption DEF RequestType, vars, bridgeVars, endVars, childVars, hostVars, treeVars, jobVars
<1>1. ASSUME NEW f \in Run, Refuse(f) PROVE RequestType'
  BY <1>1 DEF Refuse, Admitted, Requested, Answer, Reply
<1>2. ASSUME NEW f \in Run, CancelledBeforeStart(f) PROVE RequestType'
  BY <1>2 DEF CancelledBeforeStart, Requested, Answer, Reply
<1>3. ASSUME NEW f \in Run, RunInBackground(f) PROVE RequestType'
  BY <1>3 DEF RunInBackground, Admitted, Requested, Answer, Reply, Launch
<1>4. ASSUME NEW f \in Run, Begin(f) PROVE RequestType'
  BY <1>4 DEF Begin, Enter, Admitted, Requested, GoLive, Start, CheckOut
<1>5. ASSUME NEW f \in Run, OpenDialog(f) PROVE RequestType'
  BY <1>5 DEF OpenDialog, Enter, Admitted, Requested, GoLive
<1>6. ASSUME NEW f \in Run, CloseDialog(f), DialogGivesUp(f) PROVE RequestType'
  BY <1>6 DEF CloseDialog, DialogGivesUp, Answer, Reply, Leave
<1>7. ASSUME NEW f \in Run, CloseDialog(f), DialogToBackground(f) PROVE RequestType'
  BY <1>7 DEF CloseDialog, DialogToBackground, Answer, Reply, Leave, Launch
<1>8. ASSUME NEW f \in Run, CloseDialog(f), DialogConfirmed(f) PROVE RequestType'
  BY <1>8 DEF CloseDialog, DialogConfirmed, Start, CheckOut
<1>9. ASSUME NEW f \in Run, Cancel(f) PROVE RequestType'
  BY <1>9 DEF Cancel, Cancellable
<1>10. ASSUME NEW f \in Run, Collected(f) PROVE RequestType'
  BY <1>10, OutcomeIn DEF Collected, RunEnds, Reply
<1>11. ASSUME NEW f \in Run, Offered(f) PROVE RequestType'
  BY <1>11, OutcomeIn DEF Offered
<1>12. ASSUME NEW f \in Run, Receipt(f) PROVE RequestType'
  BY <1>12 DEF Receipt, WriteDiffs, Answer, Reply, Leave, Cleanup
<1>13. ASSUME NEW f \in Run, NEW i \in Index(f), Progress(f, i) PROVE RequestType'
  BY <1>13 DEF Progress, Show
<1>14. ASSUME NEW f \in Run, NEW i \in Index(f), NeedsAttention(f, i) PROVE RequestType'
  BY <1>14 DEF NeedsAttention, Show
<1>15. ASSUME NEW f \in Run, NEW i \in Index(f), NoticeTimer(<<f, i>>) PROVE RequestType'
  BY <1>15 DEF NoticeTimer, Actionable
<1>16. ASSUME NEW f \in Run, NEW i \in Index(f), Thrown(f, i) PROVE RequestType'
  BY <1>16 DEF Thrown, RunEnds, Reply
<1>17. ASSUME NEW f \in Run, NEW i \in Index(f), NEW s \in Ending, NEW n \in 0 .. Tasks[f], Settled(f, i, s, n) PROVE RequestType'
  BY <1>17 DEF Settled, Ending
<1>18. ASSUME NEW f \in Run, NEW i \in Index(f), DetachedExits(<<f, i>>) PROVE RequestType'
  BY <1>18 DEF DetachedExits
<1>19. ASSUME NEW f \in Run, NEW i \in Index(f), Resume(f, i) PROVE RequestType'
  BY <1>19 DEF Resume, Resumable, Launch
<1>20. ASSUME NEW j \in Job, JobEnds(j) PROVE RequestType'
  BY <1>20 DEF JobEnds
<1>21. ASSUME NEW j \in Job, Tracker(j) PROVE RequestType'
  BY <1>21 DEF Tracker
<1>22. ASSUME NEW f \in Run, NEW i \in Index(f), Heard(f, i) PROVE RequestType'
  BY <1>22 DEF Heard, Interrupting
<1>23. ASSUME NEW f \in Run, NEW i \in Index(f), Unheard(f, i) PROVE RequestType'
  BY <1>23 DEF Unheard, Interrupting
<1>24. ASSUME Signalled PROVE RequestType'
  BY <1>24 DEF Signalled
<1>25. ASSUME Ignored PROVE RequestType'
  BY <1>25 DEF Ignored, Interrupting
<1>26. ASSUME Shutdown PROVE RequestType'
  BY <1>26 DEF Shutdown
<1>27. ASSUME SessionStarts PROVE RequestType'
  BY <1>27 DEF SessionStarts
<1>28. CASE UNCHANGED vars
  BY <1>28
<1> HIDE DEF RequestType, vars, bridgeVars, endVars, childVars, hostVars, treeVars, jobVars
<1> QED
  BY <1>1, <1>2, <1>3, <1>4, <1>5, <1>6, <1>7, <1>8, <1>9, <1>10, <1>11, <1>12, <1>13, <1>14, <1>15, <1>16, <1>17, <1>18, <1>19, <1>20, <1>21, <1>22, <1>23, <1>24, <1>25, <1>26, <1>27, <1>28, Steps


LEMMA ChildTypeNext == ASSUME ChildType, ControlType, RestType, [Next]_vars PROVE ChildType'
<1> USE ForegroundAssumption DEF ChildType, Index, Child, Running, Open, vars, bridgeVars, endVars, childVars, hostVars, treeVars, jobVars
<1>1. ASSUME NEW f \in Run, Refuse(f) PROVE ChildType'
  BY <1>1 DEF Refuse, Admitted, Requested, Answer, Reply
<1>2. ASSUME NEW f \in Run, CancelledBeforeStart(f) PROVE ChildType'
  BY <1>2 DEF CancelledBeforeStart, Requested, Answer, Reply
<1>3. ASSUME NEW f \in Run, RunInBackground(f) PROVE ChildType'
  BY <1>3 DEF RunInBackground, Admitted, Requested, Answer, Reply, Launch
<1>4. ASSUME NEW f \in Run, Begin(f) PROVE ChildType'
  BY <1>4 DEF Begin, Enter, Admitted, Requested, GoLive, Start, CheckOut
<1>5. ASSUME NEW f \in Run, OpenDialog(f) PROVE ChildType'
  BY <1>5 DEF OpenDialog, Enter, Admitted, Requested, GoLive
<1>6. ASSUME NEW f \in Run, CloseDialog(f), DialogGivesUp(f) PROVE ChildType'
  BY <1>6 DEF CloseDialog, DialogGivesUp, Answer, Reply, Leave
<1>7. ASSUME NEW f \in Run, CloseDialog(f), DialogToBackground(f) PROVE ChildType'
  BY <1>7 DEF CloseDialog, DialogToBackground, Answer, Reply, Leave, Launch
<1>8. ASSUME NEW f \in Run, CloseDialog(f), DialogConfirmed(f) PROVE ChildType'
  BY <1>8 DEF CloseDialog, DialogConfirmed, Start, CheckOut
<1>9. ASSUME NEW f \in Run, Cancel(f) PROVE ChildType'
  BY <1>9 DEF Cancel, Cancellable
<1>10. ASSUME NEW f \in Run, Collected(f) PROVE ChildType'
  BY <1>10 DEF Collected, RunEnds, Reply
<1>11. ASSUME NEW f \in Run, Offered(f) PROVE ChildType'
  BY <1>11 DEF Offered
<1>12. ASSUME NEW f \in Run, Receipt(f) PROVE ChildType'
  BY <1>12 DEF Receipt, WriteDiffs, Answer, Reply, Leave, Cleanup
<1>13. ASSUME NEW f \in Run, NEW i \in Index(f), Progress(f, i) PROVE ChildType'
  BY <1>13 DEF Progress, Show
<1>14. ASSUME NEW f \in Run, NEW i \in Index(f), NeedsAttention(f, i) PROVE ChildType'
  BY <1>14 DEF NeedsAttention, Show
<1>15. ASSUME NEW f \in Run, NEW i \in Index(f), NoticeTimer(<<f, i>>) PROVE ChildType'
  BY <1>15 DEF NoticeTimer, Actionable
<1>16. ASSUME NEW f \in Run, NEW i \in Index(f), Thrown(f, i) PROVE ChildType'
  BY <1>16 DEF Thrown, RunEnds, Reply
<1>17. ASSUME NEW f \in Run, NEW i \in Index(f), NEW s \in Ending, NEW n \in 0 .. Tasks[f], Settled(f, i, s, n) PROVE ChildType'
  BY <1>17 DEF Settled, Ending
<1>18. ASSUME NEW f \in Run, NEW i \in Index(f), DetachedExits(<<f, i>>) PROVE ChildType'
  BY <1>18 DEF DetachedExits
<1>19. ASSUME NEW f \in Run, NEW i \in Index(f), Resume(f, i) PROVE ChildType'
  BY <1>19 DEF Resume, Resumable, Launch
<1>20. ASSUME NEW j \in Job, JobEnds(j) PROVE ChildType'
  BY <1>20 DEF JobEnds
<1>21. ASSUME NEW j \in Job, Tracker(j) PROVE ChildType'
  BY <1>21 DEF Tracker
<1>22. ASSUME NEW f \in Run, NEW i \in Index(f), Heard(f, i) PROVE ChildType'
  BY <1>22 DEF Heard, Interrupting
<1>23. ASSUME NEW f \in Run, NEW i \in Index(f), Unheard(f, i) PROVE ChildType'
  BY <1>23 DEF Unheard, Interrupting
<1>24. ASSUME Signalled PROVE ChildType'
  BY <1>24 DEF Signalled
<1>25. ASSUME Ignored PROVE ChildType'
  BY <1>25 DEF Ignored, Interrupting
<1>26. ASSUME Shutdown PROVE ChildType'
  BY <1>26 DEF Shutdown
<1>27. ASSUME SessionStarts PROVE ChildType'
  BY <1>27 DEF SessionStarts
<1>28. CASE UNCHANGED vars
  BY <1>28
<1> HIDE DEF ChildType, Index, Child, Running, Open, vars, bridgeVars, endVars, childVars, hostVars, treeVars, jobVars
<1> QED
  BY <1>1, <1>2, <1>3, <1>4, <1>5, <1>6, <1>7, <1>8, <1>9, <1>10, <1>11, <1>12, <1>13, <1>14, <1>15, <1>16, <1>17, <1>18, <1>19, <1>20, <1>21, <1>22, <1>23, <1>24, <1>25, <1>26, <1>27, <1>28, Steps


LEMMA ControlTypeNext == ASSUME ChildType, ControlType, RestType, [Next]_vars PROVE ControlType'
<1> USE ForegroundAssumption DEF ControlType, vars, bridgeVars, endVars, childVars, hostVars, treeVars, jobVars
<1>1. ASSUME NEW f \in Run, Refuse(f) PROVE ControlType'
  BY <1>1 DEF Refuse, Admitted, Requested, Answer, Reply
<1>2. ASSUME NEW f \in Run, CancelledBeforeStart(f) PROVE ControlType'
  BY <1>2 DEF CancelledBeforeStart, Requested, Answer, Reply
<1>3. ASSUME NEW f \in Run, RunInBackground(f) PROVE ControlType'
  BY <1>3 DEF RunInBackground, Admitted, Requested, Answer, Reply, Launch
<1>4. ASSUME NEW f \in Run, Begin(f) PROVE ControlType'
  <2> DEFINE n == IF Concurrency < Tasks[f] THEN Concurrency ELSE Tasks[f]
             r == [index |-> n, attention |-> FALSE, interrupt |-> n]
  <2>1. n \in 0 .. Tasks[f] /\ FALSE \in BOOLEAN
    OBVIOUS
  <2>3. r \in ControlOf(f)
    <3> HIDE DEF n
    <3> QED
      BY <2>1, ControlNew
  <2>4. control' = [control EXCEPT ![f] = r] /\ controls' \subseteq Run /\ latest' \in Run \cup {None}
    BY <1>4 DEF Begin, Enter, Start
  <2> HIDE DEF n, r
  <2> QED
    BY <2>3, <2>4, ControlStep
<1>5. ASSUME NEW f \in Run, OpenDialog(f) PROVE ControlType'
  BY <1>5 DEF OpenDialog, Enter, Admitted, Requested, GoLive
<1>6. ASSUME NEW f \in Run, CloseDialog(f), DialogGivesUp(f) PROVE ControlType'
  <2>1. NewControl \in ControlOf(f)
    <3>1. 0 \in 0 .. Tasks[f]
      OBVIOUS
    <3> QED
      BY <3>1, ControlNew
  <2>2. control' = [control EXCEPT ![f] = NewControl] /\ controls' \subseteq Run /\ latest' \in Run \cup {None}
    BY <1>6 DEF DialogGivesUp, Leave
  <2> QED
    BY <2>1, <2>2, ControlStep
<1>7. ASSUME NEW f \in Run, CloseDialog(f), DialogToBackground(f) PROVE ControlType'
  <2>1. NewControl \in ControlOf(f)
    <3>1. 0 \in 0 .. Tasks[f]
      OBVIOUS
    <3> QED
      BY <3>1, ControlNew
  <2>2. control' = [control EXCEPT ![f] = NewControl] /\ controls' \subseteq Run /\ latest' \in Run \cup {None}
    BY <1>7 DEF DialogToBackground, Leave
  <2> QED
    BY <2>1, <2>2, ControlStep
<1>8. ASSUME NEW f \in Run, CloseDialog(f), DialogConfirmed(f) PROVE ControlType'
  <2> DEFINE n == IF Concurrency < Tasks[f] THEN Concurrency ELSE Tasks[f]
             r == [index |-> n, attention |-> FALSE, interrupt |-> n]
  <2>1. n \in 0 .. Tasks[f] /\ FALSE \in BOOLEAN
    OBVIOUS
  <2>3. r \in ControlOf(f)
    <3> HIDE DEF n
    <3> QED
      BY <2>1, ControlNew
  <2>4. controls' \subseteq Run /\ latest' \in Run \cup {None}
    BY <1>8 DEF CloseDialog, DialogConfirmed
  <2>5. control' = control \/ control' = [control EXCEPT ![f] = r]
    BY <1>8 DEF CloseDialog, DialogConfirmed, Start
  <2>6. CASE control' = control
    BY <2>4, <2>6
  <2> HIDE DEF n, r
  <2>7. CASE control' = [control EXCEPT ![f] = r]
    BY <2>3, <2>4, <2>7, ControlStep
  <2> QED
    BY <2>5, <2>6, <2>7
<1>9. ASSUME NEW f \in Run, Cancel(f) PROVE ControlType'
  BY <1>9 DEF Cancel, Cancellable
<1>10. ASSUME NEW f \in Run, Collected(f) PROVE ControlType'
  <2>1. NewControl \in ControlOf(f)
    <3>1. 0 \in 0 .. Tasks[f]
      OBVIOUS
    <3> QED
      BY <3>1, ControlNew
  <2>2. control' = [control EXCEPT ![f] = NewControl] /\ controls' \subseteq Run /\ latest' \in Run \cup {None}
    BY <1>10 DEF Collected, RunEnds
  <2> QED
    BY <2>1, <2>2, ControlStep
<1>11. ASSUME NEW f \in Run, Offered(f) PROVE ControlType'
  BY <1>11 DEF Offered
<1>12. ASSUME NEW f \in Run, Receipt(f) PROVE ControlType'
  <2>1. NewControl \in ControlOf(f)
    <3>1. 0 \in 0 .. Tasks[f]
      OBVIOUS
    <3> QED
      BY <3>1, ControlNew
  <2>2. control' = [control EXCEPT ![f] = NewControl] /\ controls' \subseteq Run /\ latest' \in Run \cup {None}
    BY <1>12 DEF Receipt, Leave
  <2> QED
    BY <2>1, <2>2, ControlStep
<1>13. ASSUME NEW f \in Run, NEW i \in Index(f), Progress(f, i) PROVE ControlType'
  <2> DEFINE b == <<f, i>> \in attention
             r == [control[f] EXCEPT !.index = i, !.attention = b]
  <2>1. b \in BOOLEAN /\ i \in 0 .. Tasks[f] /\ control[f] \in ControlOf(f)
    BY DEF Index
  <2>2. r \in ControlOf(f)
    <3> HIDE DEF b
    <3> QED
      BY <2>1, ControlUpdate
  <2>3. f \in controls => control' = [control EXCEPT ![f] = r]
    BY <1>13 DEF Progress, Show
  <2>4. f \notin controls => control' = control
    BY <1>13 DEF Progress, Show
  <2>5. controls' \subseteq Run /\ latest' \in Run \cup {None}
    BY <1>13 DEF Progress
  <2>6. CASE f \in controls
    <3> HIDE DEF r
    <3> QED
      BY <2>2, <2>3, <2>5, <2>6, ControlStep
  <2>7. CASE f \notin controls
    BY <2>4, <2>5, <2>7
  <2> QED
    BY <2>6, <2>7
<1>14. ASSUME NEW f \in Run, NEW i \in Index(f), NeedsAttention(f, i) PROVE ControlType'
  <2> DEFINE r == [control[f] EXCEPT !.index = i, !.attention = TRUE]
  <2>1. i \in 0 .. Tasks[f] /\ control[f] \in ControlOf(f)
    BY DEF Index
  <2>2. r \in ControlOf(f)
    BY <2>1, ControlUpdate
  <2>3. control' = [control EXCEPT ![f] = r] \/ control' = control
    BY <1>14 DEF NeedsAttention, Show
  <2>4. controls' \subseteq Run /\ latest' \in Run \cup {None}
    BY <1>14 DEF NeedsAttention
  <2> HIDE DEF r
  <2>5. CASE control' = [control EXCEPT ![f] = r]
    BY <2>2, <2>4, <2>5, ControlStep
  <2>6. CASE control' = control
    BY <2>4, <2>6
  <2> QED
    BY <2>3, <2>5, <2>6
<1>15. ASSUME NEW f \in Run, NEW i \in Index(f), NoticeTimer(<<f, i>>) PROVE ControlType'
  BY <1>15 DEF NoticeTimer, Actionable
<1>16. ASSUME NEW f \in Run, NEW i \in Index(f), Thrown(f, i) PROVE ControlType'
  <2>1. NewControl \in ControlOf(f)
    <3>1. 0 \in 0 .. Tasks[f]
      OBVIOUS
    <3> QED
      BY <3>1, ControlNew
  <2>2. control' = [control EXCEPT ![f] = NewControl] /\ controls' \subseteq Run /\ latest' \in Run \cup {None}
    BY <1>16 DEF Thrown, RunEnds
  <2> QED
    BY <2>1, <2>2, ControlStep
<1>17. ASSUME NEW f \in Run, NEW i \in Index(f), NEW s \in Ending, NEW n \in 0 .. Tasks[f], Settled(f, i, s, n) PROVE ControlType'
  <2>1. controls' \subseteq Run /\ latest' \in Run \cup {None} /\ control[f] \in ControlOf(f)
    BY <1>17 DEF Settled
  <2>2. /\ [index |-> n, attention |-> FALSE, interrupt |-> n] \in ControlOf(f)
        /\ [control[f] EXCEPT !.interrupt = 0] \in ControlOf(f)
    BY <2>1, ControlNew, ControlInterrupt
  <2>3. \/ control' = control
        \/ control' = [control EXCEPT ![f] = [index |-> n, attention |-> FALSE, interrupt |-> n]]
        \/ control' = [control EXCEPT ![f] = [control[f] EXCEPT !.interrupt = 0]]
        \/ control' = [control EXCEPT ![f] = control[f]]
    BY <1>17 DEF Settled
  <2>4. CASE control' = control
    BY <2>1, <2>4
  <2> QED
    BY <2>1, <2>2, <2>3, <2>4, ControlStep
<1>18. ASSUME NEW f \in Run, NEW i \in Index(f), DetachedExits(<<f, i>>) PROVE ControlType'
  BY <1>18 DEF DetachedExits
<1>19. ASSUME NEW f \in Run, NEW i \in Index(f), Resume(f, i) PROVE ControlType'
  BY <1>19 DEF Resume, Resumable, Launch
<1>20. ASSUME NEW j \in Job, JobEnds(j) PROVE ControlType'
  BY <1>20 DEF JobEnds
<1>21. ASSUME NEW j \in Job, Tracker(j) PROVE ControlType'
  BY <1>21 DEF Tracker
<1>22. ASSUME NEW f \in Run, NEW i \in Index(f), Heard(f, i) PROVE ControlType'
  <2> DEFINE r == [control[f] EXCEPT !.index = i, !.attention = FALSE]
  <2>1. i \in 0 .. Tasks[f] /\ FALSE \in BOOLEAN /\ control[f] \in ControlOf(f)
    BY DEF Index
  <2>2. r \in ControlOf(f)
    BY <2>1, ControlUpdate
  <2>3. control' = [control EXCEPT ![f] = r] /\ controls' \subseteq Run /\ latest' \in Run \cup {None}
    BY <1>22 DEF Heard, Interrupting
  <2> HIDE DEF r
  <2> QED
    BY <2>2, <2>3, ControlStep
<1>23. ASSUME NEW f \in Run, NEW i \in Index(f), Unheard(f, i) PROVE ControlType'
  <2> DEFINE r == [control[f] EXCEPT !.attention = FALSE]
  <2>1. 0 \in 0 .. Tasks[f] /\ FALSE \in BOOLEAN /\ control[f] \in ControlOf(f)
    OBVIOUS
  <2>2. r \in ControlOf(f)
    BY <2>1, ControlUpdate
  <2>3. control' = [control EXCEPT ![f] = r] /\ controls' \subseteq Run /\ latest' \in Run \cup {None}
    BY <1>23 DEF Unheard, Interrupting
  <2> HIDE DEF r
  <2> QED
    BY <2>2, <2>3, ControlStep
<1>24. ASSUME Signalled PROVE ControlType'
  BY <1>24 DEF Signalled
<1>25. ASSUME Ignored PROVE ControlType'
  BY <1>25 DEF Ignored, Interrupting
<1>26. ASSUME Shutdown PROVE ControlType'
  BY <1>26 DEF Shutdown
<1>27. ASSUME SessionStarts PROVE ControlType'
  <2>1. ASSUME NEW f \in Run PROVE NewControl \in ControlOf(f)
    <3>1. 0 \in 0 .. Tasks[f]
      OBVIOUS
    <3> QED
      BY <3>1, ControlNew
  <2> HIDE DEF NewControl
  <2> QED
    BY <1>27, <2>1 DEF SessionStarts
<1>28. CASE UNCHANGED vars
  BY <1>28
<1> HIDE DEF ControlType, vars, bridgeVars, endVars, childVars, hostVars, treeVars, jobVars
<1> QED
  BY <1>1, <1>2, <1>3, <1>4, <1>5, <1>6, <1>7, <1>8, <1>9, <1>10, <1>11, <1>12, <1>13, <1>14, <1>15, <1>16, <1>17, <1>18, <1>19, <1>20, <1>21, <1>22, <1>23, <1>24, <1>25, <1>26, <1>27, <1>28, Steps


LEMMA RestTypeNext == ASSUME ChildType, ControlType, RestType, [Next]_vars PROVE RestType'
<1> USE ForegroundAssumption DEF RestType, Child, vars, bridgeVars, endVars, childVars, hostVars, treeVars, jobVars, sessionVars
<1>1. ASSUME NEW f \in Run, Refuse(f), UNCHANGED sessionVars PROVE RestType'
  BY <1>1 DEF Refuse, Admitted, Requested, Answer, Reply
<1>2. ASSUME NEW f \in Run, CancelledBeforeStart(f), UNCHANGED sessionVars PROVE RestType'
  BY <1>2 DEF CancelledBeforeStart, Requested, Answer, Reply
<1>3. ASSUME NEW f \in Run, RunInBackground(f), UNCHANGED sessionVars PROVE RestType'
  BY <1>3 DEF RunInBackground, Admitted, Requested, Answer, Reply, Launch
<1>4. ASSUME NEW f \in Run, Begin(f), UNCHANGED sessionVars PROVE RestType'
  BY <1>4 DEF Begin, Enter, Admitted, Requested, GoLive, Start, CheckOut
<1>5. ASSUME NEW f \in Run, OpenDialog(f), UNCHANGED sessionVars PROVE RestType'
  BY <1>5 DEF OpenDialog, Enter, Admitted, Requested, GoLive
<1>6. ASSUME NEW f \in Run, CloseDialog(f), DialogGivesUp(f), UNCHANGED sessionVars PROVE RestType'
  BY <1>6 DEF CloseDialog, DialogGivesUp, Answer, Reply, Leave
<1>7. ASSUME NEW f \in Run, CloseDialog(f), DialogToBackground(f), UNCHANGED sessionVars PROVE RestType'
  BY <1>7 DEF CloseDialog, DialogToBackground, Answer, Reply, Leave, Launch
<1>8. ASSUME NEW f \in Run, CloseDialog(f), DialogConfirmed(f), UNCHANGED sessionVars PROVE RestType'
  BY <1>8 DEF CloseDialog, DialogConfirmed, Start, CheckOut
<1>9. ASSUME NEW f \in Run, Cancel(f), UNCHANGED sessionVars PROVE RestType'
  BY <1>9 DEF Cancel, Cancellable
<1>10. ASSUME NEW f \in Run, Collected(f), UNCHANGED sessionVars PROVE RestType'
  <2>1. remembered' \in Seq(Run) /\ Len(remembered') <= RememberLimit
    BY <1>10, Remembering DEF Collected, RestType
  <2> QED
    BY <1>10, <2>1 DEF Collected, RunEnds
<1>11. ASSUME NEW f \in Run, Offered(f), UNCHANGED sessionVars PROVE RestType'
  <2>1. remembered' \in Seq(Run) /\ Len(remembered') <= RememberLimit
    BY <1>11, Remembering DEF Offered, RestType
  <2> QED
    BY <1>11, <2>1 DEF Offered
<1>12. ASSUME NEW f \in Run, Receipt(f), UNCHANGED sessionVars PROVE RestType'
  BY <1>12 DEF Receipt, WriteDiffs, Answer, Reply, Leave, Cleanup
<1>13. ASSUME NEW f \in Run, NEW i \in Index(f), Progress(f, i), UNCHANGED sessionVars PROVE RestType'
  BY <1>13 DEF Progress, Show
<1>14. ASSUME NEW f \in Run, NEW i \in Index(f), NeedsAttention(f, i), UNCHANGED sessionVars PROVE RestType'
  BY <1>14 DEF NeedsAttention, Show
<1>15. ASSUME NEW f \in Run, NEW i \in Index(f), NoticeTimer(<<f, i>>), UNCHANGED sessionVars PROVE RestType'
  BY <1>15 DEF NoticeTimer, Actionable
<1>16. ASSUME NEW f \in Run, NEW i \in Index(f), Thrown(f, i), UNCHANGED sessionVars PROVE RestType'
  BY <1>16 DEF Thrown, RunEnds, Reply
<1>17. ASSUME NEW f \in Run, NEW i \in Index(f), NEW s \in Ending, NEW n \in 0 .. Tasks[f], Settled(f, i, s, n), UNCHANGED sessionVars PROVE RestType'
  BY <1>17 DEF Settled, Ending
<1>18. ASSUME NEW f \in Run, NEW i \in Index(f), DetachedExits(<<f, i>>), UNCHANGED sessionVars PROVE RestType'
  BY <1>18 DEF DetachedExits
<1>19. ASSUME NEW f \in Run, NEW i \in Index(f), Resume(f, i), UNCHANGED sessionVars PROVE RestType'
  BY <1>19 DEF Resume, Resumable, Launch
<1>20. ASSUME NEW j \in Job, JobEnds(j), UNCHANGED sessionVars PROVE RestType'
  BY <1>20 DEF JobEnds
<1>21. ASSUME NEW j \in Job, Tracker(j), UNCHANGED sessionVars PROVE RestType'
  BY <1>21 DEF Tracker
<1>22. ASSUME NEW f \in Run, NEW i \in Index(f), Heard(f, i), UNCHANGED sessionVars PROVE RestType'
  BY <1>22 DEF Heard, Interrupting
<1>23. ASSUME NEW f \in Run, NEW i \in Index(f), Unheard(f, i), UNCHANGED sessionVars PROVE RestType'
  BY <1>23 DEF Unheard, Interrupting
<1>24. ASSUME Signalled, UNCHANGED sessionVars PROVE RestType'
  BY <1>24 DEF Signalled
<1>25. ASSUME Ignored, UNCHANGED sessionVars PROVE RestType'
  BY <1>25 DEF Ignored, Interrupting
<1>26. ASSUME Shutdown PROVE RestType'
  BY <1>26 DEF Shutdown
<1>27. ASSUME SessionStarts PROVE RestType'
  BY <1>27 DEF SessionStarts, ControlType
<1>28. CASE UNCHANGED vars
  BY <1>28
<1> HIDE DEF RestType, Child, vars, bridgeVars, endVars, childVars, hostVars, treeVars, jobVars, sessionVars
<1> QED
  BY <1>1, <1>2, <1>3, <1>4, <1>5, <1>6, <1>7, <1>8, <1>9, <1>10, <1>11, <1>12, <1>13, <1>14, <1>15, <1>16, <1>17, <1>18, <1>19, <1>20, <1>21, <1>22, <1>23, <1>24, <1>25, <1>26, <1>27, <1>28, Steps

\* The bridges.
LEMMA RequestNext == ASSUME RequestType, ChildType, ControlType, RestType, RequestInv, [Next]_vars PROVE RequestInv'
<1> USE ForegroundAssumption DEF RequestType, RequestInv, vars, bridgeVars, endVars, childVars, hostVars, treeVars, jobVars
<1>1. ASSUME NEW f \in Run, Refuse(f) PROVE RequestInv'
  BY <1>1 DEF Refuse, Admitted, Requested, Answer, Reply
<1>2. ASSUME NEW f \in Run, CancelledBeforeStart(f) PROVE RequestInv'
  BY <1>2 DEF CancelledBeforeStart, Requested, Answer, Reply
<1>3. ASSUME NEW f \in Run, RunInBackground(f) PROVE RequestInv'
  BY <1>3 DEF RunInBackground, Admitted, Requested, Answer, Reply, Launch
<1>4. ASSUME NEW f \in Run, Begin(f) PROVE RequestInv'
  BY <1>4 DEF Begin, Enter, Admitted, Requested, GoLive, Start, CheckOut
<1>5. ASSUME NEW f \in Run, OpenDialog(f) PROVE RequestInv'
  BY <1>5 DEF OpenDialog, Enter, Admitted, Requested, GoLive
<1>6. ASSUME NEW f \in Run, CloseDialog(f), DialogGivesUp(f) PROVE RequestInv'
  BY <1>6 DEF CloseDialog, DialogGivesUp, Answer, Reply, Leave
<1>7. ASSUME NEW f \in Run, CloseDialog(f), DialogToBackground(f) PROVE RequestInv'
  BY <1>7 DEF CloseDialog, DialogToBackground, Answer, Reply, Leave, Launch
<1>8. ASSUME NEW f \in Run, CloseDialog(f), DialogConfirmed(f) PROVE RequestInv'
  BY <1>8 DEF CloseDialog, DialogConfirmed, Start, CheckOut
<1>9. ASSUME NEW f \in Run, Cancel(f) PROVE RequestInv'
  BY <1>9 DEF Cancel, Cancellable
<1>10. ASSUME NEW f \in Run, Collected(f) PROVE RequestInv'
  BY <1>10 DEF Collected, RunEnds, Reply
<1>11. ASSUME NEW f \in Run, Offered(f) PROVE RequestInv'
  BY <1>11 DEF Offered
<1>12. ASSUME NEW f \in Run, Receipt(f) PROVE RequestInv'
  BY <1>12 DEF Receipt, WriteDiffs, Answer, Reply, Leave, Cleanup
<1>13. ASSUME NEW f \in Run, NEW i \in Index(f), Progress(f, i) PROVE RequestInv'
  BY <1>13 DEF Progress, Show
<1>14. ASSUME NEW f \in Run, NEW i \in Index(f), NeedsAttention(f, i) PROVE RequestInv'
  BY <1>14 DEF NeedsAttention, Show
<1>15. ASSUME NEW f \in Run, NEW i \in Index(f), NoticeTimer(<<f, i>>) PROVE RequestInv'
  BY <1>15 DEF NoticeTimer, Actionable
<1>16. ASSUME NEW f \in Run, NEW i \in Index(f), Thrown(f, i) PROVE RequestInv'
  BY <1>16 DEF Thrown, RunEnds, Reply
<1>17. ASSUME NEW f \in Run, NEW i \in Index(f), NEW s \in Ending, NEW n \in 0 .. Tasks[f], Settled(f, i, s, n) PROVE RequestInv'
  BY <1>17 DEF Settled, Ending
<1>18. ASSUME NEW f \in Run, NEW i \in Index(f), DetachedExits(<<f, i>>) PROVE RequestInv'
  BY <1>18 DEF DetachedExits
<1>19. ASSUME NEW f \in Run, NEW i \in Index(f), Resume(f, i) PROVE RequestInv'
  BY <1>19 DEF Resume, Resumable, Launch
<1>20. ASSUME NEW j \in Job, JobEnds(j) PROVE RequestInv'
  BY <1>20 DEF JobEnds
<1>21. ASSUME NEW j \in Job, Tracker(j) PROVE RequestInv'
  BY <1>21 DEF Tracker
<1>22. ASSUME NEW f \in Run, NEW i \in Index(f), Heard(f, i) PROVE RequestInv'
  BY <1>22 DEF Heard, Interrupting
<1>23. ASSUME NEW f \in Run, NEW i \in Index(f), Unheard(f, i) PROVE RequestInv'
  BY <1>23 DEF Unheard, Interrupting
<1>24. ASSUME Signalled PROVE RequestInv'
  BY <1>24 DEF Signalled
<1>25. ASSUME Ignored PROVE RequestInv'
  BY <1>25 DEF Ignored, Interrupting
<1>26. ASSUME Shutdown PROVE RequestInv'
  BY <1>26 DEF Shutdown
<1>27. ASSUME SessionStarts PROVE RequestInv'
  BY <1>27 DEF SessionStarts
<1>28. CASE UNCHANGED vars
  BY <1>28
<1> HIDE DEF RequestType, RequestInv, vars, bridgeVars, endVars, childVars, hostVars, treeVars, jobVars
<1> QED
  BY <1>1, <1>2, <1>3, <1>4, <1>5, <1>6, <1>7, <1>8, <1>9, <1>10, <1>11, <1>12, <1>13, <1>14, <1>15, <1>16, <1>17, <1>18, <1>19, <1>20, <1>21, <1>22, <1>23, <1>24, <1>25, <1>26, <1>27, <1>28, Steps

\* The controls.
LEMMA ControlNext == ASSUME RequestType, ChildType, ControlType, RestType, ControlInv, [Next]_vars PROVE ControlInv'
<1> USE ForegroundAssumption DEF RequestType, RestType, ControlInv, vars, bridgeVars, endVars, childVars, hostVars, treeVars, jobVars, sessionVars
<1>1. ASSUME NEW f \in Run, Refuse(f), UNCHANGED sessionVars PROVE ControlInv'
  BY <1>1 DEF Refuse, Admitted, Requested, Answer, Reply
<1>2. ASSUME NEW f \in Run, CancelledBeforeStart(f), UNCHANGED sessionVars PROVE ControlInv'
  BY <1>2 DEF CancelledBeforeStart, Requested, Answer, Reply
<1>3. ASSUME NEW f \in Run, RunInBackground(f), UNCHANGED sessionVars PROVE ControlInv'
  BY <1>3 DEF RunInBackground, Admitted, Requested, Answer, Reply, Launch
<1>4. ASSUME NEW f \in Run, Begin(f), UNCHANGED sessionVars PROVE ControlInv'
  BY <1>4 DEF Begin, Enter, Admitted, Requested, GoLive, Start, CheckOut
<1>5. ASSUME NEW f \in Run, OpenDialog(f), UNCHANGED sessionVars PROVE ControlInv'
  BY <1>5 DEF OpenDialog, Enter, Admitted, Requested, GoLive
<1>6. ASSUME NEW f \in Run, CloseDialog(f), DialogGivesUp(f), UNCHANGED sessionVars PROVE ControlInv'
  BY <1>6 DEF CloseDialog, DialogGivesUp, Answer, Reply, Leave
<1>7. ASSUME NEW f \in Run, CloseDialog(f), DialogToBackground(f), UNCHANGED sessionVars PROVE ControlInv'
  BY <1>7 DEF CloseDialog, DialogToBackground, Answer, Reply, Leave, Launch
<1>8. ASSUME NEW f \in Run, CloseDialog(f), DialogConfirmed(f), UNCHANGED sessionVars PROVE ControlInv'
  BY <1>8 DEF CloseDialog, DialogConfirmed, Start, CheckOut
<1>9. ASSUME NEW f \in Run, Cancel(f), UNCHANGED sessionVars PROVE ControlInv'
  BY <1>9 DEF Cancel, Cancellable
<1>10. ASSUME NEW f \in Run, Collected(f), UNCHANGED sessionVars PROVE ControlInv'
  BY <1>10 DEF Collected, RunEnds, Reply
<1>11. ASSUME NEW f \in Run, Offered(f), UNCHANGED sessionVars PROVE ControlInv'
  BY <1>11 DEF Offered
<1>12. ASSUME NEW f \in Run, Receipt(f), UNCHANGED sessionVars PROVE ControlInv'
  BY <1>12 DEF Receipt, WriteDiffs, Answer, Reply, Leave, Cleanup
<1>13. ASSUME NEW f \in Run, NEW i \in Index(f), Progress(f, i), UNCHANGED sessionVars PROVE ControlInv'
  BY <1>13 DEF Progress, Show
<1>14. ASSUME NEW f \in Run, NEW i \in Index(f), NeedsAttention(f, i), UNCHANGED sessionVars PROVE ControlInv'
  BY <1>14 DEF NeedsAttention, Show
<1>15. ASSUME NEW f \in Run, NEW i \in Index(f), NoticeTimer(<<f, i>>), UNCHANGED sessionVars PROVE ControlInv'
  BY <1>15 DEF NoticeTimer, Actionable
<1>16. ASSUME NEW f \in Run, NEW i \in Index(f), Thrown(f, i), UNCHANGED sessionVars PROVE ControlInv'
  BY <1>16 DEF Thrown, RunEnds, Reply
<1>17. ASSUME NEW f \in Run, NEW i \in Index(f), NEW s \in Ending, NEW n \in 0 .. Tasks[f], Settled(f, i, s, n), UNCHANGED sessionVars PROVE ControlInv'
  BY <1>17 DEF Settled, Ending
<1>18. ASSUME NEW f \in Run, NEW i \in Index(f), DetachedExits(<<f, i>>), UNCHANGED sessionVars PROVE ControlInv'
  BY <1>18 DEF DetachedExits
<1>19. ASSUME NEW f \in Run, NEW i \in Index(f), Resume(f, i), UNCHANGED sessionVars PROVE ControlInv'
  BY <1>19 DEF Resume, Resumable, Launch
<1>20. ASSUME NEW j \in Job, JobEnds(j), UNCHANGED sessionVars PROVE ControlInv'
  BY <1>20 DEF JobEnds
<1>21. ASSUME NEW j \in Job, Tracker(j), UNCHANGED sessionVars PROVE ControlInv'
  BY <1>21 DEF Tracker
<1>22. ASSUME NEW f \in Run, NEW i \in Index(f), Heard(f, i), UNCHANGED sessionVars PROVE ControlInv'
  BY <1>22 DEF Heard, Interrupting
<1>23. ASSUME NEW f \in Run, NEW i \in Index(f), Unheard(f, i), UNCHANGED sessionVars PROVE ControlInv'
  BY <1>23 DEF Unheard, Interrupting
<1>24. ASSUME Signalled, UNCHANGED sessionVars PROVE ControlInv'
  BY <1>24 DEF Signalled
<1>25. ASSUME Ignored, UNCHANGED sessionVars PROVE ControlInv'
  BY <1>25 DEF Ignored, Interrupting
<1>26. ASSUME Shutdown PROVE ControlInv'
  BY <1>26 DEF Shutdown
<1>27. ASSUME SessionStarts PROVE ControlInv'
  BY <1>27 DEF SessionStarts
<1>28. CASE UNCHANGED vars
  BY <1>28
<1> HIDE DEF RequestType, RestType, ControlInv, vars, bridgeVars, endVars, childVars, hostVars, treeVars, jobVars, sessionVars
<1> QED
  BY <1>1, <1>2, <1>3, <1>4, <1>5, <1>6, <1>7, <1>8, <1>9, <1>10, <1>11, <1>12, <1>13, <1>14, <1>15, <1>16, <1>17, <1>18, <1>19, <1>20, <1>21, <1>22, <1>23, <1>24, <1>25, <1>26, <1>27, <1>28, Steps

\* The children.
LEMMA ChildNext == ASSUME RequestType, ChildType, ControlType, RestType, ChildInv, [Next]_vars PROVE ChildInv'
<1> USE ForegroundAssumption DEF RequestType, ChildType, RestType, ChildInv, Open, Running, Has, Index, vars, bridgeVars, endVars, childVars, hostVars, treeVars, jobVars
<1>1. ASSUME NEW f \in Run, Refuse(f) PROVE ChildInv'
  BY <1>1 DEF Refuse, Admitted, Requested, Answer, Reply
<1>2. ASSUME NEW f \in Run, CancelledBeforeStart(f) PROVE ChildInv'
  BY <1>2 DEF CancelledBeforeStart, Requested, Answer, Reply
<1>3. ASSUME NEW f \in Run, RunInBackground(f) PROVE ChildInv'
  BY <1>3 DEF RunInBackground, Admitted, Requested, Answer, Reply, Launch
<1>4. ASSUME NEW f \in Run, Begin(f) PROVE ChildInv'
  <2>1. 1 \in Index(f) /\ \A k \in Index(f) : child[f][k] = "waiting" /\ <<f, k>> \notin alive
    <3>1. phase[f] \in {"idle", "clarify"}
      BY <1>4 DEF Begin, Enter, Admitted, Requested
    <3>2. \A k \in Index(f) : child[f][k] = "waiting"
      BY <3>1
    <3>3. Tasks[f] \in Nat \ {0}
      OBVIOUS
    <3>4. 1 \in Index(f)
      BY <3>3
    <3>5. \A k \in Index(f) : <<f, k>> \notin alive
      BY <3>2
    <3> QED
      BY <3>2, <3>4, <3>5
  <2>2. ASSUME NEW g \in Run, phase'[g] \in {"idle", "clarify"} PROVE \A k \in Index(g) : child'[g][k] = "waiting"
    BY <1>4, <2>2, <2>1 DEF Begin, Enter, Start, CheckOut
  <2>3. ASSUME NEW g \in Run, phase'[g] = "receipt" \/ g \in Range(remembered') \/ (worktree'[g] = "removed" /\ ~Has(g, {"threw"})')
        PROVE  ~Has(g, Open)'
    <3>1. g # f
      <4>1. Has(f, Open) /\ ~Has(f, {"threw"})
        BY <2>1
      <4>2. worktree[f] # "removed" /\ f \notin Range(remembered)
        BY <4>1
      <4>3. worktree'[f] # "removed" /\ phase'[f] = "running" /\ remembered' = remembered
        BY <1>4, <4>2 DEF Begin, Enter, Start, CheckOut
      <4> QED
        BY <2>3, <4>2, <4>3
    <3> QED
      BY <1>4, <2>3, <3>1 DEF Begin, Enter, Start, CheckOut
  <2>4. ASSUME NEW g \in Run, NEW k \in Index(g), <<g, k>> \in alive' PROVE child'[g][k] \in Running \cup {"detached", "both"}
    BY <1>4, <2>4, <2>1 DEF Begin, Enter, Start, CheckOut
  <2> QED
    BY <2>2, <2>3, <2>4
<1>5. ASSUME NEW f \in Run, OpenDialog(f) PROVE ChildInv'
  BY <1>5 DEF OpenDialog, Enter, Admitted, Requested, GoLive
<1>6. ASSUME NEW f \in Run, CloseDialog(f), DialogGivesUp(f) PROVE ChildInv'
  BY <1>6 DEF CloseDialog, DialogGivesUp, Answer, Reply, Leave
<1>7. ASSUME NEW f \in Run, CloseDialog(f), DialogToBackground(f) PROVE ChildInv'
  BY <1>7 DEF CloseDialog, DialogToBackground, Answer, Reply, Leave, Launch
<1>8. ASSUME NEW f \in Run, CloseDialog(f), DialogConfirmed(f) PROVE ChildInv'
  <2>1. 1 \in Index(f) /\ \A k \in Index(f) : child[f][k] = "waiting" /\ <<f, k>> \notin alive
    <3>1. phase[f] \in {"idle", "clarify"}
      BY <1>8 DEF CloseDialog
    <3>2. \A k \in Index(f) : child[f][k] = "waiting"
      BY <3>1
    <3>3. Tasks[f] \in Nat \ {0}
      OBVIOUS
    <3>4. 1 \in Index(f)
      BY <3>3
    <3>5. \A k \in Index(f) : <<f, k>> \notin alive
      BY <3>2
    <3> QED
      BY <3>2, <3>4, <3>5
  <2>2. ASSUME NEW g \in Run, phase'[g] \in {"idle", "clarify"} PROVE \A k \in Index(g) : child'[g][k] = "waiting"
    BY <1>8, <2>2, <2>1 DEF CloseDialog, DialogConfirmed, Start, CheckOut
  <2>3. ASSUME NEW g \in Run, phase'[g] = "receipt" \/ g \in Range(remembered') \/ (worktree'[g] = "removed" /\ ~Has(g, {"threw"})')
        PROVE  ~Has(g, Open)'
    <3>1. g # f
      <4>1. Has(f, Open) /\ ~Has(f, {"threw"})
        BY <2>1
      <4>2. worktree[f] # "removed" /\ f \notin Range(remembered)
        BY <4>1
      <4>3. worktree'[f] # "removed" /\ phase'[f] = "running" /\ remembered' = remembered
        BY <1>8, <4>2 DEF CloseDialog, DialogConfirmed, Start, CheckOut
      <4> QED
        BY <2>3, <4>2, <4>3
    <3> QED
      BY <1>8, <2>3, <3>1 DEF CloseDialog, DialogConfirmed, Start, CheckOut
  <2>4. ASSUME NEW g \in Run, NEW k \in Index(g), <<g, k>> \in alive' PROVE child'[g][k] \in Running \cup {"detached", "both"}
    BY <1>8, <2>4, <2>1 DEF CloseDialog, DialogConfirmed, Start, CheckOut
  <2> QED
    BY <2>2, <2>3, <2>4
<1>9. ASSUME NEW f \in Run, Cancel(f) PROVE ChildInv'
  BY <1>9 DEF Cancel, Cancellable
<1>10. ASSUME NEW f \in Run, Collected(f) PROVE ChildInv'
  <2>1. Range(remembered') \subseteq Range(remembered) \cup {f}
    BY <1>10, Remembering DEF Collected, RestType
  <2> QED
    BY <1>10, <2>1 DEF Collected, RunEnds
<1>11. ASSUME NEW f \in Run, Offered(f) PROVE ChildInv'
  <2>1. Range(remembered') \subseteq Range(remembered) \cup {f}
    BY <1>11, Remembering DEF Offered, RestType
  <2>2. child' = child /\ alive' = alive /\ worktree' = worktree /\ phase' = [phase EXCEPT ![f] = "receipt"]
    BY <1>11 DEF Offered
  <2>3. \A k \in Index(f) : child[f][k] \notin Open
    BY <1>11 DEF Offered
  <2> QED
    BY <2>1, <2>2, <2>3
<1>12. ASSUME NEW f \in Run, Receipt(f) PROVE ChildInv'
  BY <1>12 DEF Receipt, WriteDiffs, Answer, Reply, Leave, Cleanup
<1>13. ASSUME NEW f \in Run, NEW i \in Index(f), Progress(f, i) PROVE ChildInv'
  BY <1>13 DEF Progress, Show
<1>14. ASSUME NEW f \in Run, NEW i \in Index(f), NeedsAttention(f, i) PROVE ChildInv'
  BY <1>14 DEF NeedsAttention, Show
<1>15. ASSUME NEW f \in Run, NEW i \in Index(f), NoticeTimer(<<f, i>>) PROVE ChildInv'
  BY <1>15 DEF NoticeTimer, Actionable
<1>16. ASSUME NEW f \in Run, NEW i \in Index(f), Thrown(f, i) PROVE ChildInv'
  BY <1>16 DEF Thrown, RunEnds, Reply
<1>17. ASSUME NEW f \in Run, NEW i \in Index(f), NEW s \in Ending, NEW n \in 0 .. Tasks[f], Settled(f, i, s, n) PROVE ChildInv'
  <2>1. ASSUME NEW g \in Run, phase'[g] \in {"idle", "clarify"} PROVE \A k \in Index(g) : child'[g][k] = "waiting"
    BY <1>17, <2>1 DEF Settled, Ending
  <2>2. ASSUME NEW g \in Run, phase'[g] = "receipt" \/ g \in Range(remembered') \/ (worktree'[g] = "removed" /\ ~Has(g, {"threw"})')
        PROVE  ~Has(g, Open)'
    <3>1. CASE g = f
      <4>1. child[f][i] \in Running /\ worktree' = worktree /\ phase' = phase /\ remembered' = remembered
        BY <1>17 DEF Settled
      <4>4. Has(f, Open)
        BY <4>1
      <4>5. phase[f] # "receipt" /\ f \notin Range(remembered) /\ (worktree[f] = "removed" => Has(f, {"threw"}))
        BY <4>4
      <4>6. worktree[f] = "removed"
        BY <2>2, <3>1, <4>1, <4>5
      <4>2. PICK k \in Index(f) : child[f][k] = "threw"
        BY <4>5, <4>6
      <4>3. child'[f][k] = "threw"
        BY <1>17, <4>1, <4>2 DEF Settled
      <4> QED
        BY <2>2, <3>1, <4>1, <4>3
    <3>2. CASE g # f
      BY <1>17, <2>2, <3>2 DEF Settled
    <3> QED
      BY <3>1, <3>2
  <2>3. ASSUME NEW g \in Run, NEW k \in Index(g), <<g, k>> \in alive' PROVE child'[g][k] \in Running \cup {"detached", "both"}
    BY <1>17, <2>3 DEF Settled, Ending
  <2> QED
    BY <2>1, <2>2, <2>3
<1>18. ASSUME NEW f \in Run, NEW i \in Index(f), DetachedExits(<<f, i>>) PROVE ChildInv'
  BY <1>18 DEF DetachedExits
<1>19. ASSUME NEW f \in Run, NEW i \in Index(f), Resume(f, i) PROVE ChildInv'
  BY <1>19 DEF Resume, Resumable, Launch
<1>20. ASSUME NEW j \in Job, JobEnds(j) PROVE ChildInv'
  BY <1>20 DEF JobEnds
<1>21. ASSUME NEW j \in Job, Tracker(j) PROVE ChildInv'
  BY <1>21 DEF Tracker
<1>22. ASSUME NEW f \in Run, NEW i \in Index(f), Heard(f, i) PROVE ChildInv'
  <2>1. HeardChild(f, i)
    BY <1>22, HeardChildren
  <2> HIDE DEF ChildInv
  <2> QED
    BY <2>1, HeardKeeps
<1>23. ASSUME NEW f \in Run, NEW i \in Index(f), Unheard(f, i) PROVE ChildInv'
  BY <1>23 DEF Unheard, Interrupting
<1>24. ASSUME Signalled PROVE ChildInv'
  BY <1>24 DEF Signalled
<1>25. ASSUME Ignored PROVE ChildInv'
  BY <1>25 DEF Ignored, Interrupting
<1>26. ASSUME Shutdown PROVE ChildInv'
  BY <1>26 DEF Shutdown
<1>27. ASSUME SessionStarts PROVE ChildInv'
  BY <1>27 DEF SessionStarts
<1>28. CASE UNCHANGED vars
  BY <1>28
<1> HIDE DEF RequestType, ChildType, RestType, ChildInv, Open, Running, Has, Index, vars, bridgeVars, endVars, childVars, hostVars, treeVars, jobVars
<1> QED
  BY <1>1, <1>2, <1>3, <1>4, <1>5, <1>6, <1>7, <1>8, <1>9, <1>10, <1>11, <1>12, <1>13, <1>14, <1>15, <1>16, <1>17, <1>18, <1>19, <1>20, <1>21, <1>22, <1>23, <1>24, <1>25, <1>26, <1>27, <1>28, Steps

\* The sessions.
LEMMA SessionNext == ASSUME RequestType, ChildType, ControlType, RestType, ChildInv, SessionInv, [Next]_vars PROVE SessionInv'
<1> USE ForegroundAssumption DEF RequestType, ChildType, RestType, ChildInv, SessionInv, Open, Running, Has, Index, vars, bridgeVars, endVars, childVars, hostVars, treeVars, jobVars
<1>1. ASSUME NEW f \in Run, Refuse(f) PROVE SessionInv'
  BY <1>1 DEF Refuse, Admitted, Requested, Answer, Reply
<1>2. ASSUME NEW f \in Run, CancelledBeforeStart(f) PROVE SessionInv'
  BY <1>2 DEF CancelledBeforeStart, Requested, Answer, Reply
<1>3. ASSUME NEW f \in Run, RunInBackground(f) PROVE SessionInv'
  <2>1. PICK j \in Job : Launch(j, None)
    BY <1>3 DEF RunInBackground
  <2>2. child' = child /\ job' = [job EXCEPT ![j] = "running"] /\ session' = [session EXCEPT ![j] = None]
    BY <1>3, <2>1 DEF RunInBackground, Launch
  <2>3. ASSUME NEW k \in Job, NEW g \in Run, NEW l \in Index(g), job'[k] = "running", session'[k] = <<g, l>>
        PROVE  child'[g][l] \notin Open \cup {"detached", "both"}
    <3>1. <<g, l>> # None
      BY NoneAssumption DEF Child
    <3>4. session'[j] = None
      BY <2>2
    <3>2. k # j
      BY <2>3, <3>1, <3>4
    <3>3. job[k] = "running" /\ session[k] = <<g, l>>
      BY <2>2, <2>3, <3>2
    <3> QED
      BY <2>2, <3>3
  <2> QED
    BY <2>3
<1>4. ASSUME NEW f \in Run, Begin(f) PROVE SessionInv'
  BY <1>4 DEF Begin, Enter, Admitted, Requested, GoLive, Start, CheckOut
<1>5. ASSUME NEW f \in Run, OpenDialog(f) PROVE SessionInv'
  BY <1>5 DEF OpenDialog, Enter, Admitted, Requested, GoLive
<1>6. ASSUME NEW f \in Run, CloseDialog(f), DialogGivesUp(f) PROVE SessionInv'
  BY <1>6 DEF CloseDialog, DialogGivesUp, Answer, Reply, Leave
<1>7. ASSUME NEW f \in Run, CloseDialog(f), DialogToBackground(f) PROVE SessionInv'
  <2>1. PICK j \in Job : Launch(j, None)
    BY <1>7 DEF DialogToBackground
  <2>2. child' = child /\ job' = [job EXCEPT ![j] = "running"] /\ session' = [session EXCEPT ![j] = None]
    BY <1>7, <2>1 DEF DialogToBackground, Launch
  <2>3. ASSUME NEW k \in Job, NEW g \in Run, NEW l \in Index(g), job'[k] = "running", session'[k] = <<g, l>>
        PROVE  child'[g][l] \notin Open \cup {"detached", "both"}
    <3>1. <<g, l>> # None
      BY NoneAssumption DEF Child
    <3>4. session'[j] = None
      BY <2>2
    <3>2. k # j
      BY <2>3, <3>1, <3>4
    <3>3. job[k] = "running" /\ session[k] = <<g, l>>
      BY <2>2, <2>3, <3>2
    <3> QED
      BY <2>2, <3>3
  <2> QED
    BY <2>3
<1>8. ASSUME NEW f \in Run, CloseDialog(f), DialogConfirmed(f) PROVE SessionInv'
  BY <1>8 DEF CloseDialog, DialogConfirmed, Start, CheckOut
<1>9. ASSUME NEW f \in Run, Cancel(f) PROVE SessionInv'
  BY <1>9 DEF Cancel, Cancellable
<1>10. ASSUME NEW f \in Run, Collected(f) PROVE SessionInv'
  BY <1>10 DEF Collected, RunEnds, Reply
<1>11. ASSUME NEW f \in Run, Offered(f) PROVE SessionInv'
  BY <1>11 DEF Offered
<1>12. ASSUME NEW f \in Run, Receipt(f) PROVE SessionInv'
  BY <1>12 DEF Receipt, WriteDiffs, Answer, Reply, Leave, Cleanup
<1>13. ASSUME NEW f \in Run, NEW i \in Index(f), Progress(f, i) PROVE SessionInv'
  BY <1>13 DEF Progress, Show
<1>14. ASSUME NEW f \in Run, NEW i \in Index(f), NeedsAttention(f, i) PROVE SessionInv'
  BY <1>14 DEF NeedsAttention, Show
<1>15. ASSUME NEW f \in Run, NEW i \in Index(f), NoticeTimer(<<f, i>>) PROVE SessionInv'
  BY <1>15 DEF NoticeTimer, Actionable
<1>16. ASSUME NEW f \in Run, NEW i \in Index(f), Thrown(f, i) PROVE SessionInv'
  BY <1>16 DEF Thrown, RunEnds, Reply
<1>17. ASSUME NEW f \in Run, NEW i \in Index(f), NEW s \in Ending, NEW n \in 0 .. Tasks[f], Settled(f, i, s, n) PROVE SessionInv'
  BY <1>17 DEF Settled, Ending
<1>18. ASSUME NEW f \in Run, NEW i \in Index(f), DetachedExits(<<f, i>>) PROVE SessionInv'
  BY <1>18 DEF DetachedExits
<1>19. ASSUME NEW f \in Run, NEW i \in Index(f), Resume(f, i) PROVE SessionInv'
  <2>1. child[f][i] \notin Open \cup {"detached", "both"}
    BY <1>19 DEF Resume, Resumable
  <2>2. PICK j \in Job : Launch(j, <<f, i>>)
    BY <1>19 DEF Resume
  <2>3. child' = child /\ job' = [job EXCEPT ![j] = "running"] /\ session' = [session EXCEPT ![j] = <<f, i>>]
    BY <1>19, <2>2 DEF Resume, Launch
  <2>4. ASSUME NEW k \in Job, NEW g \in Run, NEW l \in Index(g), job'[k] = "running", session'[k] = <<g, l>>
        PROVE  child'[g][l] \notin Open \cup {"detached", "both"}
    <3>1. CASE k = j
      <4>1. g = f /\ l = i
        BY <2>3, <2>4, <3>1
      <4> QED
        BY <2>1, <2>3, <4>1
    <3>2. CASE k # j
      BY <2>3, <2>4, <3>2
    <3> QED
      BY <3>1, <3>2
  <2> QED
    BY <2>4
<1>20. ASSUME NEW j \in Job, JobEnds(j) PROVE SessionInv'
  BY <1>20 DEF JobEnds
<1>21. ASSUME NEW j \in Job, Tracker(j) PROVE SessionInv'
  BY <1>21 DEF Tracker
<1>22. ASSUME NEW f \in Run, NEW i \in Index(f), Heard(f, i) PROVE SessionInv'
  BY <1>22 DEF Heard, Interrupting
<1>23. ASSUME NEW f \in Run, NEW i \in Index(f), Unheard(f, i) PROVE SessionInv'
  BY <1>23 DEF Unheard, Interrupting
<1>24. ASSUME Signalled PROVE SessionInv'
  BY <1>24 DEF Signalled
<1>25. ASSUME Ignored PROVE SessionInv'
  BY <1>25 DEF Ignored, Interrupting
<1>26. ASSUME Shutdown PROVE SessionInv'
  BY <1>26 DEF Shutdown
<1>27. ASSUME SessionStarts PROVE SessionInv'
  BY <1>27 DEF SessionStarts
<1>28. CASE UNCHANGED vars
  BY <1>28
<1> HIDE DEF RequestType, ChildType, RestType, ChildInv, SessionInv, Open, Running, Has, Index, vars, bridgeVars, endVars, childVars, hostVars, treeVars, jobVars
<1> QED
  BY <1>1, <1>2, <1>3, <1>4, <1>5, <1>6, <1>7, <1>8, <1>9, <1>10, <1>11, <1>12, <1>13, <1>14, <1>15, <1>16, <1>17, <1>18, <1>19, <1>20, <1>21, <1>22, <1>23, <1>24, <1>25, <1>26, <1>27, <1>28, Steps

\* The notices.
LEMMA NoticeNext == ASSUME RequestType, ChildType, ControlType, RestType, ControlInv, ChildInv, NoticeInv, [Next]_vars PROVE NoticeInv'
<1> USE ForegroundAssumption DEF RequestType, ChildType, ControlType, ControlOf, ControlInv, ChildInv, NoticeInv, Running, Index, vars, bridgeVars, endVars, childVars, hostVars, treeVars, jobVars, sessionVars
<1>1. ASSUME NEW f \in Run, Refuse(f), UNCHANGED sessionVars PROVE NoticeInv'
  BY <1>1 DEF Refuse, Admitted, Requested, Answer, Reply
<1>2. ASSUME NEW f \in Run, CancelledBeforeStart(f), UNCHANGED sessionVars PROVE NoticeInv'
  BY <1>2 DEF CancelledBeforeStart, Requested, Answer, Reply
<1>3. ASSUME NEW f \in Run, RunInBackground(f), UNCHANGED sessionVars PROVE NoticeInv'
  BY <1>3 DEF RunInBackground, Admitted, Requested, Answer, Reply, Launch
<1>4. ASSUME NEW f \in Run, Begin(f), UNCHANGED sessionVars PROVE NoticeInv'
  BY <1>4 DEF Begin, Enter, Admitted, Requested, GoLive, Start, CheckOut
<1>5. ASSUME NEW f \in Run, OpenDialog(f), UNCHANGED sessionVars PROVE NoticeInv'
  <2>1. \A k \in Index(f) : child[f][k] = "waiting"
    BY <1>5 DEF OpenDialog, Enter, Admitted, Requested
  <2>2. Tasks[f] = 1 => 1 \in Index(f)
    OBVIOUS
  <2> QED
    BY <1>5, <2>1, <2>2 DEF OpenDialog, Enter
<1>6. ASSUME NEW f \in Run, CloseDialog(f), DialogGivesUp(f), UNCHANGED sessionVars PROVE NoticeInv'
  BY <1>6 DEF CloseDialog, DialogGivesUp, Answer, Reply, Leave
<1>7. ASSUME NEW f \in Run, CloseDialog(f), DialogToBackground(f), UNCHANGED sessionVars PROVE NoticeInv'
  BY <1>7 DEF CloseDialog, DialogToBackground, Answer, Reply, Leave, Launch
<1>8. ASSUME NEW f \in Run, CloseDialog(f), DialogConfirmed(f), UNCHANGED sessionVars PROVE NoticeInv'
  BY <1>8 DEF CloseDialog, DialogConfirmed, Start, CheckOut
<1>9. ASSUME NEW f \in Run, Cancel(f), UNCHANGED sessionVars PROVE NoticeInv'
  BY <1>9 DEF Cancel, Cancellable
<1>10. ASSUME NEW f \in Run, Collected(f), UNCHANGED sessionVars PROVE NoticeInv'
  BY <1>10 DEF Collected, RunEnds, Reply
<1>11. ASSUME NEW f \in Run, Offered(f), UNCHANGED sessionVars PROVE NoticeInv'
  BY <1>11 DEF Offered
<1>12. ASSUME NEW f \in Run, Receipt(f), UNCHANGED sessionVars PROVE NoticeInv'
  BY <1>12 DEF Receipt, WriteDiffs, Answer, Reply, Leave, Cleanup
<1>13. ASSUME NEW f \in Run, NEW i \in Index(f), Progress(f, i), UNCHANGED sessionVars PROVE NoticeInv'
  <2>1. control[f] \in ControlOf(f) /\ DOMAIN control = Run
    OBVIOUS
  <2>2. UNCHANGED <<child, controls, attention, claimed, pending, visible, disposed>>
    BY <1>13 DEF Progress
  <2>3. \A g \in Run \ {f} : control'[g] = control[g]
    BY <1>13, <2>1 DEF Progress, Show
  <2>4. f \in controls => control'[f].index = i
    BY <1>13, <2>1 DEF Progress, Show
  <2>5. f \in controls /\ <<f, i>> \in attention => control'[f].attention
    BY <1>13, <2>1 DEF Progress, Show
  <2>6. ASSUME NEW g \in Run, Tasks[g] = 1, g \in controls, child[g][1] = "running"
        PROVE  /\ control'[g].index = 1
               /\ <<g, 1>> \in claimed => <<g, 1>> \in attention /\ control'[g].attention /\ (disposed \/ <<g, 1>> \in pending \cup visible)
    <3>1. CASE g = f
      <4>1. i = 1
        BY <2>6, <3>1
      <4> QED
        BY <2>4, <2>5, <2>6, <3>1, <4>1
    <3>2. CASE g # f
      BY <2>3, <2>6, <3>2
    <3> QED
      BY <3>1, <3>2
  <2> QED
    BY <2>2, <2>6
<1>14. ASSUME NEW f \in Run, NEW i \in Index(f), NeedsAttention(f, i), UNCHANGED sessionVars PROVE NoticeInv'
  <2>1. control[f] \in ControlOf(f) /\ DOMAIN control = Run /\ child[f][i] # "waiting"
    BY <1>14 DEF NeedsAttention
  <2>2. f \in controls /\ child[f][i] \in Running => control'[f].index = i /\ control'[f].attention
    <3>1. child[f][i] \in Running => Show(f, i, TRUE)
      BY <1>14 DEF NeedsAttention
    <3>2. f \in controls /\ child[f][i] \in Running => control'[f] = [control[f] EXCEPT !.index = i, !.attention = TRUE]
      BY <2>1, <3>1 DEF Show
    <3> HIDE DEF ControlOf
    <3>3. ASSUME f \in controls, child[f][i] \in Running PROVE control'[f].index = i /\ control'[f].attention
      <4>1. control'[f] = [control[f] EXCEPT !.index = i, !.attention = TRUE]
        BY <3>2, <3>3
      <4>2. control[f] \in ControlOf(f)
        BY <2>1
      <4> HIDE DEF ControlType, ControlInv, NoticeInv
      <4> QED
        BY <4>1, <4>2, ControlFields
    <3> QED
      BY <3>3
  <2>3. \A g \in Run \ {f} : control'[g] = control[g]
    BY <1>14, <2>1 DEF NeedsAttention, Show
  <2>4. UNCHANGED <<child, controls, visible, disposed>>
    BY <1>14 DEF NeedsAttention
  <2>5. attention' = attention \cup {<<f, i>>} /\ claimed' = claimed \cup {<<f, i>>}
    BY <1>14 DEF NeedsAttention
  <2>6. pending \subseteq pending' /\ (<<f, i>> \notin claimed => disposed \/ <<f, i>> \in pending')
    BY <1>14 DEF NeedsAttention
  <2>7. <<f, i>> \notin attention
    BY <1>14 DEF NeedsAttention
  <2>8. ASSUME NEW g \in Run, Tasks[g] = 1, g \in controls, child[g][1] = "running"
        PROVE  /\ control'[g].index = 1
               /\ <<g, 1>> \in claimed' => <<g, 1>> \in attention' /\ control'[g].attention /\ (disposed' \/ <<g, 1>> \in pending' \cup visible')
    <3>1. CASE g = f
      <4>1. i = 1
        BY <2>8, <3>1
      <4> QED
        BY <2>2, <2>4, <2>5, <2>6, <2>7, <2>8, <3>1, <4>1
    <3>2. CASE g # f
      BY <2>3, <2>4, <2>5, <2>6, <2>8, <3>2
    <3> QED
      BY <3>1, <3>2
  <2> QED
    BY <2>1, <2>4, <2>5, <2>8
<1>15. ASSUME NEW f \in Run, NEW i \in Index(f), NoticeTimer(<<f, i>>), UNCHANGED sessionVars PROVE NoticeInv'
  BY <1>15 DEF NoticeTimer, Actionable
<1>16. ASSUME NEW f \in Run, NEW i \in Index(f), Thrown(f, i), UNCHANGED sessionVars PROVE NoticeInv'
  <2>1. ASSUME NEW g \in Run, NEW k \in Index(g), child'[g][k] = "waiting" PROVE <<g, k>> \notin claimed'
    <3>1. child' = [child EXCEPT ![f] = [child[f] EXCEPT ![i] = "threw"]] /\ claimed' = claimed
      BY <1>16 DEF Thrown, RunEnds
    <3>2. DOMAIN child = Run /\ DOMAIN child[f] = Index(f)
      OBVIOUS
    <3>3. child'[g][k] = IF g = f /\ k = i THEN "threw" ELSE child[g][k]
      BY <3>1, <3>2, ChildAt
    <3>4. child[g][k] = "waiting"
      BY <2>1, <3>3
    <3> QED
      BY <3>1, <3>4
  <2>2. ASSUME NEW g \in Run, Tasks[g] = 1, g \in controls', child'[g][1] = "running"
        PROVE  /\ control'[g].index = 1
               /\ <<g, 1>> \in claimed' => <<g, 1>> \in attention' /\ control'[g].attention /\ (disposed' \/ <<g, 1>> \in pending' \cup visible')
    <3>1. g # f /\ g \in controls /\ child[g][1] = "running" /\ control'[g] = control[g]
      BY <1>16, <2>2 DEF Thrown, RunEnds
    <3>2. \A n \in pending : n[1] = g => n \in pending'
      BY <1>16, <3>1 DEF Thrown, RunEnds
    <3> QED
      BY <1>16, <2>2, <3>1, <3>2 DEF Thrown, RunEnds
  <2>3. attention' \subseteq claimed'
    BY <1>16 DEF Thrown, RunEnds
  <2> QED
    BY <2>1, <2>2, <2>3
<1>17. ASSUME NEW f \in Run, NEW i \in Index(f), NEW s \in Ending, NEW n \in 0 .. Tasks[f], Settled(f, i, s, n), UNCHANGED sessionVars PROVE NoticeInv'
  BY <1>17 DEF Settled, Ending
<1>18. ASSUME NEW f \in Run, NEW i \in Index(f), DetachedExits(<<f, i>>), UNCHANGED sessionVars PROVE NoticeInv'
  BY <1>18 DEF DetachedExits
<1>19. ASSUME NEW f \in Run, NEW i \in Index(f), Resume(f, i), UNCHANGED sessionVars PROVE NoticeInv'
  BY <1>19 DEF Resume, Resumable, Launch
<1>20. ASSUME NEW j \in Job, JobEnds(j), UNCHANGED sessionVars PROVE NoticeInv'
  BY <1>20 DEF JobEnds
<1>21. ASSUME NEW j \in Job, Tracker(j), UNCHANGED sessionVars PROVE NoticeInv'
  BY <1>21 DEF Tracker
<1>22. ASSUME NEW f \in Run, NEW i \in Index(f), Heard(f, i), UNCHANGED sessionVars PROVE NoticeInv'
  BY <1>22 DEF Heard, Interrupting
<1>23. ASSUME NEW f \in Run, NEW i \in Index(f), Unheard(f, i), UNCHANGED sessionVars PROVE NoticeInv'
  BY <1>23 DEF Unheard, Interrupting
<1>24. ASSUME Signalled, UNCHANGED sessionVars PROVE NoticeInv'
  BY <1>24 DEF Signalled
<1>25. ASSUME Ignored, UNCHANGED sessionVars PROVE NoticeInv'
  BY <1>25 DEF Ignored, Interrupting
<1>26. ASSUME Shutdown PROVE NoticeInv'
  BY <1>26 DEF Shutdown
<1>27. ASSUME SessionStarts PROVE NoticeInv'
  BY <1>27 DEF SessionStarts
<1>28. CASE UNCHANGED vars
  BY <1>28
<1> HIDE DEF RequestType, ChildType, ControlType, ControlOf, ControlInv, ChildInv, NoticeInv, Running, Index, vars, bridgeVars, endVars, childVars, hostVars, treeVars, jobVars, sessionVars
<1> QED
  BY <1>1, <1>2, <1>3, <1>4, <1>5, <1>6, <1>7, <1>8, <1>9, <1>10, <1>11, <1>12, <1>13, <1>14, <1>15, <1>16, <1>17, <1>18, <1>19, <1>20, <1>21, <1>22, <1>23, <1>24, <1>25, <1>26, <1>27, <1>28, Steps

LEMMA Initially == Init => Inv
<1> SUFFICES ASSUME Init PROVE Inv
  OBVIOUS
<1> USE ForegroundAssumption DEF Init
<1>1. RequestType
  BY DEF RequestType
<1>2. ChildType
  BY DEF ChildType, Open, Running
<1>3. ControlType
  <2>1. \A f \in Run : 0 \in 0 .. Tasks[f]
    OBVIOUS
  <2>2. \A f \in Run : NewControl \in ControlOf(f)
    BY <2>1, ControlNew
  <2> QED
    BY <2>2 DEF ControlType
<1>4. RestType
  <2>1. disposed \in BOOLEAN /\ forgotten \subseteq Run
    BY Zenon
  <2>2. remembered \in Seq(Run) /\ Len(remembered) <= RememberLimit
    OBVIOUS
  <2> QED
    BY <2>1, <2>2 DEF RestType
<1>5. RequestInv /\ ControlInv /\ SessionInv /\ NoticeInv
  BY DEF RequestInv, ControlInv, SessionInv, NoticeInv
<1>6. ChildInv
  BY DEF ChildInv, Range, Has
<1> QED
  BY <1>1, <1>2, <1>3, <1>4, <1>5, <1>6 DEF Inv

LEMMA Inductive == Spec => []Inv
<1>1. Inv /\ [Next]_vars => Inv'
  BY RequestTypeNext, ChildTypeNext, ControlTypeNext, RestTypeNext, RequestNext, ControlNext,
     ChildNext, SessionNext, NoticeNext DEF Inv
<1> QED
  BY Initially, <1>1, PTL DEF Spec

LEMMA TypesHold == Inv => TypeOK
<1> QED
  BY DEF Inv, RequestType, ChildType, ControlType, ControlOf, RestType, TypeOK

\* A request is answered exactly once however it is refused, cancelled, thrown out of, put in
\* the background or run (subagent-executor.ts, slash-bridge.ts, prompt-template-bridge.ts); the
\* bridges agree with the executor, and no control and no worktree is left behind.
THEOREM RequestsAreAnswered == Spec => []Answered
<1>1. Inv => AnsweredOnce
  BY DEF Inv, RequestInv, AnsweredOnce
<1>2. Inv => EndsClean
  <2> SUFFICES ASSUME Inv, NEW f \in Run
               PROVE  /\ phase[f] = "ended" => f \notin controls /\ latest # f /\ worktree[f] # "present"
                      /\ phase[f] \in {"clarify", "running", "receipt"} => f \in controls \cup forgotten
                      /\ worktree[f] = "removed" /\ ~Has(f, {"threw"}) =>
                           \A i \in Index(f) : <<f, i>> \in alive => child[f][i] \in {"detached", "both"}
    BY DEF EndsClean
  <2>1. phase[f] = "ended" => f \notin controls /\ latest # f /\ worktree[f] # "present"
    BY ForegroundAssumption DEF Inv, ControlInv
  <2>2. phase[f] \in {"clarify", "running", "receipt"} => f \in controls \cup forgotten
    BY DEF Inv, ControlInv
  <2>3. worktree[f] = "removed" /\ ~Has(f, {"threw"}) => ~Has(f, Open)
    BY DEF Inv, ChildInv
  <2>4. \A i \in Index(f) : <<f, i>> \in alive => child[f][i] \in Running \cup {"detached", "both"}
    BY DEF Inv, ChildInv
  <2> QED
    BY <2>1, <2>2, <2>3, <2>4 DEF Has, Open
<1>3. Inv => Answered
  BY <1>1, <1>2, TypesHold DEF Answered
<1> QED
  BY <1>3, Inductive, PTL

\* A background run never continues the session file of a child whose process still writes it
\* (resolveResumeTarget and resumeAsyncRun of subagent-executor.ts).
THEOREM RevivedAfterExit == Spec => []ReviveOnlyAfterExit
<1>1. Inv => ReviveOnlyAfterExit
  <2> SUFFICES ASSUME Inv, NEW j \in Job, job[j] = "running", session[j] \in alive PROVE FALSE
    BY DEF ReviveOnlyAfterExit
  <2>1. PICK f \in Run : \E i \in Index(f) : session[j] = <<f, i>>
    BY DEF Inv, ChildType, Child
  <2>2. PICK i \in Index(f) : session[j] = <<f, i>>
    BY <2>1
  <2>3. child[f][i] \in Running \cup {"detached", "both"}
    BY <2>2 DEF Inv, ChildInv
  <2> QED
    BY <2>2, <2>3 DEF Inv, SessionInv, Open
<1> QED
  BY <1>1, Inductive, PTL

\* The only child of a run is never passed over while it needs attention, whatever happens to
\* other runs in the second its notice waits (control-notices.ts), as long as neither a shutdown
\* nor a new session drops the notices (extension/index.ts).
THEOREM OnlyChildIsNoticed == Spec => []SoleChildNoticed
<1>1. Inv => SoleChildNoticed
  BY DEF Inv, NoticeInv, SoleChildNoticed
<1> QED
  BY <1>1, Inductive, PTL
=============================================================================
