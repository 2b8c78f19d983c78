-------------------------------- MODULE Chain --------------------------------
(***************************************************************************)
(* Chains of subagents (runs/foreground/chain-execution.ts with            *)
(* runs/shared/dynamic-fanout.ts, chain-outputs.ts, workflow-graph.ts and  *)
(* shared/settings.ts).  A chain is a sequence of steps: one child, a      *)
(* static group of children, or a group with one child per item of an      *)
(* array that an earlier step produced.  Children are numbered through the *)
(* whole chain by flat indices, which several parts of the code count for  *)
(* themselves.  A chain may also be sent to the background, by the caller  *)
(* or from the dialog that shows it first.                                 *)
(***************************************************************************)
EXTENDS Integers, FiniteSets, Sequences, SequencesExt, Functions

CONSTANTS
  Plan,        \* the chains considered: sequences of steps
  Value,       \* structured outputs of a child: sequences of item keys
  IdOf,        \* the identifier made of a key
  Default,     \* what each agent does by itself: [output, progress]
  Edits,       \* what the user of the dialog makes of a task: [refs, readOnly, output, progress]
  Items,       \* what the text of an item puts into a task: [refs, readOnly]
  Concurrency, \* children of a group that run at the same time
  Nil          \* nothing there

\* Chains are sequences of steps, a single step and a dynamic group have one task, and
\* what is not there is no number.
ASSUME ChainAssumption ==
  /\ Concurrency \in Nat \ {0} /\ Nil \notin Int /\ Value \subseteq Seq(DOMAIN IdOf)
  /\ \A p \in Plan :
       /\ p \in Seq(Range(p))
       /\ \A s \in Range(p) :
            /\ s.kind \in {"seq", "par", "dyn"} /\ s.tasks \in Seq(Range(s.tasks))
            /\ s.kind # "par" => Len(s.tasks) = 1

\* A step is [kind, tasks, from, as, max, failFast, worktree, strict, accept].  tasks has
\* one task, the tasks of the group, or the template of a dynamic group; strict: an empty
\* array is an error.  A task is [as, refs, agent, output, fileOnly, progress,
\* readOnly]; output and progress may be Nil: as the agent has it.  refs are the names
\* that its text mentions as {outputs.name}.
Settled == {"ok", "failed", "paused", "detached", "skipped"}
Ways    == {"foreground", "background"}

VARIABLES
  plan,      \* the chain as it was given
  texts,     \* the tasks of each step as they are run: edited, or made of the items
  way,       \* how the chain was asked to run
  phase,     \* what it does: validate, dialog, begin, tasks, accept, answered
  at,        \* the current step
  index,     \* globalTaskIndex: the flat index after the last finished step
  child,     \* the state of each child of the current step
  aborted,   \* a child of a fail-fast group has failed
  results,   \* [who, state] of the children of the finished steps
  outputs,   \* the named outputs: [step, value]
  previous,  \* the children whose text is {previous}
  dynamic,   \* dynamicChildren: the flat indices of each dynamic group
  group,     \* dynamicGroupStatuses
  control,   \* foregroundControl: [index, owner of its interrupt]
  dir,       \* the chain directory
  begun,     \* how often progress.md was begun: written, or a child told to create it
  trees,     \* the steps whose worktrees exist
  answer     \* [kind, step, flat]: the result and where the graph stands

flowVars  == <<phase, at, index, child, aborted>>
dataVars  == <<results, outputs, previous, dynamic, group>>
chainVars == <<plan, texts, way, flowVars, dataVars, control, dir, begun, trees, answer>>

NoControl == [index |-> Nil, owner |-> Nil]
NoAnswer  == [kind |-> "none", step |-> Nil, flat |-> Nil]
Step      == plan[at]
Tasks     == texts[at]
Steps     == DOMAIN plan
Width     == Len(child)

ChainInit ==
  /\ plan \in Plan /\ way \in Ways /\ texts = [i \in Steps |-> plan[i].tasks]
  /\ phase = "validate" /\ at = 1 /\ index = 0
  /\ child = <<>> /\ aborted = FALSE
  /\ results = <<>> /\ outputs = <<>> /\ previous = <<>>
  /\ dynamic = [i \in Steps |-> <<>>] /\ group = [i \in Steps |-> "none"]
  /\ control = NoControl /\ dir = "none" /\ begun = 0 /\ trees = {} /\ answer = NoAnswer

-----------------------------------------------------------------------------
(* Names and items.                                                        *)

\* The names of the outputs of a step; no two of its children share one.
Names(s) ==
  IF s.kind = "dyn" THEN {s.as} ELSE {t.as : t \in Range(s.tasks)} \ {Nil}
Distinct(s) ==
  \A j, k \in DOMAIN s.tasks : s.tasks[j].as = s.tasks[k].as => j = k \/ s.tasks[k].as = Nil

\* What a step may refer to: the names of the steps before it.
Before(p, i) == UNION {Names(p[j]) : j \in 1..(i - 1)}

\* Mutant: a task may refer to the names of its own step.
BoundInStep(p) ==
  \A i \in DOMAIN p :
    /\ p[i].kind = "dyn" => p[i].from \in Before(p, i) /\ p[i].as # Nil
    /\ Distinct(p[i]) /\ Names(p[i]) \cap Before(p, i) = {}
    /\ \A k \in DOMAIN p[i].tasks :
         p[i].tasks[k].refs \subseteq Before(p, i) \cup Names(p[i])

\* validateChainOutputBindings: names are unique, and available when they are used.
Bound(p) ==
  \A i \in DOMAIN p :
    /\ p[i].kind = "dyn" => p[i].from \in Before(p, i) /\ p[i].as # Nil
    /\ Distinct(p[i]) /\ Names(p[i]) \cap Before(p, i) = {}
    /\ \A k \in DOMAIN p[i].tasks : p[i].tasks[k].refs \subseteq Before(p, i)

\* The keys a dynamic group expands to: the source is an array, not longer than allowed,
\* with keys that differ and make identifiers that differ.
Expandable(s) ==
  /\ s.from \in DOMAIN outputs
  /\ outputs[s.from].value # Nil
  /\ LET keys == outputs[s.from].value
     IN /\ Len(keys) <= s.max
        /\ IsInjective([k \in DOMAIN keys |-> IdOf[keys[k]]])
        /\ keys = <<>> => ~s.strict
Expanded(s) == Len(outputs[s.from].value)

\* resolveItemTemplate: the text of an item stands in the task made for it.
MadeFor(t, e) == [t EXCEPT !.refs = @ \cup e.refs, !.readOnly = @ \/ e.readOnly]

\* The names a child's text mentions that have no output: resolveOutputReferences throws.
Missing(k) == Tasks[k].refs \ DOMAIN outputs

-----------------------------------------------------------------------------
(* The workflow graph, which counts flat indices again.                    *)

\* Mutant: a dynamic group counts as one.
StartOfTemplates ==
  LET s[i \in 1..(Len(plan) + 1)] ==
        IF i = 1 THEN 0 ELSE s[i - 1] + Len(plan[i - 1].tasks)
  IN s

\* Where the steps start: a dynamic group counts once its children are known.
Start ==
  LET s[i \in 1..(Len(plan) + 1)] ==
        IF i = 1 THEN 0
        ELSE CASE plan[i - 1].kind = "seq" -> s[i - 1] + 1
               [] plan[i - 1].kind = "par" -> s[i - 1] + Len(plan[i - 1].tasks)
               [] OTHER -> IF dynamic[i - 1] = <<>> THEN s[i - 1]
                           ELSE Max({s[i - 1], Last(dynamic[i - 1]) + 1})
  IN s

\* The children of a step in the graph, and the flat index of each.
Nodes(i) == IF plan[i].kind = "dyn" THEN DOMAIN dynamic[i] ELSE DOMAIN plan[i].tasks
Flat(i, k) == IF plan[i].kind = "dyn" THEN dynamic[i][k] ELSE Start[i] + k - 1

NodeStatus(i, k) ==
  LET f == Flat(i, k) + 1
  IN CASE f \in DOMAIN results ->
            (CASE results[f].state = "ok" -> "completed"
               [] results[f].state = "skipped" -> "failed"
               [] OTHER -> results[f].state)
       [] f \notin DOMAIN results /\ answer.flat = f - 1 -> "running"
       [] OTHER -> "pending"

\* Whether a child writes its output to a file and keeps notes in progress.md: what the
\* step says, else what its agent does; a task that may change no file keeps none.
Writes(t) == IF t.output # Nil THEN t.output ELSE Default[t.agent].output
Keeps(t)  == (IF t.progress # Nil THEN t.progress ELSE Default[t.agent].progress) /\ ~t.readOnly

\* The tasks whose output goes only to a file that they do not have.
Blind(ts)  == {k \in DOMAIN ts : ts[k].fileOnly /\ ~Writes(ts[k])}
Noting(ts) == \E t \in Range(ts) : Keeps(t)

-----------------------------------------------------------------------------
(* Before the first step.                                                  *)

Stop(kind, flat) == phase' = "answered" /\ answer' = [kind |-> kind, step |-> at, flat |-> flat]

Refused ==
  /\ phase = "validate" /\ way = "foreground" /\ ~Bound(plan)
  /\ Stop("refused", Nil)
  /\ UNCHANGED <<plan, texts, way, at, index, child, aborted, dataVars, control, dir, begun, trees>>

\* A chain of single steps is shown in a dialog when there is a screen.
Singles == \A i \in Steps : plan[i].kind = "seq"
Opens ==
  /\ phase = "validate" /\ Bound(plan) /\ way = "foreground"
  /\ dir' = "there"
  /\ phase' \in {"begin"} \cup (IF Singles THEN {"dialog"} ELSE {})
  /\ UNCHANGED <<plan, texts, way, at, index, child, aborted, dataVars, control, begun, trees, answer>>

\* A task as the user leaves it.
EditedBy(t, e) ==
  IF e = Nil THEN t
  ELSE [t EXCEPT !.refs = e.refs, !.readOnly = e.readOnly, !.output = e.output,
                 !.progress = e.progress]

\* Confirmed, the chain starts as edited, and no name is looked at again; cancelled or
\* sent to the background, its directory goes.
DialogEnds ==
  /\ phase = "dialog"
  /\ \/ Stop("cancelled", Nil) /\ dir' = "none" /\ UNCHANGED <<texts, way>>
     \/ /\ \E e \in [Steps -> Edits \cup {Nil}] :
             texts' = [i \in Steps |-> <<EditedBy(plan[i].tasks[1], e[i])>>]
        /\ \/ phase' = "begin" /\ UNCHANGED <<dir, way>>
           \/ phase' = "validate" /\ way' = "background" /\ dir' = "none"
        /\ UNCHANGED answer
  /\ UNCHANGED <<plan, at, index, child, aborted, dataVars, control, begun, trees>>

\* The flat indices of the children known beforehand, and their session files as the
\* executor collects them: a dynamic group has an empty place.
Static(p) ==
  FlattenSeq([i \in DOMAIN p |-> IF p[i].kind = "dyn" THEN <<>>
                                 ELSE [k \in DOMAIN p[i].tasks |-> <<i, k>>]])
SessionFiles(p) ==
  FlattenSeq([i \in DOMAIN p |->
    IF p[i].kind = "dyn" THEN <<Nil>>
    ELSE [k \in DOMAIN p[i].tasks |-> CHOOSE n \in DOMAIN Static(p) : Static(p)[n] = <<i, k>>]])

\* The plan of the runner hands the files out in order, none to a dynamic group.
GivenSession(p, n) == SessionFiles(p)[n]

\* The chain with its tasks as the dialog left them.
Sent == [i \in Steps |-> [plan[i] EXCEPT !.tasks = texts[i]]]

\* A background chain is refused for its names or an output setting of any child; the
\* runner may not start.
LaunchInBackground ==
  /\ phase = "validate" /\ way = "background"
  /\ \/ Stop("refused", Nil)
     \/ Bound(Sent) /\ (\A i \in Steps : Blind(texts[i]) = {}) /\ Stop("background", Nil)
  /\ UNCHANGED <<plan, texts, way, at, index, child, aborted, dataVars, control, dir, begun, trees>>

-----------------------------------------------------------------------------
(* A step begins.                                                          *)

Completes ==
  /\ phase = "begin" /\ at > Len(plan)
  /\ Stop("completed", Nil)
  /\ UNCHANGED <<plan, texts, way, at, index, child, aborted, dataVars, control, dir, begun, trees>>

\* The named outputs with those of the current step.
Named(v) ==
  [n \in DOMAIN v \cup DOMAIN outputs |->
     IF n \in DOMAIN v THEN [step |-> at, value |-> v[n]] ELSE outputs[n]]

Begins(kind) == phase = "begin" /\ at <= Len(plan) /\ Step.kind = kind
Children(n)  == child' = [k \in 1..n |-> "waiting"] /\ aborted' = FALSE /\ phase' = "tasks"

\* progress.md is begun for the first child that keeps notes.
Notes(ts) == begun' = IF begun = 0 /\ Noting(ts) THEN 1 ELSE begun

\* The names in the task of a single step are replaced before its output is looked at.
BeginSingle ==
  /\ Begins("seq")
  /\ Notes(Tasks)
  /\ \/ Missing(1) = {} /\ Blind(Tasks) = {} /\ Children(1) /\ UNCHANGED answer
     \/ Missing(1) # {} /\ Stop("threw", Nil) /\ UNCHANGED <<child, aborted>>
     \/ Missing(1) = {} /\ Blind(Tasks) # {} /\ Stop("refused", index) /\ UNCHANGED <<child, aborted>>
  /\ UNCHANGED <<plan, texts, way, at, index, dataVars, control, dir, trees>>

\* Worktrees come first, and may fail; the output settings are checked before any child
\* starts.
BeginGroup ==
  /\ Begins("par")
  /\ \/ /\ Blind(Tasks) = {}
        /\ Notes(Tasks) /\ Children(Len(Step.tasks))
        /\ trees' = IF Step.worktree THEN trees \cup {at} ELSE trees
        /\ UNCHANGED answer
     \/ /\ Blind(Tasks) # {}
        /\ Stop("refused", index + Min(Blind(Tasks)) - 1)
        /\ UNCHANGED <<child, aborted, trees, begun>>
     \/ /\ Step.worktree
        /\ Stop("refused", index)
        /\ UNCHANGED <<child, aborted, trees, begun>>
  /\ UNCHANGED <<plan, texts, way, at, index, dataVars, control, dir>>

\* The children of a dynamic group are known only now, and their texts.
BeginDynamic ==
  /\ Begins("dyn") /\ Expandable(Step) /\ Expanded(Step) > 0
  /\ dynamic' = [dynamic EXCEPT ![at] = [k \in 1..Expanded(Step) |-> index + k - 1]]
  /\ \E e \in [1..Expanded(Step) -> Items] :
       LET made == [k \in DOMAIN e |-> MadeFor(Step.tasks[1], e[k])]
       IN /\ texts' = [texts EXCEPT ![at] = made]
          /\ IF Blind(made) = {}
             THEN Notes(made) /\ Children(Expanded(Step)) /\ UNCHANGED <<group, answer>>
             ELSE /\ group' = [group EXCEPT ![at] = "failed"] /\ Stop("refused", index)
                  /\ UNCHANGED <<child, aborted, begun>>
  /\ UNCHANGED <<plan, way, at, index, results, outputs, previous, control, dir, trees>>

\* The items are not as the step needs them, or one lacks what the template names.
NotExpandable ==
  /\ Begins("dyn") /\ (Expandable(Step) => Expanded(Step) > 0)
  /\ group' = [group EXCEPT ![at] = "failed"]
  /\ Stop("refused", index)
  /\ UNCHANGED <<plan, texts, way, at, index, child, aborted, results, outputs, previous, dynamic,
                 control, dir, begun, trees>>

\* The collection of no results may not have the form asked for; an acceptance is
\* evaluated only if the step states one.
BeginEmpty ==
  /\ Begins("dyn") /\ Expandable(Step) /\ Expanded(Step) = 0
  /\ child' = <<>>
  /\ \/ /\ outputs' = Named([n \in {Step.as} |-> Nil])
        /\ group' = [group EXCEPT ![at] = "completed"]
        /\ IF Step.accept THEN phase' = "accept" /\ UNCHANGED <<at, previous>>
           ELSE phase' = "begin" /\ at' = at + 1 /\ previous' = <<>>
        /\ UNCHANGED answer
     \/ /\ group' = [group EXCEPT ![at] = "failed"]
        /\ Stop("refused", index)
        /\ UNCHANGED <<outputs, at, previous>>
  /\ UNCHANGED <<plan, texts, way, index, aborted, results, dynamic, control, dir, begun, trees>>

-----------------------------------------------------------------------------
(* Its children run.                                                       *)

\* Mutant: a child interrupted while its result is verified is never settled.
BusyButLate == {k \in DOMAIN child : child[k] \in {"running", "stopping", "checking"}}

Busy == {k \in DOMAIN child : child[k] \in {"running", "stopping", "checking", "late"}}
NextUp == {k \in DOMAIN child : child[k] = "waiting"}
Starting(limit) == phase = "tasks" /\ NextUp # {} /\ Cardinality(Busy) < limit

\* After a failure in a fail-fast group the children not started are skipped.
Skips ==
  /\ Starting(Concurrency) /\ aborted
  /\ child' = [child EXCEPT ![Min(NextUp)] = "skipped"]
  /\ UNCHANGED <<plan, texts, way, phase, at, index, aborted, dataVars, control, dir, begun, trees, answer>>

\* The names in its task are replaced, and the interrupt of the run becomes its own.
StartsChild(k) ==
  /\ IF Missing(k) = {}
     THEN /\ child' = [child EXCEPT ![k] = "running"]
          /\ control' = [index |-> index + k - 1, owner |-> k]
          /\ UNCHANGED <<phase, trees, answer>>
     ELSE /\ Stop("threw", Nil) /\ trees' = trees \ {at}
          /\ UNCHANGED <<child, control>>
  /\ UNCHANGED <<plan, texts, way, at, index, aborted, dataVars, dir, begun>>
SingleStarts == Starting(1) /\ Step.kind = "seq" /\ StartsChild(1)
GroupStarts  == Starting(Concurrency) /\ Step.kind # "seq" /\ ~aborted /\ StartsChild(Min(NextUp))

\* A child ends, or its process has and its result is being verified.
EndsAs(k) ==
  CASE child[k] = "running"  -> {"ok", "failed", "detached", "checking"}
    [] child[k] = "stopping" -> {"paused"}
    [] OTHER                 -> {"ok", "failed"}
TaskEnds(k) ==
  /\ phase = "tasks" /\ k \in Busy
  /\ \E end \in EndsAs(k) :
       /\ child' = [child EXCEPT ![k] = end]
       /\ aborted' = (aborted \/ (Step.failFast /\ end \in {"failed", "detached"}))
       /\ control' = IF end # "checking" /\ control.index = index + k - 1
                     THEN [control EXCEPT !.owner = Nil] ELSE control
  /\ UNCHANGED <<plan, texts, way, phase, at, index, dataVars, dir, begun, trees, answer>>

\* Accepted while a result is verified, an interrupt is not heard any more.
Interrupt ==
  /\ phase = "tasks" /\ control.owner # Nil
  /\ child[control.owner] \in {"running", "checking"}
  /\ child' = [child EXCEPT ![control.owner] = IF @ = "running" THEN "stopping" ELSE "late"]
  /\ UNCHANGED <<plan, texts, way, phase, at, index, aborted, dataVars, control, dir, begun, trees, answer>>

-----------------------------------------------------------------------------
(* The children have ended.                                                *)

Whos      == [k \in DOMAIN child |-> <<at, k>>]
Gathered  == results \o [k \in DOMAIN child |-> [who |-> <<at, k>>, state |-> child[k]]]
With(s)   == {k \in DOMAIN child : child[k] = s}
AllEnded(kind) ==
  phase = "tasks" /\ Step.kind = kind /\ \A k \in DOMAIN child : child[k] \in Settled

\* Mutant: a group fails when all its children have.
StoppingAllFailed ==
  IF With("paused") # {} THEN {"paused"}
  ELSE IF With("detached") # {} THEN {"detached"}
  ELSE IF With("failed") = DOMAIN child THEN {"failed"} ELSE {}

\* What stops a chain: a paused child before a detached one before a failed one; a
\* skipped child by itself does not.
Stopping ==
  IF With("paused") # {} THEN {"paused"}
  ELSE IF With("detached") # {} THEN {"detached"}
  ELSE IF With("failed") # {} THEN {"failed"} ELSE {}

StepStops ==
  /\ \E s \in Stopping :
       /\ Stop(s, index + Min(With(s)) - 1)
       /\ group' = IF Step.kind = "dyn" /\ s = "failed"
                   THEN [group EXCEPT ![at] = "failed"] ELSE group
  /\ results' = Gathered /\ index' = index + Width /\ trees' = trees \ {at}
  /\ UNCHANGED <<plan, texts, way, at, child, aborted, outputs, previous, dynamic, control, dir, begun>>
SingleStops  == AllEnded("seq") /\ StepStops
GroupStops   == AllEnded("par") /\ StepStops
DynamicStops == AllEnded("dyn") /\ StepStops

\* The structured output of a child matters where a later step expands it.
Values(name) ==
  IF \E i \in Steps : plan[i].kind = "dyn" /\ plan[i].from = name THEN Value \cup {Nil} ELSE {Nil}

StepDone ==
  /\ Stopping = {}
  /\ \E v \in [Names(Step) -> Value \cup {Nil}] :
       (\A n \in DOMAIN v : v[n] \in Values(n)) /\ outputs' = Named(v)
  /\ results' = Gathered /\ index' = index + Width /\ trees' = trees \ {at}
  /\ previous' = Whos /\ at' = at + 1 /\ phase' = "begin"
  /\ UNCHANGED <<plan, texts, way, child, aborted, dynamic, group, control, dir, begun, answer>>
SingleDone == AllEnded("seq") /\ StepDone
GroupDone  == AllEnded("par") /\ StepDone

\* The results of a dynamic group are collected, which may fail, under one name; the
\* acceptance of the group is evaluated after it counts as completed.
Collects ==
  /\ AllEnded("dyn") /\ Stopping = {}
  /\ results' = Gathered /\ index' = index + Width
  /\ \/ /\ outputs' = Named([n \in {Step.as} |-> Nil])
        /\ group' = [group EXCEPT ![at] = "completed"]
        /\ phase' = "accept" /\ UNCHANGED answer
     \/ /\ group' = [group EXCEPT ![at] = "failed"] /\ Stop("failed", index)
        /\ UNCHANGED outputs
  /\ UNCHANGED <<plan, texts, way, at, child, aborted, previous, dynamic, control, dir, begun, trees>>

GroupAccepted ==
  /\ phase = "accept"
  /\ previous' = Whos /\ at' = at + 1 /\ phase' = "begin"
  /\ UNCHANGED <<plan, texts, way, index, child, aborted, results, outputs, dynamic, group, control,
                 dir, begun, trees, answer>>

GroupNotAccepted ==
  /\ phase = "accept"
  /\ group' = [group EXCEPT ![at] = "failed"]
  /\ Stop(IF child = <<>> THEN "refused" ELSE "failed", index - Width)
  /\ UNCHANGED <<plan, texts, way, at, index, child, aborted, results, outputs, previous, dynamic,
                 control, dir, begun, trees>>

\* What the chain does by itself, and its children.
Goes ==
  \/ Completes
  \/ BeginSingle \/ BeginGroup \/ BeginDynamic \/ NotExpandable \/ BeginEmpty
  \/ Skips \/ SingleStarts \/ GroupStarts
  \/ \E k \in DOMAIN child : TaskEnds(k)
  \/ SingleStops \/ GroupStops \/ DynamicStops
  \/ SingleDone \/ GroupDone \/ Collects \/ GroupAccepted \/ GroupNotAccepted

ChainNext == Goes \/ Refused \/ Opens \/ DialogEnds \/ LaunchInBackground \/ Interrupt

\* The loop goes on, and every child ends (Attempt); the user of the dialog, and whoever
\* interrupts, need not act.
ChainSpec == ChainInit /\ [][ChainNext]_chainVars /\ WF_chainVars(Goes)

-----------------------------------------------------------------------------
(* Properties.                                                             *)

\* All the variables have the values the code can give them.
ChainType ==
  /\ plan \in Plan /\ way \in Ways /\ DOMAIN texts = Steps
  /\ phase \in {"validate", "dialog", "begin", "tasks", "accept", "answered"}
  /\ at \in 1..(Len(plan) + 1) /\ index \in Nat /\ aborted \in BOOLEAN
  /\ Range(child) \subseteq Settled \cup {"waiting", "running", "stopping", "checking", "late"}
  /\ {r.state : r \in Range(results)} \subseteq Settled
  /\ trees \subseteq Steps /\ dir \in {"none", "there"}
  /\ Nil \notin DOMAIN outputs
  /\ Range(group) \subseteq {"none", "completed", "failed"}

\* A name that a task of the plan or a dynamic group refers to exists when it is needed,
\* whatever the groups before it expanded to: for the texts that validateChainOutputBindings
\* saw, checking them before the chain starts is enough.  resolveOutputReferences throws
\* only for a text that came later, one edited in the dialog or one that holds the text of
\* an item, which nobody checks: never in a static group, and never for a name that was
\* checked.  The text of {previous} is that of the step just before, and the notes that
\* children share are begun once: no later step writes them anew.
TextsHold ==
  /\ begun <= 1
  /\ phase = "begin" /\ at > 1 =>
       previous = [k \in Nodes(at - 1) |-> <<at - 1, k>>]
  /\ (phase \in {"begin", "tasks"} \/ answer.kind = "threw") /\ at <= Len(plan) =>
       /\ \A t \in Range(Step.tasks) : t.refs \subseteq DOMAIN outputs
       /\ Step.kind = "dyn" => Step.from \in DOMAIN outputs
  /\ answer.kind = "threw" =>
       /\ Singles \/ Step.kind = "dyn"
       /\ \E k \in DOMAIN Tasks : Missing(k) # {}

\* A chain that is reported completed has run every child of every step once, in order,
\* all of them succeeded, every name has its output, every dynamic group was accepted and
\* no worktree is left; and a chain that ends otherwise leaves no worktree either.
CompletedIsTrue ==
  /\ answer.kind = "completed" =>
       /\ [r \in DOMAIN results |-> results[r].who] =
            FlattenSeq([i \in Steps |-> [k \in Nodes(i) |-> <<i, k>>]])
       /\ \A r \in Range(results) : r.state = "ok"
       /\ \A i \in Steps :
            /\ Names(plan[i]) \subseteq DOMAIN outputs
            /\ plan[i].kind = "dyn" => group[i] = "completed"
  /\ phase = "answered" => trees = {}

\* A child that heard its interrupt stops the chain: it answers paused, whatever became of
\* the other children of its step, and no later step begins.
InterruptPauses ==
  \A r \in Range(results) : r.state = "paused" =>
    answer.kind = "paused" /\ answer.step = r.who[1]

\* How a chain ends agrees with how its children ended.
Ending == ChainType /\ CompletedIsTrue /\ InterruptPauses

\* When the chain answers because of what its children did, the graph shows each child as
\* it ended and everything after them as not begun: the flat indices that the loop, the
\* dynamic groups and the graph count separately agree.  (A chain refused before the
\* children of its step exist has its graph stand at a node that is shown running.)
GraphAgrees ==
  answer.kind \in {"completed", "paused", "detached", "failed"} =>
    \A i \in Steps : \A k \in Nodes(i) :
      LET of == {r \in Range(results) : r.who = <<i, k>>}
      IN NodeStatus(i, k) =
           IF of = {} THEN "pending"
           ELSE IF \E r \in of : r.state = "ok" THEN "completed"
           ELSE IF \E r \in of : r.state = "skipped" THEN "failed"
           ELSE (CHOOSE r \in of : TRUE).state

\* A child of a chain sent to the background continues the session that was forked for it,
\* in chains without a dynamic group: the executor and the plan of the runner count alike.
\* (An empty place for a dynamic group, which the runner's plan does not skip, shifts the
\* sessions of the children behind it.)
OwnSession ==
  (answer.kind = "background" /\ \A i \in Steps : plan[i].kind # "dyn") =>
    \A n \in DOMAIN Static(plan) : GivenSession(plan, n) = n

\* The flat numbers of the children that several parts of the code count agree.
NumbersAgree == GraphAgrees /\ OwnSession

\* Once begun a chain is answered: whatever its groups expand to, whichever children are
\* skipped, fail or detach, and whenever an interrupt comes, no child is waited for in vain.
ChainEnds == (phase = "begin") ~> (phase = "answered")

=============================================================================
