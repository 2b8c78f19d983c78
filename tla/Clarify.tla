------------------------------- MODULE Clarify --------------------------------
(***************************************************************************)
(* The clarification dialog of single, parallel and chain runs: the user    *)
(* looks at the behaviour resolved for each step, changes it, and cancels   *)
(* or confirms; the caller then launches what was given to the call and    *)
(* what the user changed. Text fields are those of TextEditor: here one     *)
(* step types a whole text.                                                 *)
(***************************************************************************)
EXTENDS TextEditor

CONSTANTS
  ClarifyPlan, \* the calls, and what the user looks at: see clarifyPlan
  MaxKeys,     \* bound: the user's steps
  Models,      \* the available models, in order: provider, id, and the sequence of thinking levels
  Preferred,   \* the provider of the session's model
  AllLevels,   \* THINKING_LEVELS
  File,        \* names of outputs
  Reading,     \* lists of reads that are typed
  Skills,      \* the available skills, in order
  Query,       \* what a search may match: a set of models' ids and skills
  Unset,       \* an override that was not made
  Off,         \* false: no output, no skills
  Nowhere      \* no provider, no model, no level

\* A model's name: its provider, which may be left out, its id and a thinking level.
IsName(name) == DOMAIN name = {"provider", "id", "level"}

\* What a call says of a step, and what the user changes of it; Unset where nothing.
IsBehavior(o) == DOMAIN o = {"output", "reads", "progress", "skills", "model"}

ASSUME ClarifyAssumption ==
  /\ Unset \notin File \cup {Off} /\ Unset \notin Seq(File) /\ Reading \subseteq Seq(File)
  /\ AllLevels \in Seq(ToSet(AllLevels)) /\ \A m \in ToSet(Models) : m.levels \in Seq(ToSet(m.levels))
  /\ \A p \in ClarifyPlan :
       /\ p.agent \in Seq(ToSet(p.agent)) /\ p.agent # <<>> /\ DOMAIN p.call = DOMAIN p.agent
       /\ \A i \in DOMAIN p.agent : LET a == p.agent[i] c == p.call[i] IN
            /\ a.output \in File \cup {Off} /\ a.reads \in Seq(File) /\ (a.model = Nowhere \/ IsName(a.model))
            /\ IsBehavior(c) /\ c.output \in File \cup {Off, Unset} /\ c.reads \in Seq(File) \cup {Unset}
            /\ c.model \in {Unset, Nowhere} \/ IsName(c.model)
            /\ a.skills = Off \/ a.skills \cup p.chainSkills # Off
            /\ c.skills \in {Off, Unset} \/ c.skills \cup p.chainSkills # Off

VARIABLES
  clarifyPlan, \* mode, agent and call of each step, skills of the chain; what the user opens
  override,    \* override[i]: the user's changes of step i
  dialog,      \* where the dialog stands
  loose,       \* steps the renaming of outputs no longer follows (for ReadsFollow alone)
  launched     \* what runs in the end

clarifyVars == <<clarifyPlan, override, dialog, loose, launched>>

Steps == DOMAIN clarifyPlan.agent
Chain == clarifyPlan.mode = "chain"
Unchanged == [output |-> Unset, reads |-> Unset, progress |-> Unset, skills |-> Unset, model |-> Unset]

\* An agent has a value for each field, a call and an override may leave it Unset:
\* output, reads (<<>> for false), progress, skills, model (provider, id, level).
ClarifyInit ==
  /\ clarifyPlan \in ClarifyPlan
  /\ override = [i \in Steps |-> Unchanged]
  /\ dialog = [pc |-> "steps", step |-> 1, edit |-> "none", text |-> Off, index |-> 1, list |-> <<>>,
               chosen |-> {}, background |-> FALSE, keys |-> 0]
  /\ loose = {}
  /\ launched = <<>>

Given(o, b) == [f \in DOMAIN o |-> IF o[f] = Unset THEN b[f] ELSE o[f]]

\* resolveStepBehavior: what the call says, else the agent; the skills of the chain are added.
Resolved(agent, o) ==
  LET r == Given(o, agent) IN IF r.skills = Off THEN r ELSE [r EXCEPT !.skills = @ \cup clarifyPlan.chainSkills]

\* A single run's dialog is given the output and the skills of the call, not its model.
Base(i) == LET c == clarifyPlan.call[i] IN
  Resolved(clarifyPlan.agent[i],
    IF clarifyPlan.mode = "single" THEN [Unchanged EXCEPT !.output = c.output, !.skills = c.skills] ELSE c)
Effective(i) == Given(override[i], Base(i))

\* findModelInfo: the model of a name, which may lack its provider, or Nowhere.
Info(name) ==
  LET all == {m \in Range(Models) : m.id = name.id /\ name.provider \in {Nowhere, m.provider}}
      preferred == {m \in all : m.provider = Preferred}
  IN IF preferred # {} THEN CHOOSE m \in preferred : TRUE
     ELSE IF Cardinality(all) = 1 THEN CHOOSE m \in all : TRUE ELSE Nowhere

\* resolveModelCandidate, and getEffectiveModel.
FullName(name) ==
  IF name = Nowhere \/ Info(name) = Nowhere THEN name ELSE [name EXCEPT !.provider = Info(name).provider]
Levels(name) == IF Info(name) = Nowhere THEN AllLevels ELSE Info(name).levels

\* The first of some places, or the one to fall back to.
FirstOf(places, otherwise) == IF places = {} THEN otherwise ELSE Min(places)

Key == dialog.keys < MaxKeys /\ dialog.pc = "steps" /\ UNCHANGED <<clarifyPlan, launched>>
AtSteps == Key /\ dialog.edit = "none" /\ UNCHANGED loose
Opens(edit) == AtSteps /\ edit \in clarifyPlan.opens /\ UNCHANGED override
Editing(edits) == Key /\ dialog.edit \in edits
Shows(d) == dialog' = [d EXCEPT !.keys = dialog.keys + 1]
Closed == [dialog EXCEPT !.edit = "none", !.text = Off, !.list = <<>>, !.chosen = {}]
Opened(edit) == [dialog EXCEPT !.edit = edit, !.index = 1]
Overrides(i, f, x) == override' = [override EXCEPT ![i] = [@ EXCEPT ![f] = x]]

Selects ==
  /\ AtSteps /\ UNCHANGED override
  /\ \E i \in Steps : i - dialog.step \in {-1, 1} /\ Shows([dialog EXCEPT !.step = i])

\* Which fields may be typed depends on the mode; the template's first line is left out.
OpensText(edit) ==
  /\ Opens(edit)
  /\ edit = "output" => clarifyPlan.mode # "parallel"
  /\ edit = "reads" => Chain
  /\ Shows([Opened(edit) EXCEPT !.text = Effective(dialog.step)[edit]])

Types ==
  /\ Editing({"output", "reads"}) /\ UNCHANGED <<override, loose>>
  /\ \E text \in IF dialog.edit = "output" THEN File \cup {Off} ELSE Reading : Shows([dialog EXCEPT !.text = text])

\* indexOf: the first of the reads that has the name.
FirstMention(reads, old) == CHOOSE k \in DOMAIN reads : reads[k] = old /\ \A n \in 1..(k - 1) : reads[n] # old

\* Mutant: the step after the changed one keeps its reads.
RenamedBeyond(o, i, old, new) ==
  [j \in Steps |->
    LET reads == Given(o[j], Base(j)).reads
    IN IF j > i + 1 /\ \E k \in DOMAIN reads : reads[k] = old
       THEN [o[j] EXCEPT !.reads = [reads EXCEPT ![FirstMention(reads, old)] = new]] ELSE o[j]]

\* propagateOutputChange: the first mention of the old name in the reads of each later step.
Renamed(o, i, old, new) ==
  [j \in Steps |->
    LET reads == Given(o[j], Base(j)).reads
    IN IF j > i /\ \E k \in DOMAIN reads : reads[k] = old
       THEN [o[j] EXCEPT !.reads = [reads EXCEPT ![FirstMention(reads, old)] = new]] ELSE o[j]]

\* Escape saves a text; an output that was there and is renamed, not removed, is propagated.
SavesOutput ==
  /\ Editing({"output"})
  /\ LET i == dialog.step old == Effective(i).output new == dialog.text
         o == [override EXCEPT ![i].output = new]
     IN override' = IF old # Off /\ new # Off /\ old # new THEN Renamed(o, i, old, new) ELSE o
  /\ loose' = IF dialog.text \in {Off} \cup {Effective(k).output : k \in Steps \ {dialog.step}}
              THEN loose \cup {dialog.step} ELSE loose
  /\ Shows(Closed)

SavesReads ==
  /\ Editing({"reads"})
  /\ Overrides(dialog.step, "reads", dialog.text)
  /\ loose' = loose \cup {dialog.step}
  /\ Shows(Closed)

\* Ctrl-C in a text, both keys in a selector.
Discards ==
  Editing({"output", "reads", "model", "thinking", "skills"}) /\ UNCHANGED <<override, loose>> /\ Shows(Closed)

TogglesProgress ==
  /\ AtSteps /\ Chain /\ "progress" \in clarifyPlan.opens
  /\ LET new == ~ \E i \in Steps : Effective(i).progress
     IN override' = [i \in Steps |-> [override[i] EXCEPT !.progress = new]]
  /\ Shows(dialog)

TogglesBackground == AtSteps /\ UNCHANGED override /\ Shows([dialog EXCEPT !.background = ~ @])

\* The selector of models opens at the current one.
OpensModels ==
  /\ Opens("model")
  /\ LET name == FullName(Effective(dialog.step).model)
         Current(m) == name # Nowhere /\ m.id = name.id /\ name.provider \in {Nowhere, m.provider}
     IN Shows([Opened("model") EXCEPT !.list = Models, !.index = FirstOf({k \in DOMAIN Models : Current(Models[k])}, 1)])

\* The selector of levels opens at the level of the model, or at "off", and only for a model.
OpensLevels ==
  /\ Opens("thinking")
  /\ LET name == Effective(dialog.step).model levels == Levels(name)
         At(level) == {k \in DOMAIN levels : levels[k] = level}
     IN /\ name # Nowhere
        /\ Shows([Opened("thinking") EXCEPT !.list = levels, !.index = FirstOf(At(name.level), FirstOf(At("off"), 1))])

OpensSkills ==
  /\ Opens("skills")
  /\ LET now == Effective(dialog.step).skills
     IN Shows([Opened("skills") EXCEPT !.list = Skills, !.chosen = IF now = Off THEN {} ELSE now])

\* Up and down go round.
MovesIn(edit) ==
  /\ Editing({edit}) /\ UNCHANGED <<override, loose>> /\ dialog.list # <<>>
  /\ LET n == Len(dialog.list) k == dialog.index
     IN Shows([dialog EXCEPT !.index = IF k = n THEN 1 ELSE k + 1]) \/ Shows([dialog EXCEPT !.index = IF k = 1 THEN n ELSE k - 1])

MovesInModels == MovesIn("model")
MovesInLevels == MovesIn("thinking")
MovesInSkills == MovesIn("skills")

FilteredModels(query) == SelectSeq(Models, LAMBDA m : m.id \in query)
FilteredSkills(query) == SelectSeq(Skills, LAMBDA x : x \in query)

\* A longer or a shorter query leaves another part of the list.
Searches(edit, left) ==
  /\ Editing({edit}) /\ UNCHANGED <<override, loose>>
  /\ Shows([dialog EXCEPT !.list = left, !.index = Min({@, Max({1, Len(left)})})])

SearchesModels(query) == Searches("model", FilteredModels(query))
SearchesSkills(query) == Searches("skills", FilteredSkills(query))

\* The level of the model before stays if the new one supports it.
ChoosesModel ==
  /\ Editing({"model"}) /\ UNCHANGED loose /\ Shows(Closed)
  /\ IF dialog.list = <<>> THEN UNCHANGED override
     ELSE LET m == dialog.list[dialog.index] old == FullName(Effective(dialog.step).model)
              name == [provider |-> m.provider, id |-> m.id, level |-> Nowhere]
              keeps == old # Nowhere /\ \E k \in DOMAIN Levels(name) : Levels(name)[k] = old.level
          IN Overrides(dialog.step, "model", IF keeps THEN [name EXCEPT !.level = old.level] ELSE name)

ChoosesLevel ==
  /\ Editing({"thinking"}) /\ UNCHANGED loose /\ Shows(Closed) /\ dialog.list # <<>>
  /\ LET level == dialog.list[dialog.index] IN
     Overrides(dialog.step, "model", [Effective(dialog.step).model EXCEPT !.level = IF level = "off" THEN Nowhere ELSE level])

TogglesSkill ==
  /\ Editing({"skills"}) /\ UNCHANGED <<override, loose>> /\ dialog.list # <<>>
  /\ LET s == dialog.list[dialog.index]
     IN Shows([dialog EXCEPT !.chosen = IF s \in @ THEN @ \ {s} ELSE @ \cup {s}])

ChoosesSkills ==
  /\ Editing({"skills"}) /\ UNCHANGED loose /\ Overrides(dialog.step, "skills", dialog.chosen) /\ Shows(Closed)

Cancels == AtSteps /\ UNCHANGED override /\ Shows([dialog EXCEPT !.pc = "cancelled"])
Confirms == AtSteps /\ UNCHANGED override /\ Shows([dialog EXCEPT !.pc = "confirmed"])

\* applyThinkingSuffix: a model without a level gets that of its agent.
Thinking(name, agent) ==
  IF name = Nowhere \/ name.level # Nowhere \/ agent.thinking = "off" THEN name ELSE [name EXCEPT !.level = agent.thinking]

\* The override on top of the call, resolved again.
Applied(i) ==
  LET agent == clarifyPlan.agent[i] r == Resolved(agent, Given(override[i], clarifyPlan.call[i]))
  IN [r EXCEPT !.model = Thinking(FullName(@), agent)]

Launches ==
  /\ dialog.pc = "confirmed" /\ dialog' = [dialog EXCEPT !.pc = "launched"]
  /\ launched' = [i \in Steps |-> Applied(i)]
  /\ UNCHANGED <<clarifyPlan, override, loose>>

ClarifyNext ==
  \/ Selects \/ Types \/ SavesOutput \/ SavesReads \/ Discards \/ TogglesProgress \/ TogglesBackground
  \/ OpensModels \/ OpensLevels \/ OpensSkills \/ MovesInModels \/ MovesInLevels \/ MovesInSkills \/ ChoosesModel \/ ChoosesLevel
  \/ TogglesSkill \/ ChoosesSkills \/ Cancels \/ Confirms \/ Launches
  \/ \E edit \in {"output", "reads"} : OpensText(edit)
  \/ \E query \in Query : SearchesModels(query) \/ SearchesSkills(query)

(***************************************************************************)
(* Properties                                                              *)
(***************************************************************************)

\* What runs is what the dialog showed when it was confirmed, but for what the code
\* adds behind the user's back: the skills of the chain, which come back when they
\* were deselected, the agent's own thinking level where "off" was chosen, and the
\* model a single call named, which its dialog does not show.
AsShown ==
  dialog.pc = "launched" => \A i \in Steps :
    LET runs == launched[i] shown == Effective(i) name == FullName(shown.model)
    IN /\ runs.output = shown.output
       /\ Chain => runs.reads = shown.reads /\ runs.progress = shown.progress
       /\ runs.skills = (IF shown.skills = Off THEN Off ELSE shown.skills \cup clarifyPlan.chainSkills)
       /\ \/ runs.model = name
          \/ name # Nowhere /\ name.level = Nowhere /\ runs.model = [name EXCEPT !.level = clarifyPlan.agent[i].thinking]
          \/ clarifyPlan.mode = "single" /\ override[i].model = Unset /\ clarifyPlan.call[i].model # Unset

\* A step that read the output of an earlier step reads it under its new name,
\* however often it was renamed - as long as no two outputs got the same name, none
\* was removed (a name given afterwards is new to the readers) and no reads were
\* typed.
ReadsFollow ==
  \A i, j \in Steps :
    LET old == Base(i).output
        Alone == \A k \in Steps \ {i} : Effective(k).output # Effective(i).output /\ Base(k).output # old
        reads == Base(j).reads
    IN i < j /\ old # Off /\ loose = {} /\ Alone /\ (\E k \in DOMAIN reads : reads[k] = old)
         => \E k \in DOMAIN Effective(j).reads : Effective(j).reads[k] = Effective(i).output

\* A model the user chose has a thinking level only if it supports that level.
LevelsSupported ==
  \A i \in Steps : LET m == override[i].model IN
    m # Unset => m.level = Nowhere \/ \E k \in DOMAIN Levels(m) : Levels(m)[k] = m.level

\* The dialog shows its text and its selection truly, and hands over what it shows:
\* EditorHolds of the text field, and the three above.
DialogHolds == EditorHolds /\ AsShown /\ ReadsFollow /\ LevelsSupported
=============================================================================
