------------------------------- MODULE Overrides -------------------------------
(***************************************************************************)
(* The overrides of the builtin agents in the settings.json of the user and *)
(* of the project: how one is made of what is wanted, written beside the    *)
(* other settings, and put on the agents again when they are discovered. A  *)
(* save reads the whole file, empties it and writes it again.               *)
(***************************************************************************)
EXTENDS Integers, Sequences, FiniteSets, TLC

CONSTANTS
  Saver,         \* calls that save or remove an override
  OverridePlan,  \* the builtin agents, the settings there are, what each call wants,
                 \* whether calls may overlap and whether they may die
  Undefined,     \* the value of a field that is not there
  Cleared        \* false, in the place of a value that is to be taken away

NoOverride == [f \in {} |-> Undefined]
SettingsFile(state, bulk, overrides, other) == [state |-> state, bulk |-> bulk, overrides |-> overrides, other |-> other]

\* A draft has the fields of its agent, each with a value or Undefined.
ASSUME OverridesAssumption ==
  /\ IsFiniteSet(Saver) /\ Undefined \notin BOOLEAN /\ Cleared \notin BOOLEAN
  /\ \A p \in OverridePlan :
       /\ p.wants \in [Saver -> [op : {"save", "remove"}, scope : {"user", "project"},
                                 name : DOMAIN p.base, draft : {p.wants[s].draft : s \in Saver}]]
       /\ \A s \in Saver : LET draft == p.wants[s].draft IN
            /\ {"guard", "disabled"} \subseteq DOMAIN draft /\ DOMAIN draft = DOMAIN p.base[p.wants[s].name]
            /\ \A f \in DOMAIN draft : draft[f] # Cleared
       /\ p.settings = [scope \in {"user", "project"} |-> LET file == p.settings[scope] IN
                           SettingsFile(file.state, file.bulk, file.overrides, file.other)]

VARIABLES
  overridePlan, \* what may happen in this behaviour
  settings,     \* settings[scope]: what the settings.json of that scope holds
  saver,        \* saver[s]: where a call stands and the settings it has read
  saved         \* the calls that have written their file, in that order

overrideVars == <<overridePlan, settings, saver, saved>>

Wants(s) == overridePlan.wants[s]
NoSettings == SettingsFile("none", Undefined, NoOverride, Undefined)
Torn == SettingsFile("torn", Undefined, NoOverride, Undefined)

OverridesInit ==
  /\ overridePlan \in OverridePlan
  /\ settings = overridePlan.settings
  /\ saver = [s \in Saver |-> [pc |-> "idle", read |-> NoSettings]]
  /\ saved = <<>>

(***************************************************************************)
(* The fields: a model or tools may be missing, the completion guard is on  *)
(* unless it is FALSE, an agent is disabled only if that is TRUE.           *)
(***************************************************************************)

OrCleared(value) == IF value = Undefined THEN Cleared ELSE value

\* What the file says of a field with that value.
Says(f, value) ==
  IF f = "guard" THEN value # FALSE ELSE IF f = "disabled" THEN value = TRUE ELSE OrCleared(value)

\* Mutant: what the draft does not have is left out.
BuildOfSet(base, draft) == [f \in {g \in DOMAIN base : draft[g] # base[g] /\ draft[g] # Undefined} |-> draft[f]]

\* buildBuiltinOverrideConfig: the fields in which the draft differs from the base.
Build(base, draft) ==
  LET Differs(f) == IF f = "guard" THEN (draft[f] # FALSE) # (base[f] # FALSE) ELSE draft[f] # base[f]
  IN [f \in {g \in DOMAIN base : Differs(g)} |-> Says(f, draft[f])]

\* A save is called with an override (agents.ts:511), and a draft without a difference makes none.
ASSUME DraftAssumption ==
  \A p \in OverridePlan : \A s \in Saver : LET w == p.wants[s] IN w.op = "save" => Build(p.base[w.name], w.draft) # NoOverride

\* applyBuiltinOverride.
Put(override, agent) ==
  [f \in DOMAIN agent |-> IF f \notin DOMAIN override THEN agent[f]
                          ELSE IF override[f] = Cleared THEN Undefined ELSE override[f]]

\* What one settings file puts on an agent: its override, or the bulk switch.
Layer(file, bulk, name) ==
  IF name \in DOMAIN file.overrides THEN file.overrides[name]
  ELSE IF bulk THEN [f \in {"disabled"} |-> TRUE] ELSE NoOverride

\* applyBuiltinOverrides: the project's layer if it has one, and the user's bulk
\* switch only if the project has no such switch at all.
Overridden(name, user, project) ==
  LET first == Layer(project, project.bulk = TRUE, name)
      second == Layer(user, project.bulk = Undefined /\ user.bulk = TRUE, name)
  IN Put(IF first # NoOverride THEN first ELSE second, overridePlan.base[name])

\* The builtin agents a discovery finds; it throws if a file it reads is torn.
Found(name, scope) ==
  Overridden(name, IF scope = "project" THEN NoSettings ELSE settings["user"],
                   IF scope = "user" THEN NoSettings ELSE settings["project"])

(***************************************************************************)
(* Saving.                                                                 *)
(***************************************************************************)

Returned(s) == saver[s].pc \in {"done", "failed", "dead"}
Goes(s, pc, read) == saver' = [saver EXCEPT ![s] = [pc |-> pc, read |-> read]] /\ UNCHANGED overridePlan

\* readSettingsFileStrict throws if the file does not parse.
ReadsSettings(s) == LET file == settings[Wants(s).scope] IN
  /\ saver[s].pc = "idle"
  /\ overridePlan.overlap \/ \A t \in Saver : saver[t].pc = "idle" \/ Returned(t)
  /\ Goes(s, IF file.state = "torn" THEN "failed"
             ELSE IF Wants(s).op = "remove" /\ file.overrides = NoOverride THEN "done" ELSE "empty", file)
  /\ UNCHANGED <<settings, saved>>

EmptiesSettings(s) ==
  /\ saver[s].pc = "empty"
  /\ settings' = [settings EXCEPT ![Wants(s).scope] = Torn]
  /\ Goes(s, "write", saver[s].read)
  /\ UNCHANGED saved

WithOverride(s) == LET w == Wants(s) IN
  IF w.op = "save"
  THEN [n \in DOMAIN saver[s].read.overrides \cup {w.name} |->
          IF n = w.name THEN Build(overridePlan.base[n], w.draft) ELSE saver[s].read.overrides[n]]
  ELSE [n \in DOMAIN saver[s].read.overrides \ {w.name} |-> saver[s].read.overrides[n]]

WritesSettings(s) ==
  /\ saver[s].pc = "write"
  /\ settings' = [settings EXCEPT ![Wants(s).scope] =
       SettingsFile("whole", saver[s].read.bulk, WithOverride(s), saver[s].read.other)]
  /\ Goes(s, "done", NoSettings)
  /\ saved' = Append(saved, s)

\* The process of a call dies (external).
SaverDies(s) ==
  /\ overridePlan.dies /\ saver[s].pc \in {"empty", "write"}
  /\ Goes(s, "dead", NoSettings)
  /\ UNCHANGED <<settings, saved>>

OverridesNext == \E s \in Saver : ReadsSettings(s) \/ EmptiesSettings(s) \/ WritesSettings(s) \/ SaverDies(s)

(***************************************************************************)
(* Properties                                                              *)
(***************************************************************************)

Same(a, b) ==
  /\ \A f \in DOMAIN a \ {"guard", "disabled"} : a[f] = b[f]
  /\ a.guard # FALSE <=> b.guard # FALSE
  /\ a.disabled = TRUE <=> b.disabled = TRUE

\* Calls that follow one another, or the only one for that scope, are not disturbed.
Undisturbed(scope) == ~ overridePlan.overlap \/ Cardinality({s \in Saver : Wants(s).scope = scope}) = 1

\* No call has been saved later for the same agent and scope.
LastSaved(s) ==
  \E i \in DOMAIN saved : saved[i] = s /\
    \A j \in (i + 1)..Len(saved) : Wants(saved[j]).scope # Wants(s).scope \/ Wants(saved[j]).name # Wants(s).name

\* What a call saved is what the agents of its scope are discovered with: an
\* override says just the difference, and putting it on gives the draft again.
SavedTakesEffect ==
  \A s \in Saver : LastSaved(s) /\ Undisturbed(Wants(s).scope) /\ settings[Wants(s).scope].state # "torn" /\ Wants(s).op = "save" =>
    Same(Found(Wants(s).name, Wants(s).scope), Wants(s).draft)

\* The calls saved so far for an agent in a scope, and what the last of them wanted.
CallsFor(scope, n) == {i \in DOMAIN saved : Wants(saved[i]).scope = scope /\ Wants(saved[i]).name = n}
LatestFor(scope, n) == Wants(saved[CHOOSE i \in CallsFor(scope, n) : \A j \in CallsFor(scope, n) : j <= i])

\* An agent no call was about is as it was; another has an override when the last call saved one.
AgentKept(scope, n) ==
  LET was == overridePlan.settings[scope].overrides
      now == settings[scope].overrides
  IN IF CallsFor(scope, n) = {}
     THEN (n \in DOMAIN now <=> n \in DOMAIN was) /\ (n \in DOMAIN was => now[n] = was[n])
     ELSE n \in DOMAIN now <=> LatestFor(scope, n).op = "save"

\* A file that is whole and that one call at a time has saved has every other
\* setting it had, and for each agent what was saved last, or was there before.
OthersKept ==
  \A scope \in {"user", "project"} : Undisturbed(scope) /\ settings[scope].state # "torn" =>
    /\ settings[scope].other = overridePlan.settings[scope].other
    /\ settings[scope].bulk = overridePlan.settings[scope].bulk
    /\ \A n \in DOMAIN overridePlan.base : AgentKept(scope, n)

\* The settings of agents are kept and mean what was wanted: SavedTakesEffect and OthersKept.
OverridesHold == SavedTakesEffect /\ OthersKept
=============================================================================
