------------------------------- MODULE Services -------------------------------
(***************************************************************************)
(* The services around the squad that share no state with the runs: the    *)
(* scribe with the work monitor that counts its inbox, the session store,  *)
(* recovery, ingestion, chunking, routing, the update of Squad, the        *)
(* clarification dialog with its text field, the files of agents, chains,  *)
(* overrides and skills, and the search for the run that a call means.     *)
(* Nothing one of them does touches another, so a behaviour is one of them *)
(* at work and the others at rest.                                         *)
(***************************************************************************)
EXTENDS Ralph, Store, Recovery, Ingestion, Chunker, Routing, Update, Clarify, Definitions, Overrides, Skills, Resume

CONSTANTS
  Service,  \* the services that may be at work
  Upkeep    \* the plans of the scribe and of the work monitor that go together

ASSUME ServicesAssumption ==
  Service \subseteq {"upkeep", "store", "recovery", "ingestion", "chunker", "routing", "update", "editor", "clarify",
              "definitions", "overrides", "skills", "resume"}

VARIABLE service  \* the one at work

upkeepVars == <<scribeVars, ralphVars>>
vars == <<service, upkeepVars, storeVars, recovery, ingestionVars, chunkerVars, routingVars, updateVars, editor, clarifyVars,
          definitionVars, overrideVars, skillVars, resumeVars>>

\* A service at rest is in one of its initial states, whichever.
One(S) == CHOOSE x \in S : TRUE
Chosen(s, S) == IF service = s THEN S ELSE {One(S)}

Init ==
  /\ service \in Service
  /\ \E u \in Chosen("upkeep", Upkeep) : scribePlan = u.scribe /\ events = u.ralph
  /\ storePlan \in Chosen("store", StorePlan)
  /\ recovery \in Chosen("recovery", {Beginning(i) : i \in RecoveryInput})
  /\ ingestionPlan \in Chosen("ingestion", IngestionPlan)
  /\ document \in Chosen("chunker", Document)
  /\ table \in Chosen("routing", Table)
  /\ updatePlan \in Chosen("update", UpdatePlan)
  /\ \E text \in Chosen("editor", Paste) : editor = EditorWith(text)
  /\ clarifyPlan \in Chosen("clarify", ClarifyPlan)
  /\ definitionPlan \in Chosen("definitions", DefinitionPlan)
  /\ overridePlan \in Chosen("overrides", OverridePlan)
  /\ skillFile \in Chosen("skills", SkillFiles)
  /\ resumePlan \in Chosen("resume", ResumePlan)
  /\ ScribeInit /\ RalphInit /\ StoreInit /\ RecoveryInit /\ IngestionInit
  /\ ChunkerInit /\ RoutingInit /\ UpdateInit /\ EditorInit /\ ClarifyInit
  /\ DefinitionsInit /\ OverridesInit /\ SkillsInit /\ ResumeInit

OthersThan(s) ==
  /\ service = s /\ UNCHANGED service
  /\ s # "upkeep" => UNCHANGED upkeepVars
  /\ s # "store" => UNCHANGED storeVars
  /\ s # "recovery" => UNCHANGED recovery
  /\ s # "ingestion" => UNCHANGED ingestionVars
  /\ s # "chunker" => UNCHANGED chunkerVars
  /\ s # "routing" => UNCHANGED routingVars
  /\ s # "update" => UNCHANGED updateVars
  /\ s # "editor" => UNCHANGED editor
  /\ s # "clarify" => UNCHANGED clarifyVars
  /\ s # "definitions" => UNCHANGED definitionVars
  /\ s # "overrides" => UNCHANGED overrideVars
  /\ s # "skills" => UNCHANGED skillVars
  /\ s # "resume" => UNCHANGED resumeVars

Next ==
  \/ OthersThan("upkeep") /\ ((ScribeNext /\ UNCHANGED ralphVars) \/ RalphNext)
  \/ OthersThan("store") /\ StoreNext
  \/ OthersThan("recovery") /\ RecoveryNext
  \/ OthersThan("ingestion") /\ IngestionNext
  \/ OthersThan("chunker") /\ ChunkMarkdown
  \/ OthersThan("routing") /\ RoutingNext
  \/ OthersThan("update") /\ UpdateNext
  \/ OthersThan("editor") /\ EditorNext
  \/ OthersThan("clarify") /\ ClarifyNext
  \/ OthersThan("definitions") /\ DefinitionsNext
  \/ OthersThan("overrides") /\ OverridesNext
  \/ OthersThan("skills") /\ SkillsNext
  \/ OthersThan("resume") /\ ResumeNext

Spec == Init /\ [][Next]_vars
=============================================================================
