------------------------------ MODULE Directives ------------------------------
(***************************************************************************)
(* What the coordinator makes of the argument of /squad before it acts on   *)
(* it: coordinator.ts parses the message into a directive and guard.ts      *)
(* judges the directive.  A text is its length (0 for a missing or blank    *)
(* one), an agent id is a member of Agent or the id Bad that the allowlist  *)
(* pattern refuses; None stands for a field that is not there.              *)
(***************************************************************************)
EXTENDS Integers, Sequences, FiniteSets

CONSTANTS Agent, Bad, None

MaxText == 32000
MaxMessage == 8000
Timeout == 1000..300000

\* A message: a shape ("empty", "text" for anything that is not a JSON object with
\* a type, "json") and the fields of the object.
Text(n) == [type |-> "direct_response", message |-> n, details |-> 0]
Unknown == [type |-> "unknown", message |-> 0, details |-> 0]

Parsed(m) ==
  CASE m.shape = "empty" -> Unknown
    [] m.shape = "text" -> Text(m.message)
    [] m.shape = "json" /\ m.type \in {"agent_spawn", "squad_update", "direct_response"} ->
         [m EXCEPT !.shape = "directive"]
    [] OTHER -> Unknown

\* The path of agents that led here visits one twice, or comes back to this one.
Circular(d) ==
  \/ d.parent = d.agent
  \/ \E i, j \in DOMAIN d.path : i # j /\ d.path[i] = d.path[j]
  \/ \E i \in DOMAIN d.path : d.path[i] = d.agent

SpawnVerdict(d) ==
  IF d.agent = None \/ d.prompt = 0 THEN "MISSING_REQUIRED_FIELD"
  ELSE IF \/ d.agent = Bad
          \/ d.prompt > MaxText \/ d.system > MaxText
          \/ d.timeout # None /\ d.timeout \notin Timeout THEN "SCHEMA_CONSTRAINT_VIOLATION"
  ELSE IF Circular(d) THEN "CIRCULAR_SPAWN_REFERENCE" ELSE "ok"

TextVerdict(d) ==
  IF d.message = 0 THEN "MISSING_REQUIRED_FIELD"
  ELSE IF d.message > MaxMessage \/ (d.type = "squad_update" /\ d.details > MaxMessage)
  THEN "SCHEMA_CONSTRAINT_VIOLATION" ELSE "ok"

Verdict(d) ==
  CASE d.type = "unknown" -> "ok"
    [] d.type = "agent_spawn" -> SpawnVerdict(d)
    [] OTHER -> TextVerdict(d)
=============================================================================
