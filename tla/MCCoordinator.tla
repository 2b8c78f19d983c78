---------------------------- MODULE MCCoordinator ----------------------------
(***************************************************************************)
(* An instance of Coordinator: two processes on one repository, two calls  *)
(* in the first and one in the second, messages of every kind and at the    *)
(* bounds of the guard, a registry that needs migration, which all three    *)
(* calls may migrate at once.                                               *)
(***************************************************************************)
EXTENDS Coordinator, TLC
CONSTANTS a, b, g, h, c1, c2, c3

Spawn == [shape |-> "json", type |-> "agent_spawn", agent |-> a, prompt |-> MaxText, system |-> 0,
          timeout |-> 300000, parent |-> None, path |-> <<b>>, message |-> 0, details |-> 0]
Say == [Spawn EXCEPT !.type = "direct_response", !.message = MaxMessage]
MCMessage == "all" :> {
  Spawn, [Spawn EXCEPT !.agent = b, !.path = <<>>],
  [Spawn EXCEPT !.agent = Bad], [Spawn EXCEPT !.prompt = MaxText + 1], [Spawn EXCEPT !.timeout = 999],
  [Spawn EXCEPT !.path = <<b, b>>], [Spawn EXCEPT !.path = <<b, a>>], [Spawn EXCEPT !.parent = a],
  [Spawn EXCEPT !.prompt = 0],
  Say, [Say EXCEPT !.message = MaxMessage + 1], [Say EXCEPT !.message = 0],
  [Say EXCEPT !.type = "squad_update", !.details = MaxMessage + 1],
  [Spawn EXCEPT !.shape = "empty"], [Spawn EXCEPT !.type = "other"],
  [Say EXCEPT !.shape = "text"]}
  @@ "absent" :> {[Spawn EXCEPT !.agent = b, !.path = <<>>]}
MCHostOf == c1 :> g @@ c2 :> g @@ c3 :> h
MCRaw == a :> [role |-> "developer", agentRole |-> None, piBuiltin |-> None]
         @@ b :> [role |-> "scribe", agentRole |-> "scribe", piBuiltin |-> None]
MCTask == "all" :> {[agent |-> a, system |-> TRUE], [agent |-> b, system |-> FALSE]} @@ "absent" :> {}
Turns(n) == g :> n @@ h :> 0
Planned(calls, lot, turns, mortal) == [calls |-> calls, lot |-> lot, turns |-> turns, mortal |-> mortal]
\* Three migrations at once, of calls for an agent off the roster; in the last a process dies.
MCPlan == {Planned({c1, c2}, "all", Turns(0), {}), Planned({c1, c3}, "all", Turns(0), {}),
           Planned({c1}, "all", Turns(2), {g}), Planned({c1, c2, c3}, "absent", Turns(0), {}),
           Planned({c1, c3}, "absent", Turns(0), {g, h})}
=============================================================================
