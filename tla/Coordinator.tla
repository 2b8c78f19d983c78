----------------------------- MODULE Coordinator -----------------------------
(***************************************************************************)
(* The coordinator of a squad in one or more pi processes ("hosts") open on *)
(* one repository: the /squad command (route), the squad_dispatch tool, the *)
(* hook that composes and assesses the prompt of a turn, the caches of the  *)
(* team stack, the registry and the dispatch table, the migration of        *)
(* .squad/casting/registry.json, and the prompt files of spawned children.  *)
(*                                                                         *)
(* Files are inodes, for two migrations share one temporary file: the       *)
(* second may still be writing the inode the first has renamed.             *)
(***************************************************************************)
EXTENDS Directives

CONSTANTS
  Call, Host, HostOf,      \* HostOf[c]: the process that makes call c
  Message,                 \* Message[lot]: what /squad may be given
  Task,                    \* Task[lot]: the agents squad_dispatch may be called for, and whether with a prompt
  Known,                   \* does a command's context name its session
  Team,                    \* the roster team.md is given: a set of agents
  Raw,                     \* registry.json as it is first found: agent -> entry, or None
  Charter,                 \* the agents that have a charter.md
  Executes,                \* the hosts whose pi offers exec()
  Used,                    \* the sizes in tokens a prompt may have
  Plan,                    \* what may go on: the calls made and their lot, the turns a host begins, who may die
  MaxClock,                \* how many milliseconds pass
  Torn                     \* what a file being written holds

ASSUME CoordinatorAssumption ==
  /\ HostOf \in [Call -> Host]
  /\ Team \subseteq Agent /\ Charter \subseteq Agent /\ Executes \subseteq Host
  /\ Used \subseteq Nat /\ MaxClock \in Nat
  /\ None \notin Call \cup {Team} /\ "first" \notin Call \cup {None}
  /\ None \notin {"unwritten", "kept", "squad", "minimal", "default"}
  /\ \A p \in Plan : /\ p.calls \subseteq Call /\ p.mortal \subseteq Host
                     /\ p.lot \in DOMAIN Message \cap DOMAIN Task /\ p.turns \in [Host -> Nat]

Window == 200000

VARIABLES
  now,       \* the clock, in milliseconds
  life,      \* life[h]: the process is safe, mortal or dead
  team,      \* team.md: None or a roster
  registry,  \* the inode of registry.json, or None
  temp,      \* the inode of registry.json.tmp, or None
  content,   \* content[i]: the entries in inode i, or Torn
  stack,     \* stack[h]: the team stack is cached
  entries,   \* entries[h]: the cached registry entries, or None
  table,     \* table[h]: the cached dispatch table, agent -> builtin, or None
  call,      \* call[c]: where a route or a dispatch stands
  dirs,      \* the directories of prompt files
  prompt,    \* prompt[<<dir, agent>>]: the call whose prompt that file holds
  hook,      \* hook[h][n]: the work of the n-th before_agent_start
  given,     \* given[h][n]: the prompt the n-th turn got
  level,     \* level[h]: the pressure of the last budget measured, or None
  turn       \* turn[h]: turnIndex

files == <<team, registry, temp, content>>
caches == <<stack, entries, table>>
hooks == <<hook, given, level, turn>>
vars == <<now, life, files, caches, call, dirs, prompt, hooks>>

(***************************************************************************)
(* Registry entries and their migration.                                   *)
(***************************************************************************)
BuiltinOf(agentRole) ==
  CASE agentRole = "lead" -> "planner"
    [] agentRole \in {"tester", "security", "reviewer"} -> "reviewer"
    [] agentRole \in {"developer", "devops", "designer", "prompt-engineer"} -> "worker"
    [] OTHER -> None

\* The role a free-text role is taken for; "ralph" and unrecognized ones have none.
Inferred(role) == IF role \in {"lead", "developer", "tester", "security", "devops", "prompt-engineer", "scribe"}
                  THEN role ELSE None

MigratedEntry(e) ==
  LET r == Inferred(e.role) IN
  [e EXCEPT !.agentRole = IF @ = None THEN r ELSE @,
            !.piBuiltin = IF @ = None /\ r # None THEN BuiltinOf(r) ELSE @]

Migrated(es) == [a \in DOMAIN es |-> MigratedEntry(es[a])]

\* A file that is half written is told from one that is whole.
ASSUME TornAssumption == Raw # None => Torn \notin {Raw, Migrated(Raw)}

\* The agents of the rows of team.md, lower-cased; no file is no rows.
Roster == IF team = None THEN {} ELSE team

\* The roster with the builtin the registry names for a member.
Members(es) ==
  [a \in Roster |-> IF a \in DOMAIN es THEN es[a].piBuiltin ELSE None]

\* The entries a registry file holds, whichever of its two layouts it has.
Entries(i) == IF i = None THEN <<>> ELSE content[i]

Inode == {"first"} \cup Call
Idle == [pc |-> "idle", lot |-> None, kind |-> "route", agent |-> None, system |-> FALSE, session |-> None,
         dir |-> None, fd |-> None, saw |-> None, exit |-> None, log |-> <<>>]

\* A call that ended keeps only what it told and what it left behind.
Over(r) == [r EXCEPT !.pc = "done", !.agent = None, !.system = FALSE, !.session = None,
                     !.exit = None]

Init == \E p \in Plan :
  /\ now = 0
  /\ life = [h \in Host |-> IF h \in p.mortal THEN "mortal" ELSE "safe"]
  /\ team = None
  /\ registry = IF Raw = None THEN None ELSE "first"
  /\ temp = None
  /\ content = [i \in {"first"} |-> Raw]
  /\ stack = [h \in Host |-> FALSE]
  /\ entries = [h \in Host |-> None]
  /\ table = [h \in Host |-> None]
  /\ call = [c \in Call |-> IF c \in p.calls THEN [Idle EXCEPT !.lot = p.lot] ELSE Over(Idle)]
  /\ dirs = {} /\ prompt = <<>>
  /\ hook = [h \in Host |-> [n \in 1..p.turns[h] |-> "none"]]
  /\ given = [h \in Host |-> [n \in 1..p.turns[h] |-> None]]
  /\ level = [h \in Host |-> None]
  /\ turn = [h \in Host |-> 0]

\* A file of that name, new or again, has that content.
With(f, name, text) == [g \in DOMAIN f \cup {name} |-> IF g = name THEN text ELSE f[g]]

At(c, pc) == call[c].pc = pc
Goes(c, pc) == call' = [call EXCEPT ![c].pc = pc]
Logs(c, stage) == [Over(call[c]) EXCEPT !.log = Append(@, stage)]
Tells(c, stage) == call' = [call EXCEPT ![c] = Logs(c, stage)]

Tick == now < MaxClock /\ now' = now + 1 /\ UNCHANGED <<life, files, caches, call, dirs, prompt, hooks>>

\* A process is killed, or crashes, between any two steps.
Alive(h) == life[h] # "dead"
Dies(h) == /\ life[h] = "mortal" /\ life' = [life EXCEPT ![h] = "dead"]
           /\ UNCHANGED <<now, files, caches, call, dirs, prompt, hooks>>

\* squad-init, or a user, writes team.md (external).
WriteTeam == team = None /\ team' = Team
             /\ UNCHANGED <<now, life, registry, temp, content, caches, call, dirs, prompt, hooks>>

\* session_start resolves the team stack; without a squad it rejects.
SessionStart(h) ==
  /\ ~stack[h] /\ team # None
  /\ stack' = [stack EXCEPT ![h] = TRUE]
  /\ UNCHANGED <<now, life, files, entries, table, call, dirs, prompt, hooks>>

(***************************************************************************)
(* route: the guard, the team stack, the dispatch table.                   *)
(***************************************************************************)
\* The session of a command is the one of its context, or is named for the clock.
Route(c, m) ==
  LET d == Parsed(m)
      spawn == d.type = "agent_spawn" IN
  /\ At(c, "idle") /\ Verdict(d) = "ok"
  /\ call' = [call EXCEPT ![c] = [Idle EXCEPT !.pc = "stack",
                !.agent = IF spawn THEN d.agent ELSE None,
                !.system = spawn /\ d.system > 0,
                !.session = IF Known THEN <<"given">> ELSE <<"session", now>>]]
  /\ UNCHANGED <<now, life, files, caches, dirs, prompt, hooks>>

Refuse(c, m) ==
  /\ At(c, "idle") /\ Verdict(Parsed(m)) # "ok"
  /\ call' = [call EXCEPT ![c] = [Idle EXCEPT !.pc = "done", !.log = <<"guard_violation">>]]
  /\ UNCHANGED <<now, life, files, caches, dirs, prompt, hooks>>

\* Without a squad the command itself rejects, and no event is emitted.
NoSquad(c) ==
  /\ At(c, "stack") /\ ~stack[HostOf[c]] /\ team = None
  /\ call' = [call EXCEPT ![c] = Over(@)]
  /\ UNCHANGED <<now, life, files, caches, dirs, prompt, hooks>>

\* RouteDispatcher: an update, an answer and an unknown directive are only logged.
Answered(r) == [Over(r) EXCEPT !.log = <<"guard_passed", "dispatch_completed">>]

\* A directive that is no spawn is answered at once.
HasStack(c) ==
  /\ At(c, "stack") /\ (stack[HostOf[c]] \/ team # None)
  /\ stack' = [stack EXCEPT ![HostOf[c]] = TRUE]
  /\ call' = [call EXCEPT ![c] =
       IF @.agent # None
       THEN [@ EXCEPT !.pc = "table", !.log = <<"guard_passed">>]
       ELSE Answered(@)]
  /\ UNCHANGED <<now, life, files, entries, table, dirs, prompt, hooks>>

\* getDispatchTable: neither cache is awaited by a second caller, who builds again.
Lookup(c) ==
  /\ At(c, "table")
  /\ Goes(c, IF table[HostOf[c]] # None THEN "vet"
             ELSE IF entries[HostOf[c]] # None THEN "build" ELSE "load")
  /\ UNCHANGED <<now, life, files, caches, dirs, prompt, hooks>>

\* loadRegistryEntries: no file is no entries; one that is torn, cannot be read, or whose
\* temporary file cannot be opened, fails the dispatch.
LoadFails(c) ==
  /\ call[c].pc \in {"load", "open"} /\ registry # None
  /\ Tells(c, "dispatch_failed")
  /\ UNCHANGED <<now, life, files, caches, dirs, prompt, hooks>>

Loads(c) ==
  LET es == Entries(registry) IN
  /\ At(c, "load") /\ es # Torn
  /\ IF es = Migrated(es)
     THEN /\ entries' = [entries EXCEPT ![HostOf[c]] = es]
          /\ Goes(c, "build")
     ELSE Goes(c, "open") /\ UNCHANGED entries
  /\ UNCHANGED <<now, life, files, stack, table, dirs, prompt, hooks>>

\* Mutant: the registry is written in place.
OpensRegistry(c) ==
  /\ At(c, "open")
  /\ temp' = registry /\ content' = [content EXCEPT ![registry] = Torn]
  /\ call' = [call EXCEPT ![c].pc = "write", ![c].fd = registry]
  /\ UNCHANGED <<now, life, team, registry, caches, dirs, prompt, hooks>>

\* writeMigratedRegistry: opening the temporary file empties it ...
OpensTemp(c) ==
  LET i == IF temp = None THEN c ELSE temp IN
  /\ At(c, "open")
  /\ temp' = i
  /\ content' = With(content, i, Torn)
  /\ call' = [call EXCEPT ![c].pc = "write", ![c].fd = i]
  /\ UNCHANGED <<now, life, team, registry, caches, dirs, prompt, hooks>>

WritesTemp(c) ==
  /\ At(c, "write")
  /\ content' = [content EXCEPT ![call[c].fd] = Migrated(Raw)]
  /\ Goes(c, "rename")
  /\ UNCHANGED <<now, life, team, registry, temp, caches, dirs, prompt, hooks>>

\* ... writing it may fail, and leaves what is there ...
WriteFails(c) ==
  /\ At(c, "write")
  /\ call' = [call EXCEPT ![c] = [Logs(c, "dispatch_failed") EXCEPT !.exit = "unwritten"]]
  /\ UNCHANGED <<now, life, files, caches, dirs, prompt, hooks>>

\* ... and it replaces the registry ...
RenamesTemp(c) ==
  /\ At(c, "rename") /\ temp # None
  /\ registry' = temp /\ temp' = None
  /\ entries' = [entries EXCEPT ![HostOf[c]] = Migrated(Raw)]
  /\ call' = [call EXCEPT ![c].pc = "build", ![c].fd = None]
  /\ UNCHANGED <<now, life, team, content, stack, table, dirs, prompt, hooks>>

\* ... unless another has renamed it, or the system refuses: the file stays.
RenameFails(c) ==
  /\ At(c, "rename")
  /\ Tells(c, "dispatch_failed")
  /\ UNCHANGED <<now, life, files, caches, dirs, prompt, hooks>>

Builds(c) ==
  /\ At(c, "build")
  /\ table' = [table EXCEPT ![HostOf[c]] = Members(entries[HostOf[c]])]
  /\ Goes(c, "vet")
  /\ UNCHANGED <<now, life, files, stack, entries, dirs, prompt, hooks>>

\* getPreSpawnGuardMessage: a target off the roster, or an overflow, is answered with
\* a request to reassess; otherwise the child is prepared.
Unfit(c) ==
  \/ call[c].agent \notin DOMAIN table[HostOf[c]]
  \/ level[HostOf[c]] = "OVERFLOW"

Vetoed(c) ==
  /\ At(c, "vet") /\ Unfit(c)
  /\ Tells(c, "dispatch_completed")
  /\ UNCHANGED <<now, life, files, caches, dirs, prompt, hooks>>

Vetted(c) ==
  /\ At(c, "vet") /\ ~Unfit(c)
  /\ call' = [call EXCEPT ![c] =
       IF HostOf[c] \notin Executes THEN Logs(c, "dispatch_completed")
       ELSE [@ EXCEPT !.pc = "charter",
                      !.system = IF table[HostOf[c]][call[c].agent] # None THEN TRUE ELSE @]]
  /\ UNCHANGED <<now, life, files, caches, dirs, prompt, hooks>>

\* squad_dispatch goes straight to the child: no guard, no roster, no builtin.
Dispatch(c, t) ==
  /\ At(c, "idle")
  /\ call' = [call EXCEPT ![c] = [Idle EXCEPT !.kind = "tool", !.session = <<"session", now>>,
       !.agent = t.agent, !.system = t.system,
       !.pc = IF HostOf[c] \in Executes THEN "charter" ELSE "done"]]
  /\ UNCHANGED <<now, life, files, caches, dirs, prompt, hooks>>

(***************************************************************************)
(* spawnSquadAgent: the prompt file, the child, the clean-up.              *)
(***************************************************************************)
\* Mutant: processes are not told apart.
DirOfNoProcess(c) == <<call[c].session, now>>
Dir(c) == <<call[c].session, now, HostOf[c]>>

\* The charter, the line that names the builtin and the directive's own text.
HasPrompt(c) == call[c].agent \in Charter \/ call[c].system

\* The charter is read and the directory named; without a prompt the child runs at once.
Charters(c) ==
  /\ At(c, "charter")
  /\ call' = IF HasPrompt(c)
             THEN [call EXCEPT ![c].pc = "mkdir", ![c].dir = Dir(c)]
             ELSE [call EXCEPT ![c].pc = "run"]
  /\ UNCHANGED <<now, life, files, caches, dirs, prompt, hooks>>

MakesDir(c) ==
  /\ At(c, "mkdir")
  /\ dirs' = dirs \cup {call[c].dir}
  /\ Goes(c, "prompt")
  /\ UNCHANGED <<now, life, files, caches, prompt, hooks>>

\* A call that rejects: a command tells it, a tool call throws.
Failed(c) == IF call[c].kind = "tool" THEN Over(call[c]) ELSE Logs(c, "dispatch_failed")

File(c) == <<call[c].dir, call[c].agent>>

WritesPrompt(c) ==
  /\ At(c, "prompt") /\ call[c].dir \in dirs
  /\ prompt' = With(prompt, File(c), c)
  /\ Goes(c, "run")
  /\ UNCHANGED <<now, life, files, caches, dirs, hooks>>

\* The directory cannot be made or the file not be written, for the directory is gone or
\* the disk is full: nobody removes it.
PromptFails(c) ==
  /\ call[c].pc \in {"mkdir", "prompt"}
  /\ call' = [call EXCEPT ![c] = [Failed(c) EXCEPT !.exit = "unwritten"]]
  /\ UNCHANGED <<now, life, files, caches, dirs, prompt, hooks>>

\* The child opens the prompt it was pointed at (external: pi).
ChildReads(c) ==
  /\ At(c, "run") /\ call[c].dir # None /\ call[c].saw = None
  /\ call' = [call EXCEPT ![c].saw = IF File(c) \in DOMAIN prompt THEN prompt[File(c)] ELSE "nothing"]
  /\ UNCHANGED <<now, life, files, caches, dirs, prompt, hooks>>

\* It ends, rejects the task by its charter, or is killed by exec's timeout or a signal.
ChildEnds(c, exit) ==
  /\ At(c, "run") /\ exit \in {"ok", "code", "reject", "error"}
  /\ call' = [call EXCEPT ![c].exit = exit,
                ![c].pc = "cleanup"]
  /\ UNCHANGED <<now, life, files, caches, dirs, prompt, hooks>>

\* The prompts without those of a directory.
Removed(d) == [f \in {g \in DOMAIN prompt : g[1] # d} |-> prompt[f]]

\* Mutant: the clean-up is not in a finally.
CleansUpOnReturn(c) ==
  /\ At(c, "cleanup")
  /\ IF call[c].exit = "error" THEN UNCHANGED <<dirs, prompt>>
     ELSE dirs' = dirs \ {call[c].dir} /\ prompt' = Removed(call[c].dir)
  /\ call' = [call EXCEPT ![c] =
       IF @.exit = "error" THEN Failed(c)
       ELSE IF @.kind = "tool" THEN Over(@) ELSE Logs(c, "dispatch_completed")]
  /\ UNCHANGED <<now, life, files, caches, hooks>>

\* The directory is removed with all it holds, however the child ended.
CleansUp(c) ==
  /\ At(c, "cleanup")
  /\ dirs' = dirs \ {call[c].dir}
  /\ prompt' = Removed(call[c].dir)
  /\ call' = [call EXCEPT ![c] =
       IF @.exit = "error" THEN Failed(c)
       ELSE IF @.kind = "tool" THEN Over(@) ELSE Logs(c, "dispatch_completed")]
  /\ UNCHANGED <<now, life, files, caches, hooks>>

\* Removing it may fail as well, all at once or half-way: the call fails, whatever its
\* child did, and the directory stays.
RemovalFails(c) ==
  /\ At(c, "cleanup") /\ call[c].dir # None
  /\ prompt' \in {prompt, Removed(call[c].dir)}
  /\ call' = [call EXCEPT ![c] = [Failed(c) EXCEPT !.exit = "kept"]]
  /\ UNCHANGED <<now, life, files, caches, dirs, hooks>>

(***************************************************************************)
(* before_agent_start: getSystemPrompt, assessContext, the recovery.       *)
(***************************************************************************)
Pressure(used) ==
  IF used * 100 >= 100 * Window THEN "OVERFLOW"
  ELSE IF used * 100 >= 90 * Window THEN "CRITICAL"
  ELSE IF used * 100 >= 70 * Window THEN "WARNING" ELSE "NOMINAL"

Gives(h, n, what) == given' = [given EXCEPT ![h][n] = IF @ = None THEN what ELSE @]

\* A turn begins when the one before has its prompt.
BeginPrompt(h, n) ==
  /\ hook[h][n] = "none" /\ (n > 1 => given[h][n - 1] # None)
  /\ hook' = [hook EXCEPT ![h][n] = "prompt"]
  /\ UNCHANGED <<now, life, files, caches, call, dirs, prompt, given, level, turn>>

\* The prompt is minimal without a squad, and holds its files with one.
Composed(h) == IF stack[h] \/ team # None THEN "squad" ELSE "minimal"

Recorded(h, n) ==
  /\ hook' = [hook EXCEPT ![h][n] = "done"]
  /\ turn' = [turn EXCEPT ![h] = @ + 1]
  /\ Gives(h, n, Composed(h))

\* Composed with the squad's files, or minimal without; measured; at CRITICAL and above
\* a recovery is tried before the prompt is handed on.
Assess(h, n, used) ==
  /\ hook[h][n] = "prompt"
  /\ stack' = [stack EXCEPT ![h] = @ \/ team # None]
  /\ level' = [level EXCEPT ![h] = Pressure(used)]
  /\ IF Pressure(used) \in {"CRITICAL", "OVERFLOW"}
     THEN hook' = [hook EXCEPT ![h][n] = "recover"] /\ UNCHANGED <<given, turn>>
     ELSE Recorded(h, n)
  /\ UNCHANGED <<now, life, files, entries, table, call, dirs, prompt>>

\* The recovery opens the stores and runs; what it does is in Recovery.  A failure of the
\* strategies is only warned of.
Recover(h, n) ==
  /\ hook[h][n] = "recover" /\ (stack[h] \/ team # None)
  /\ Recorded(h, n)
  /\ UNCHANGED <<now, life, files, caches, call, dirs, prompt, level>>

\* The stores (or the stack) cannot be opened: the whole hook fails.
RecoverFails(h, n) ==
  /\ hook[h][n] = "recover"
  /\ hook' = [hook EXCEPT ![h][n] = "failed"]
  /\ Gives(h, n, "default")
  /\ UNCHANGED <<now, life, files, caches, call, dirs, prompt, level, turn>>

\* After ten seconds the turn goes on without; the work is not cancelled.
HookTimeout(h, n) ==
  /\ hook[h][n] \in {"prompt", "recover"} /\ given[h][n] = None
  /\ Gives(h, n, "default")
  /\ UNCHANGED <<now, life, files, caches, call, dirs, prompt, hook, level, turn>>

Begins(c) ==
  /\ At(c, "idle")
  /\ \/ \E m \in Message[call[c].lot] : Route(c, m) \/ Refuse(c, m)
     \/ \E t \in Task[call[c].lot] : Dispatch(c, t)

Steps(c) ==
  \/ NoSquad(c) \/ HasStack(c) \/ Lookup(c) \/ LoadFails(c) \/ Loads(c)
  \/ OpensTemp(c) \/ WritesTemp(c) \/ WriteFails(c) \/ RenamesTemp(c) \/ RenameFails(c) \/ Builds(c)
  \/ Vetoed(c) \/ Vetted(c) \/ Charters(c) \/ MakesDir(c) \/ WritesPrompt(c) \/ PromptFails(c)
  \/ CleansUp(c) \/ RemovalFails(c) \/ \E e \in {"ok", "code", "reject", "error"} : ChildEnds(c, e)

Hooks(h, n) ==
  \/ BeginPrompt(h, n) \/ Recover(h, n) \/ RecoverFails(h, n) \/ HookTimeout(h, n)
  \/ \E u \in Used : Assess(h, n, u)

Next ==
  \/ Tick \/ WriteTeam
  \/ \E h \in Host : Dies(h)
  \/ \E h \in Host : Alive(h) /\ (SessionStart(h) \/ \E n \in DOMAIN hook[h] : Hooks(h, n))
  \/ \E c \in Call : Alive(HostOf[c]) /\ (Begins(c) \/ Steps(c))
  \/ \E c \in Call : ChildReads(c)

Spec == Init /\ [][Next]_vars

(***************************************************************************)
(* Properties.                                                             *)
(***************************************************************************)
\* The shape of the calls, of the caches and of the files.
TypeOK ==
  /\ now \in 0..MaxClock
  /\ registry \in Inode \cup {None} /\ temp \in Inode \cup {None}
  /\ \A h \in Host : turn[h] \in 0..Len(hook[h]) /\ (table[h] # None => DOMAIN table[h] = Team)
  /\ \A f \in DOMAIN prompt : f[1] \in dirs
  /\ \A c \in Call :
       /\ call[c].saw \in Call \cup {None, "nothing"}
       /\ call[c].fd \in Inode \cup {None}

\* spawn.ts: a child is given the prompt written for it, whatever other processes and
\* later calls do; only calls of the same process in the same millisecond share a
\* directory, and may take each other's prompt away.
SameMoment(c, e) == HostOf[c] = HostOf[e] /\ call[c].dir # None /\ call[c].dir[2] = call[e].dir[2]
PromptsKept ==
  \A c \in Call :
    call[c].saw \notin {None, c} => \E e \in Call \ {c} : call[e].dir # None /\ SameMoment(c, e)

\* coordinator.ts, index.ts: a turn goes on with a composed prompt only if the work for it
\* ended well, and turnIndex counts the works that did, those that came too late included.
TurnsCounted ==
  \A h \in Host :
    /\ turn[h] = Cardinality({n \in DOMAIN hook[h] : hook[h][n] = "done"})
    /\ \A n \in DOMAIN hook[h] :
         /\ given[h][n] \in {"squad", "minimal"} => hook[h][n] = "done"
         /\ given[h][n] = "squad" => team # None
         /\ hook[h][n] \in {"done", "failed"} => given[h][n] # None

\* coordinator.ts: a command tells its outcome exactly once, and a call that ended has left
\* no prompt behind unless writing or removing it failed, which the command tells whatever
\* its child did; and the turns are counted as they ended.
Settled ==
  /\ TypeOK /\ TurnsCounted
  /\ \A c \in Call : At(c, "done") =>
       /\ call[c].kind = "route" =>
            /\ call[c].log \in {<<>>, <<"guard_violation">>, <<"guard_passed", "dispatch_completed">>,
                               <<"guard_passed", "dispatch_failed">>}
            /\ call[c].exit \in {"unwritten", "kept"} => call[c].log = <<"guard_passed", "dispatch_failed">>
       /\ call[c].dir \in dirs =>
            \/ call[c].exit \in {"unwritten", "kept"}
            \/ \E e \in Call \ {c} : call[e].dir = call[c].dir

\* A migration that has not finished writing an inode: it is at work, it failed, or its
\* process died.
Unfinished(c, i) == call[c].fd = i /\ (At(c, "write") \/ call[c].exit = "unwritten")

\* migration.ts: registry.json holds every entry, as it was found or with the fields the
\* roles imply, unless a migration has not finished a temporary file that another has
\* renamed (for good, when it failed or died); the file it was found in is never torn.  A
\* temporary file is there only while a migration is at work, or after one that was cut short.
RegistryKept ==
  /\ registry # None =>
       /\ content[registry] \in {Raw, Migrated(Raw), Torn}
       /\ content[registry] = Torn => registry # "first" /\ \E c \in Call : Unfinished(c, registry)
  /\ temp # None => \E c \in Call : call[c].fd = temp /\ (At(c, "done") => call[c].log = <<"guard_passed", "dispatch_failed">>)
=============================================================================
