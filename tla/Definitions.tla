------------------------------ MODULE Definitions ------------------------------
(***************************************************************************)
(* Agents and chains as files, and the calls of the management tool that    *)
(* create, update and delete them, in one process after another or in two   *)
(* at once. A step is one file operation; a look into the directories is    *)
(* one step, since a process does nothing else meanwhile. A file is         *)
(* addressed by directory, base and extension, and says a name of its own.  *)
(***************************************************************************)
EXTENDS Integers, Sequences, FiniteSets

CONSTANTS
  Call,            \* calls of the tool
  DefinitionPlan,  \* the files there are, whether ~/.agents exists, what each call asks, whether
                   \* calls may overlap and whether their process may die
  NoName           \* the name of a file that is no definition

Path(dir, base, ext) == [dir |-> dir, base |-> base, ext |-> ext]

\* Agents are read from ~/.pi/agent/agents ("old") and ~/.agents ("new"), and from .agents
\* ("legacy") and .pi/agents ("preferred") of the project; chains from one directory each.
FilePath ==
  [dir : {"old", "new", "legacy", "preferred"}, base : Nat, ext : {"md"}]
    \cup [dir : {"userChains", "projectChains"}, base : Nat, ext : {"chain.md", "chain.json"}]
NoPath == Path("none", 0, "none")

ASSUME DefinitionsAssumption ==
  /\ NoName \notin Nat \cup FilePath /\ \A c \in Call : c \notin FilePath \cup {NoPath, NoName}
  /\ \A p \in DefinitionPlan :
       /\ IsFiniteSet(DOMAIN p.files) /\ DOMAIN p.files \subseteq FilePath
       /\ \A path \in DOMAIN p.files : p.files[path] \in Nat \cup {NoName}
       /\ p.calls \in [Call -> [op : {"create", "update", "delete"}, kind : {"agent", "chain"},
                                scope : {"user", "project", "any"}, name : Nat, to : Nat]]
       /\ \A c \in Call : p.calls[c].op = "create" => p.calls[c].scope # "any"

VARIABLES
  definitionPlan, \* what may happen in this behaviour
  definitions,    \* definitions[path]: the inode of the file, the name in it and its text
  call,           \* call[c]: where a call stands, the path it holds and what it will write there
  answered        \* the calls that have ended, in that order

definitionVars == <<definitionPlan, definitions, call, answered>>

Asked(c) == definitionPlan.calls[c]

\* The scope a directory belongs to, and the kind of its files.
ScopeOf(p) == IF p.dir \in {"old", "new", "userChains"} THEN "user" ELSE "project"
KindOf(p) == IF p.ext = "md" THEN "agent" ELSE "chain"

\* Files are read in the order of their directories and names; the later of two
\* with one name counts, but a chain in JSON beats one in Markdown.
Supersedes(p, q) ==
  \/ p.dir = q.dir /\ p.ext = q.ext /\ p.base > q.base
  \/ p.dir = q.dir /\ p.ext = "chain.json" /\ q.ext = "chain.md"
  \/ p.dir = "preferred" /\ q.dir = "legacy"
  \/ p.dir = "new" /\ q.dir = "old"

Loaded(kind, scope) ==
  {p \in DOMAIN definitions : KindOf(p) = kind /\ ScopeOf(p) = scope /\ definitions[p].name # NoName}

LastRead(S) == {p \in S : \A q \in S : definitions[q].name = definitions[p].name => ~ Supersedes(q, p)}

\* What the management tool sees: the agents of the user's two directories are all kept.
Discovered(kind, scope) ==
  IF kind = "agent" /\ scope = "user" THEN Loaded(kind, scope) ELSE LastRead(Loaded(kind, scope))

\* What a call for an agent or a chain of that name runs.
Prevails(kind, scope, name) == {p \in LastRead(Loaded(kind, scope)) : definitions[p].name = name}

NameExists(scope, name, except) ==
  \E p \in (Discovered("agent", scope) \cup Discovered("chain", scope)) \ {except} : definitions[p].name = name

Candidates(c) ==
  {p \in Discovered(Asked(c).kind, "user") \cup Discovered(Asked(c).kind, "project") :
     definitions[p].name = Asked(c).name /\ Asked(c).scope \in {"any", ScopeOf(p)}}

TargetDir(kind, scope) ==
  CASE kind = "chain" -> IF scope = "user" THEN "userChains" ELSE "projectChains"
    [] kind = "agent" /\ scope = "user" -> IF definitionPlan.new THEN "new" ELSE "old"
    [] OTHER -> "preferred"

TargetPath(c) == Path(TargetDir(Asked(c).kind, Asked(c).scope), Asked(c).name, IF Asked(c).kind = "agent" THEN "md" ELSE "chain.md")

Resting == [pc |-> "idle", path |-> NoPath, inode |-> NoPath]

DefinitionsInit ==
  /\ definitionPlan \in DefinitionPlan
  /\ definitions = [p \in DOMAIN definitionPlan.files |-> [inode |-> p, name |-> definitionPlan.files[p], text |-> p]]
  /\ call = [c \in Call |-> Resting]
  /\ answered = <<>>

Over(c) == call[c].pc \in {"done", "refused", "failed", "dead"}

Proceeds(c, r) ==
  /\ call' = [call EXCEPT ![c] = r]
  /\ answered' = IF r.pc \in {"done", "refused", "failed", "dead"} THEN Append(answered, c) ELSE answered
  /\ UNCHANGED definitionPlan

Holds(c, pc, p) == Proceeds(c, [call[c] EXCEPT !.pc = pc, !.path = p])
Returns(c, pc) == Proceeds(c, [call[c] EXCEPT !.pc = pc])

Asks(c, ops) ==
  /\ call[c].pc = "idle" /\ Asked(c).op \in ops
  /\ definitionPlan.overlap \/ \A d \in Call : call[d].pc = "idle" \/ Over(d)

\* Mutant: create does not look for a file that is no valid definition.
CreatesOverInvalid(c) ==
  /\ Asks(c, {"create"})
  /\ IF NameExists(Asked(c).scope, Asked(c).name, NoPath) THEN Returns(c, "refused") ELSE Holds(c, "open", TargetPath(c))
  /\ UNCHANGED definitions

Creates(c) ==
  /\ Asks(c, {"create"})
  /\ IF NameExists(Asked(c).scope, Asked(c).name, NoPath) \/ TargetPath(c) \in DOMAIN definitions
     THEN Returns(c, "refused") ELSE Holds(c, "open", TargetPath(c))
  /\ UNCHANGED definitions

\* resolveTarget takes a definition only if it is the only one of that name.
FindsNone(c) ==
  /\ Asks(c, {"update", "delete"}) /\ Cardinality(Candidates(c)) # 1
  /\ Returns(c, "refused") /\ UNCHANGED definitions

Finds(c) ==
  /\ Asks(c, {"update", "delete"})
  /\ \E p \in Candidates(c) : Candidates(c) = {p} /\
       Proceeds(c, [pc |-> IF Asked(c).op = "delete" THEN "unlink" ELSE IF Asked(c).to = Asked(c).name THEN "open" ELSE "check",
                    path |-> p, inode |-> definitions[p].inode])
  /\ UNCHANGED definitions

NewPath(c) == [call[c].path EXCEPT !.base = Asked(c).to]

\* renamePath refuses a name that is taken and a path that is in use.
ChecksName(c) == LET p == call[c].path IN
  /\ call[c].pc = "check"
  /\ IF NameExists(ScopeOf(p), Asked(c).to, p) \/ (NewPath(c) \in DOMAIN definitions /\ NewPath(c) # p)
     THEN Returns(c, "refused") ELSE Holds(c, "rename", p)
  /\ UNCHANGED definitions

Renames(c) == LET p == call[c].path IN
  /\ call[c].pc = "rename"
  /\ IF p \in DOMAIN definitions
     THEN /\ Holds(c, "open", NewPath(c))
          /\ definitions' = [q \in (DOMAIN definitions \ {p}) \cup {NewPath(c)} |->
                               definitions[IF q = NewPath(c) THEN p ELSE q]]
     ELSE Returns(c, "failed") /\ UNCHANGED definitions

\* writeFileSync opens and empties the file, or creates it, and writes through
\* what it has opened, wherever that file is by then.
Truncates(c) == LET p == call[c].path
                    inode == IF p \in DOMAIN definitions THEN definitions[p].inode ELSE c IN
  /\ call[c].pc = "open"
  /\ Proceeds(c, [call[c] EXCEPT !.pc = "write", !.inode = inode])
  /\ definitions' = [q \in DOMAIN definitions \cup {p} |->
       IF q = p THEN [inode |-> inode, name |-> NoName, text |-> NoName] ELSE definitions[q]]

NewName(c) == IF Asked(c).op = "create" THEN Asked(c).name ELSE Asked(c).to

Fills(c) ==
  /\ call[c].pc = "write"
  /\ definitions' = [p \in DOMAIN definitions |->
       IF definitions[p].inode = call[c].inode
       THEN [definitions[p] EXCEPT !.name = NewName(c), !.text = c] ELSE definitions[p]]
  /\ Returns(c, "done")

Removes(c) == LET p == call[c].path IN
  /\ call[c].pc = "unlink"
  /\ IF p \in DOMAIN definitions
     THEN Returns(c, "done") /\ definitions' = [q \in DOMAIN definitions \ {p} |-> definitions[q]]
     ELSE Returns(c, "failed") /\ UNCHANGED definitions

\* The process of a call dies between two of its steps (external).
CallDies(c) ==
  /\ definitionPlan.dies /\ call[c].pc \in {"open", "write"}
  /\ Returns(c, "dead") /\ UNCHANGED definitions

DefinitionsNext ==
  \E c \in Call : \/ Creates(c) \/ FindsNone(c) \/ Finds(c) \/ ChecksName(c) \/ Renames(c)
                  \/ Truncates(c) \/ Fills(c) \/ Removes(c) \/ CallDies(c)

(***************************************************************************)
(* Properties                                                              *)
(***************************************************************************)

Alike(names) ==
  {x \in (DOMAIN names) \X (DOMAIN names) :
     x[1] # x[2] /\ ScopeOf(x[1]) = ScopeOf(x[2]) /\ names[x[1]] = names[x[2]] /\ names[x[1]] # NoName}

\* Calls that follow one another never give two definitions of a scope one name.
NamesStayApart ==
  ~ definitionPlan.overlap /\ Alike(definitionPlan.files) = {} =>
    Alike([p \in DOMAIN definitions |-> definitions[p].name]) = {}

\* When a call is answered with success, what it wrote is what its scope runs under
\* that name, and a name it deleted runs nothing - unless the name stood in two
\* files, of which the call deletes the one that was seen.
AnswersAreTrue ==
  ~ definitionPlan.overlap /\ answered # <<>> /\ (\A d \in Call : call[d].pc = "idle" \/ Over(d)) =>
    LET c == answered[Len(answered)]
        p == call[c].path
    IN call[c].pc = "done" =>
         IF Asked(c).op = "delete"
         THEN Alike(definitionPlan.files) = {} => Prevails(Asked(c).kind, ScopeOf(p), Asked(c).name) = {}
         ELSE /\ Prevails(Asked(c).kind, ScopeOf(p), definitions[p].name) = {p}
              /\ definitions[p].text = c

\* A text that is no longer in any file was in the file that an update or a delete took;
\* a create takes none, not even one that is no valid definition.
NoneIsLost ==
  ~ definitionPlan.overlap =>
    LET Taken(inode) == \E d \in Call : Asked(d).op # "create" /\ call[d].inode = inode /\ call[d].pc \in {"write", "done", "dead"}
        There(text) == \E p \in DOMAIN definitions : definitions[p].text = text
    IN \A p \in DOMAIN definitionPlan.files : There(p) \/ Taken(p)

\* Whatever calls overlap or die, a file whose base and whose name no call asks for
\* stays as it was.
OthersUntouched ==
  \A p \in DOMAIN definitionPlan.files :
    (\A c \in Call : {Asked(c).name, Asked(c).to} \cap {p.base, definitionPlan.files[p]} = {}) =>
      p \in DOMAIN definitions /\ definitions[p].text = p

\* What the management tool answers is so, and it touches nothing else:
\* NamesStayApart, AnswersAreTrue, NoneIsLost and OthersUntouched.
DefinitionsHold == NamesStayApart /\ AnswersAreTrue /\ NoneIsLost /\ OthersUntouched
=============================================================================
