--------------------------- MODULE CoordinatorProofs ---------------------------
(***************************************************************************)
(* Theorems about Coordinator, for any processes, calls, messages, rosters, *)
(* registries and turns.                                                    *)
(*                                                                         *)
(* Every property follows from what a step of one call can do to what the   *)
(* others hold, so the invariants relate each shared thing to a call: a     *)
(* prompt file to its writer (PromptInv), a directory to one that named it  *)
(* (DirInv), a torn inode to one that has it open (RegistryInv).            *)
(***************************************************************************)
EXTENDS Coordinator, SequenceTheorems, FiniteSetTheorems, TLAPS

\* A call that has passed the naming of its prompt's directory, or never reaches it.
NamedPcs == {"mkdir", "prompt", "run", "cleanup", "done"}
EarlyPcs == {"idle", "stack", "table", "load", "open", "write", "rename", "build", "vet", "charter"}
Named(c) == call[c].pc \in NamedPcs

\* The records of the calls: a call that is not named has no directory.
CallShape ==
  /\ DOMAIN call = Call
  /\ \A c \in Call :
       /\ DOMAIN call[c] = DOMAIN Idle
       /\ call[c].pc \in EarlyPcs \cup NamedPcs
       /\ ~ Named(c) => call[c].dir = None /\ call[c].saw = None
       /\ call[c].dir # None => call[c].dir[3] = HostOf[c]
       /\ call[c].saw # None => call[c].dir # None
       /\ call[c].pc \in EarlyPcs \ {"charter"} => call[c].kind = "route"
       /\ call[c].fd # None => call[c].pc \in {"write", "rename", "done"}
       /\ call[c].exit \in {"unwritten", "kept"} => At(c, "done")

\* Another call has the directory of c.
Shared(c) == \E e \in Call \ {c} : call[e].dir = call[c].dir

\* A prompt file is its writer's; a child that runs finds a file under the name of its own
\* unless another call has the same directory.
PromptInv ==
  /\ \A f \in DOMAIN prompt :
       prompt[f] \in Call /\ Named(prompt[f]) /\ call[prompt[f]].dir = f[1] /\ f[1] \in dirs
  /\ \A c \in Call :
       /\ At(c, "run") /\ call[c].dir # None => File(c) \in DOMAIN prompt \/ Shared(c)
       /\ call[c].saw \notin {None, c} => Shared(c)
       /\ call[c].saw \in Call \cup {None, "nothing"}

\* A directory is that of a call; one that ended has removed its own, unless it is shared.
DirInv ==
  /\ \A d \in dirs : \E e \in Call : Named(e) /\ call[e].dir = d
  /\ \A c \in Call : At(c, "done") /\ call[c].dir \in dirs => call[c].exit \in {"unwritten", "kept"} \/ Shared(c)

\* What a command has told so far; it tells what it could not write or remove.
LogInv ==
  \A c \in Call : call[c].kind = "route" =>
    /\ At(c, "done") /\ (call[c].exit \in {"unwritten", "kept"} \/ call[c].fd # None) =>
         call[c].log = <<"guard_passed", "dispatch_failed">>
    /\ call[c].pc \in {"idle", "stack"} => call[c].log = <<>>
    /\ call[c].pc \notin {"idle", "stack", "done"} => call[c].log = <<"guard_passed">>
    /\ call[c].pc = "done" =>
         call[c].log \in {<<>>, <<"guard_violation">>, <<"guard_passed", "dispatch_completed">>,
                          <<"guard_passed", "dispatch_failed">>}

\* Whoever needs the roster has found team.md.
TeamInv ==
  /\ team \in {None, Team}
  /\ DOMAIN stack = Host /\ DOMAIN table = Host
  /\ \A h \in Host : (stack[h] => team = Team) /\ (table[h] # None => DOMAIN table[h] = Team)
  /\ \A c \in Call : call[c].pc \in {"table", "load", "open", "write", "rename", "build"} => team = Team

\* The inodes: a torn one is not finished, and never the one the registry was found in.
RegistryInv ==
  IF Raw = None THEN registry = None /\ temp = None /\ \A c \in Call : call[c].pc \notin {"open", "write", "rename"}
  ELSE /\ DOMAIN content \subseteq Inode
       /\ registry # None => registry \in DOMAIN content
       /\ temp # None =>
            temp \in Call \cap DOMAIN content /\ \E c \in Call : call[c].kind = "route" /\ call[c].fd = temp
       /\ \A c \in Call : call[c].pc \in {"write", "rename"} => call[c].fd \in Call \cap DOMAIN content
       /\ \A i \in DOMAIN content :
            /\ content[i] \in {Torn, Raw, Migrated(Raw)}
            /\ content[i] = Torn => i \in Call /\ \E c \in Call : Unfinished(c, i)
FdInv == \A c \in Call : call[c].fd \in Inode \cup {None}

\* A stage is told after the guard has passed.
LEMMA Told == ASSUME NEW x PROVE Append(<<"guard_passed">>, x) = <<"guard_passed", x>>
<1> DEFINE S == {"guard_passed", x}
<1>1. <<"guard_passed">> \in Seq(S) /\ x \in S /\ Len(<<"guard_passed">>) = 1 /\ <<"guard_passed">>[1] = "guard_passed"
  OBVIOUS
<1>2. /\ <<"guard_passed", x>> \in Seq(S) /\ Len(<<"guard_passed", x>>) = 2
      /\ <<"guard_passed", x>>[1] = "guard_passed" /\ <<"guard_passed", x>>[2] = x
  OBVIOUS
<1> HIDE DEF S
<1>3. /\ Append(<<"guard_passed">>, x) \in Seq(S) /\ Len(Append(<<"guard_passed">>, x)) = 2
      /\ Append(<<"guard_passed">>, x)[1] = "guard_passed" /\ Append(<<"guard_passed">>, x)[2] = x
  BY <1>1, AppendProperties
<1>4. \A i \in 1..2 : Append(<<"guard_passed">>, x)[i] = <<"guard_passed", x>>[i]
  BY <1>2, <1>3
<1> QED
  BY <1>2, <1>3, <1>4, SeqEqual

\* A call that tells its last stage.
LEMMA LogsOf ==
  ASSUME CallShape, NEW c \in Call, NEW x
  PROVE  /\ Logs(c, x).kind = call[c].kind /\ Logs(c, x).pc = "done" /\ DOMAIN Logs(c, x) = DOMAIN Idle
         /\ Logs(c, x).exit = None /\ Logs(c, x).fd = call[c].fd
         /\ call[c].log = <<"guard_passed">> => Logs(c, x).log = <<"guard_passed", x>>
<1>1. DOMAIN call[c] = DOMAIN Idle
  BY DEF CallShape
<1>2. /\ DOMAIN Over(call[c]) = DOMAIN Idle /\ Over(call[c]).kind = call[c].kind /\ Over(call[c]).pc = "done"
      /\ Over(call[c]).exit = None /\ Over(call[c]).fd = call[c].fd /\ Over(call[c]).log = call[c].log
  BY <1>1 DEF Over, Idle
<1>3. /\ Logs(c, x).kind = call[c].kind /\ Logs(c, x).pc = "done" /\ DOMAIN Logs(c, x) = DOMAIN Idle
      /\ Logs(c, x).exit = None /\ Logs(c, x).fd = call[c].fd
      /\ Logs(c, x).log = Append(call[c].log, x)
  BY <1>2 DEF Logs, Idle
<1> QED
  BY <1>3, Told

LEMMA NothingMigrated == Migrated(<<>>) = <<>>
BY DEF Migrated

HookPcs == {"none", "prompt", "recover", "done", "failed"}
DoneOf(s) == {n \in DOMAIN s : s[n] = "done"}

\* turnIndex counts the hooks that ended well.
HookInv ==
  /\ DOMAIN hook = Host /\ DOMAIN turn = Host
  /\ \A h \in Host : hook[h] \in Seq(HookPcs) /\ turn[h] = Cardinality(DoneOf(hook[h]))

\* A turn is given what its work composed, or goes on without.
GivenInv ==
  /\ DOMAIN given = Host
  /\ \A h \in Host : DOMAIN given[h] = DOMAIN hook[h] /\ \A n \in DOMAIN hook[h] :
       /\ given[h][n] \in {"squad", "minimal"} => hook[h][n] = "done"
       /\ given[h][n] = "squad" => team = Team
       /\ hook[h][n] \in {"done", "failed"} => given[h][n] # None

\* One more hook has ended well, or not.
LEMMA DoneCounted ==
  ASSUME NEW s \in Seq(HookPcs), NEW n \in DOMAIN s, s[n] # "done", NEW x \in HookPcs
  PROVE  /\ [s EXCEPT ![n] = x] \in Seq(HookPcs)
         /\ Cardinality(DoneOf([s EXCEPT ![n] = x])) = Cardinality(DoneOf(s)) + IF x = "done" THEN 1 ELSE 0
<1>1. DOMAIN s = 1..Len(s) /\ Len(s) \in Nat
  BY LenProperties
<1>2. [s EXCEPT ![n] = x] \in Seq(HookPcs)
  BY <1>1, ExceptSeq
<1>3. IsFiniteSet(DoneOf(s))
  <2>1. IsFiniteSet(1..Len(s))
    BY <1>1, FS_Interval
  <2> QED
    BY <1>1, <2>1, FS_Subset DEF DoneOf
<1>4. CASE x = "done"
  <2>1. DoneOf([s EXCEPT ![n] = x]) = DoneOf(s) \cup {n} /\ n \notin DoneOf(s)
    BY <1>4 DEF DoneOf
  <2> QED
    BY <1>2, <1>3, <1>4, <2>1, FS_AddElement
<1>5. CASE x # "done"
  <2>1. DoneOf([s EXCEPT ![n] = x]) = DoneOf(s)
    BY <1>5 DEF DoneOf
  <2>2. Cardinality(DoneOf(s)) \in Nat
    BY <1>3, FS_CardinalityType
  <2> QED
    BY <1>2, <1>5, <2>1, <2>2
<1> QED
  BY <1>4, <1>5

\* No more hooks ended than began.
LEMMA DoneBounded ==
  ASSUME NEW s \in Seq(HookPcs)
  PROVE  Cardinality(DoneOf(s)) \in 0..Len(s)
<1>1. DOMAIN s = 1..Len(s) /\ Len(s) \in Nat
  BY LenProperties
<1>2. IsFiniteSet(1..Len(s)) /\ Cardinality(1..Len(s)) = Len(s)
  BY <1>1, FS_Interval
<1>3. DoneOf(s) \subseteq 1..Len(s)
  BY <1>1 DEF DoneOf
<1> QED
  BY <1>1, <1>2, <1>3, FS_Subset, FS_CardinalityType

LEMMA CallShapeInit == Init => CallShape /\ PromptInv /\ DirInv /\ LogInv /\ FdInv
BY CoordinatorAssumption DEF Init, CallShape, PromptInv, DirInv, LogInv, FdInv, Shared, At, Idle, Over, Named, NamedPcs, EarlyPcs

LEMMA FilesInit == Init => TeamInv /\ RegistryInv
BY CoordinatorAssumption, TornAssumption DEF Init, TeamInv, RegistryInv, Inode, At, Idle, Over

callVars == <<call, dirs, prompt, registry, temp, content>>

\* A step is one of a call's or leaves the calls, their files and the registry alone.
LEMMA CallOrNot ==
  ASSUME [Next]_vars
  PROVE  \/ \E c \in Call :
              \/ \E m : Route(c, m) \/ Refuse(c, m) \/ Dispatch(c, m)
              \/ NoSquad(c) \/ HasStack(c) \/ Lookup(c) \/ LoadFails(c) \/ Loads(c)
              \/ OpensTemp(c) \/ WritesTemp(c) \/ WriteFails(c) \/ RenamesTemp(c) \/ RenameFails(c) \/ Builds(c)
              \/ Vetoed(c) \/ Vetted(c) \/ Charters(c) \/ MakesDir(c) \/ WritesPrompt(c) \/ PromptFails(c)
              \/ CleansUp(c) \/ RemovalFails(c) \/ ChildReads(c) \/ \E e : ChildEnds(c, e)
         \/ UNCHANGED callVars
<1> USE DEF callVars, files, hooks
<1>1. ASSUME NEW h \in Host, SessionStart(h) \/ \E n \in DOMAIN hook[h] : Hooks(h, n) PROVE UNCHANGED callVars
  BY <1>1 DEF SessionStart, Hooks, BeginPrompt, Assess, Recover, RecoverFails, HookTimeout
<1>2. CASE Tick \/ WriteTeam \/ (\E h \in Host : Dies(h)) \/ UNCHANGED vars
  BY <1>2 DEF Tick, WriteTeam, Dies, vars
<1>3. ASSUME NEW c \in Call, Begins(c)
      PROVE  \E m : Route(c, m) \/ Refuse(c, m) \/ Dispatch(c, m)
  BY <1>3 DEF Begins
<1> QED
  BY <1>1, <1>2, <1>3 DEF Next, Steps

\* A call moves alone.
LEMMA CallShapeNext == ASSUME CallShape, [Next]_vars PROVE CallShape'
<1> USE DEF CallShape, Named, NamedPcs, EarlyPcs, At, Idle, hooks
<1> USE CoordinatorAssumption
<1>1. ASSUME NEW c \in Call, NEW m, Route(c, m) PROVE CallShape'
  BY <1>1 DEF Route
<1>2. ASSUME NEW c \in Call, NEW m, Refuse(c, m) PROVE CallShape'
  BY <1>2 DEF Refuse
<1>3. ASSUME NEW c \in Call, NEW t, Dispatch(c, t) PROVE CallShape'
  BY <1>3 DEF Dispatch
<1>4. ASSUME NEW c \in Call, NoSquad(c) PROVE CallShape'
  BY <1>4 DEF NoSquad, Over
<1>5. ASSUME NEW c \in Call, HasStack(c) PROVE CallShape'
  BY <1>5 DEF HasStack, Answered, Over
<1>6. ASSUME NEW c \in Call, Lookup(c) PROVE CallShape'
  BY <1>6 DEF Lookup, Goes
<1>7. ASSUME NEW c \in Call, LoadFails(c) PROVE CallShape'
  BY <1>7 DEF LoadFails, Tells, Logs, Over
<1>8. ASSUME NEW c \in Call, Loads(c) PROVE CallShape'
  BY <1>8 DEF Loads, Goes
<1>9. ASSUME NEW c \in Call, OpensTemp(c) PROVE CallShape'
  BY <1>9 DEF OpensTemp
<1>10. ASSUME NEW c \in Call, WritesTemp(c) PROVE CallShape'
  BY <1>10 DEF WritesTemp, Goes
<1>11. ASSUME NEW c \in Call, RenamesTemp(c) PROVE CallShape'
  BY <1>11 DEF RenamesTemp
<1>12. ASSUME NEW c \in Call, RenameFails(c) PROVE CallShape'
  BY <1>12 DEF RenameFails, Tells, Logs, Over
<1>13. ASSUME NEW c \in Call, Builds(c) PROVE CallShape'
  BY <1>13 DEF Builds, Goes
<1>14. ASSUME NEW c \in Call, Vetoed(c) PROVE CallShape'
  BY <1>14 DEF Vetoed, Tells, Logs, Over
<1>15. ASSUME NEW c \in Call, Vetted(c) PROVE CallShape'
  BY <1>15 DEF Vetted, Logs, Over
<1>16. ASSUME NEW c \in Call, Charters(c) PROVE CallShape'
  BY <1>16 DEF Charters, Dir
<1>17. ASSUME NEW c \in Call, MakesDir(c) PROVE CallShape'
  BY <1>17 DEF MakesDir, Goes
<1>18. ASSUME NEW c \in Call, WritesPrompt(c) PROVE CallShape'
  BY <1>18 DEF WritesPrompt, Goes
<1>19. ASSUME NEW c \in Call, PromptFails(c) PROVE CallShape'
  BY <1>19 DEF PromptFails, Failed, Logs, Over
<1>20. ASSUME NEW c \in Call, NEW e, ChildEnds(c, e) PROVE CallShape'
  BY <1>20 DEF ChildEnds
<1>21. ASSUME NEW c \in Call, CleansUp(c) PROVE CallShape'
  BY <1>21 DEF CleansUp, Failed, Logs, Over
<1>22. ASSUME NEW c \in Call, ChildReads(c) PROVE CallShape'
  BY <1>22 DEF ChildReads
<1>23. CASE UNCHANGED callVars
  BY <1>23 DEF callVars
<1>32. ASSUME NEW c \in Call, WriteFails(c) PROVE CallShape'
  BY <1>32 DEF WriteFails, Logs, Over
<1>33. ASSUME NEW c \in Call, RemovalFails(c) PROVE CallShape'
  BY <1>33 DEF RemovalFails, Failed, Logs, Over
<1> QED
  BY <1>1, <1>2, <1>3, <1>4, <1>5, <1>6, <1>7, <1>8, <1>9, <1>10, <1>11, <1>12, <1>13, <1>14, <1>15, <1>16, <1>17, <1>18, <1>19, <1>20, <1>21, <1>22, <1>23, <1>32, <1>33, CallOrNot

\* Prompts, whichever call moves.
LEMMA PromptNext == ASSUME CallShape, PromptInv, [Next]_vars PROVE PromptInv'
<1> USE DEF CallShape, PromptInv, Shared, File, With, Removed, Named, NamedPcs, EarlyPcs, At, Idle, hooks
<1>1. ASSUME NEW c \in Call, NEW m, Route(c, m) PROVE PromptInv'
  BY <1>1 DEF Route
<1>2. ASSUME NEW c \in Call, NEW m, Refuse(c, m) PROVE PromptInv'
  BY <1>2 DEF Refuse
<1>3. ASSUME NEW c \in Call, NEW t, Dispatch(c, t) PROVE PromptInv'
  BY <1>3 DEF Dispatch
<1>4. ASSUME NEW c \in Call, NoSquad(c) PROVE PromptInv'
  BY <1>4 DEF NoSquad, Over
<1>5. ASSUME NEW c \in Call, HasStack(c) PROVE PromptInv'
  BY <1>5 DEF HasStack, Answered, Over
<1>6. ASSUME NEW c \in Call, Lookup(c) PROVE PromptInv'
  BY <1>6 DEF Lookup, Goes
<1>7. ASSUME NEW c \in Call, LoadFails(c) PROVE PromptInv'
  BY <1>7 DEF LoadFails, Tells, Logs, Over
<1>8. ASSUME NEW c \in Call, Loads(c) PROVE PromptInv'
  BY <1>8 DEF Loads, Goes
<1>9. ASSUME NEW c \in Call, OpensTemp(c) PROVE PromptInv'
  BY <1>9 DEF OpensTemp
<1>10. ASSUME NEW c \in Call, WritesTemp(c) PROVE PromptInv'
  BY <1>10 DEF WritesTemp, Goes
<1>11. ASSUME NEW c \in Call, RenamesTemp(c) PROVE PromptInv'
  BY <1>11 DEF RenamesTemp
<1>12. ASSUME NEW c \in Call, RenameFails(c) PROVE PromptInv'
  BY <1>12 DEF RenameFails, Tells, Logs, Over
<1>13. ASSUME NEW c \in Call, Builds(c) PROVE PromptInv'
  BY <1>13 DEF Builds, Goes
<1>14. ASSUME NEW c \in Call, Vetoed(c) PROVE PromptInv'
  BY <1>14 DEF Vetoed, Tells, Logs, Over
<1>15. ASSUME NEW c \in Call, Vetted(c) PROVE PromptInv'
  BY <1>15 DEF Vetted, Logs, Over
<1>16. ASSUME NEW c \in Call, Charters(c) PROVE PromptInv'
  BY <1>16 DEF Charters, Dir
<1>17. ASSUME NEW c \in Call, MakesDir(c) PROVE PromptInv'
  BY <1>17 DEF MakesDir, Goes
<1>18. ASSUME NEW c \in Call, WritesPrompt(c) PROVE PromptInv'
  BY <1>18 DEF WritesPrompt, Goes
<1>19. ASSUME NEW c \in Call, PromptFails(c) PROVE PromptInv'
  BY <1>19 DEF PromptFails, Failed, Logs, Over
<1>20. ASSUME NEW c \in Call, NEW e, ChildEnds(c, e) PROVE PromptInv'
  BY <1>20 DEF ChildEnds
<1>21. ASSUME NEW c \in Call, CleansUp(c) PROVE PromptInv'
  BY <1>21 DEF CleansUp, Failed, Logs, Over
<1>22. ASSUME NEW c \in Call, ChildReads(c) PROVE PromptInv'
  BY <1>22 DEF ChildReads
<1>23. CASE UNCHANGED callVars
  BY <1>23 DEF callVars
<1>32. ASSUME NEW c \in Call, WriteFails(c) PROVE PromptInv'
  BY <1>32 DEF WriteFails, Logs, Over
<1>33. ASSUME NEW c \in Call, RemovalFails(c) PROVE PromptInv'
  BY <1>33 DEF RemovalFails, Failed, Logs, Over
<1> QED
  BY <1>1, <1>2, <1>3, <1>4, <1>5, <1>6, <1>7, <1>8, <1>9, <1>10, <1>11, <1>12, <1>13, <1>14, <1>15, <1>16, <1>17, <1>18, <1>19, <1>20, <1>21, <1>22, <1>23, <1>32, <1>33, CallOrNot

\* Directories.
LEMMA DirNext == ASSUME CallShape, DirInv, [Next]_vars PROVE DirInv'
<1> USE DEF CallShape, DirInv, Shared, Named, NamedPcs, EarlyPcs, At, Idle, hooks
<1>1. ASSUME NEW c \in Call, NEW m, Route(c, m) PROVE DirInv'
  BY <1>1 DEF Route
<1>2. ASSUME NEW c \in Call, NEW m, Refuse(c, m) PROVE DirInv'
  BY <1>2 DEF Refuse
<1>3. ASSUME NEW c \in Call, NEW t, Dispatch(c, t) PROVE DirInv'
  BY <1>3 DEF Dispatch
<1>4. ASSUME NEW c \in Call, NoSquad(c) PROVE DirInv'
  BY <1>4 DEF NoSquad, Over
<1>5. ASSUME NEW c \in Call, HasStack(c) PROVE DirInv'
  BY <1>5 DEF HasStack, Answered, Over
<1>6. ASSUME NEW c \in Call, Lookup(c) PROVE DirInv'
  BY <1>6 DEF Lookup, Goes
<1>7. ASSUME NEW c \in Call, LoadFails(c) PROVE DirInv'
  BY <1>7 DEF LoadFails, Tells, Logs, Over
<1>8. ASSUME NEW c \in Call, Loads(c) PROVE DirInv'
  BY <1>8 DEF Loads, Goes
<1>9. ASSUME NEW c \in Call, OpensTemp(c) PROVE DirInv'
  BY <1>9 DEF OpensTemp
<1>10. ASSUME NEW c \in Call, WritesTemp(c) PROVE DirInv'
  BY <1>10 DEF WritesTemp, Goes
<1>11. ASSUME NEW c \in Call, RenamesTemp(c) PROVE DirInv'
  BY <1>11 DEF RenamesTemp
<1>12. ASSUME NEW c \in Call, RenameFails(c) PROVE DirInv'
  BY <1>12 DEF RenameFails, Tells, Logs, Over
<1>13. ASSUME NEW c \in Call, Builds(c) PROVE DirInv'
  BY <1>13 DEF Builds, Goes
<1>14. ASSUME NEW c \in Call, Vetoed(c) PROVE DirInv'
  BY <1>14 DEF Vetoed, Tells, Logs, Over
<1>15. ASSUME NEW c \in Call, Vetted(c) PROVE DirInv'
  BY <1>15 DEF Vetted, Logs, Over
<1>16. ASSUME NEW c \in Call, Charters(c) PROVE DirInv'
  BY <1>16 DEF Charters, Dir
<1>17. ASSUME NEW c \in Call, MakesDir(c) PROVE DirInv'
  BY <1>17 DEF MakesDir, Goes
<1>18. ASSUME NEW c \in Call, WritesPrompt(c) PROVE DirInv'
  BY <1>18 DEF WritesPrompt, Goes
<1>19. ASSUME NEW c \in Call, PromptFails(c) PROVE DirInv'
  BY <1>19 DEF PromptFails, Failed, Logs, Over
<1>20. ASSUME NEW c \in Call, NEW e, ChildEnds(c, e) PROVE DirInv'
  BY <1>20 DEF ChildEnds
<1>21. ASSUME NEW c \in Call, CleansUp(c) PROVE DirInv'
  BY <1>21 DEF CleansUp, Failed, Logs, Over
<1>22. ASSUME NEW c \in Call, ChildReads(c) PROVE DirInv'
  BY <1>22 DEF ChildReads
<1>23. CASE UNCHANGED callVars
  BY <1>23 DEF callVars
<1>32. ASSUME NEW c \in Call, WriteFails(c) PROVE DirInv'
  BY <1>32 DEF WriteFails, Logs, Over
<1>33. ASSUME NEW c \in Call, RemovalFails(c) PROVE DirInv'
  BY <1>33 DEF RemovalFails, Failed, Logs, Over
<1> QED
  BY <1>1, <1>2, <1>3, <1>4, <1>5, <1>6, <1>7, <1>8, <1>9, <1>10, <1>11, <1>12, <1>13, <1>14, <1>15, <1>16, <1>17, <1>18, <1>19, <1>20, <1>21, <1>22, <1>23, <1>32, <1>33, CallOrNot

\* Logs.
LEMMA LogNext == ASSUME CallShape, LogInv, [Next]_vars PROVE LogInv'
<1> USE CoordinatorAssumption DEF CallShape, LogInv, NamedPcs, EarlyPcs, At, Idle, hooks
<1>1. ASSUME NEW c \in Call, NEW m, Route(c, m) PROVE LogInv'
  BY <1>1 DEF Route
<1>2. ASSUME NEW c \in Call, NEW m, Refuse(c, m) PROVE LogInv'
  BY <1>2 DEF Refuse
<1>3. ASSUME NEW c \in Call, NEW t, Dispatch(c, t) PROVE LogInv'
  BY <1>3 DEF Dispatch
<1>4. ASSUME NEW c \in Call, NoSquad(c) PROVE LogInv'
  BY <1>4 DEF NoSquad, Over
<1>5. ASSUME NEW c \in Call, HasStack(c) PROVE LogInv'
  BY <1>5 DEF HasStack, Answered, Over
<1>6. ASSUME NEW c \in Call, Lookup(c) PROVE LogInv'
  BY <1>6 DEF Lookup, Goes
<1>7. ASSUME NEW c \in Call, LoadFails(c) PROVE LogInv'
  <2>1. call[c].kind = "route" => call[c].log = <<"guard_passed">>
    BY <1>7 DEF LoadFails
  <2>2. /\ Logs(c, "dispatch_failed").kind = call[c].kind /\ Logs(c, "dispatch_failed").pc = "done"
        /\ call[c].kind = "route" => Logs(c, "dispatch_failed").log = <<"guard_passed", "dispatch_failed">>
    BY <2>1, LogsOf
  <2> QED
    BY <1>7, <2>2 DEF LoadFails, Tells
<1>8. ASSUME NEW c \in Call, Loads(c) PROVE LogInv'
  BY <1>8 DEF Loads, Goes
<1>9. ASSUME NEW c \in Call, OpensTemp(c) PROVE LogInv'
  BY <1>9 DEF OpensTemp
<1>10. ASSUME NEW c \in Call, WritesTemp(c) PROVE LogInv'
  BY <1>10 DEF WritesTemp, Goes
<1>11. ASSUME NEW c \in Call, RenamesTemp(c) PROVE LogInv'
  BY <1>11 DEF RenamesTemp
<1>12. ASSUME NEW c \in Call, RenameFails(c) PROVE LogInv'
  <2>1. call[c].kind = "route" => call[c].log = <<"guard_passed">>
    BY <1>12 DEF RenameFails
  <2>2. /\ Logs(c, "dispatch_failed").kind = call[c].kind /\ Logs(c, "dispatch_failed").pc = "done"
        /\ call[c].kind = "route" => Logs(c, "dispatch_failed").log = <<"guard_passed", "dispatch_failed">>
    BY <2>1, LogsOf
  <2> QED
    BY <1>12, <2>2 DEF RenameFails, Tells, Logs, Over
<1>13. ASSUME NEW c \in Call, Builds(c) PROVE LogInv'
  BY <1>13 DEF Builds, Goes
<1>14. ASSUME NEW c \in Call, Vetoed(c) PROVE LogInv'
  <2>1. call[c].kind = "route" => call[c].log = <<"guard_passed">>
    BY <1>14 DEF Vetoed
  <2>2. /\ Logs(c, "dispatch_completed").kind = call[c].kind /\ Logs(c, "dispatch_completed").pc = "done"
        /\ call[c].kind = "route" => Logs(c, "dispatch_completed").log = <<"guard_passed", "dispatch_completed">>
        /\ Logs(c, "dispatch_completed").exit = None /\ Logs(c, "dispatch_completed").fd = None
    BY <1>14, <2>1, LogsOf DEF Vetoed
  <2> QED
    BY <1>14, <2>2 DEF Vetoed, Tells
<1>15. ASSUME NEW c \in Call, Vetted(c) PROVE LogInv'
  <2>1. call[c].kind = "route" => call[c].log = <<"guard_passed">>
    BY <1>15 DEF Vetted
  <2>2. /\ Logs(c, "dispatch_completed").kind = call[c].kind /\ Logs(c, "dispatch_completed").pc = "done"
        /\ call[c].kind = "route" => Logs(c, "dispatch_completed").log = <<"guard_passed", "dispatch_completed">>
        /\ Logs(c, "dispatch_completed").exit = None /\ Logs(c, "dispatch_completed").fd = None
    BY <1>15, <2>1, LogsOf DEF Vetted
  <2>3. CASE HostOf[c] \in Executes
    BY <1>15, <2>1, <2>3 DEF Vetted
  <2>4. CASE HostOf[c] \notin Executes
    BY <1>15, <2>2, <2>4 DEF Vetted
  <2> QED
    BY <2>3, <2>4
<1>16. ASSUME NEW c \in Call, Charters(c) PROVE LogInv'
  BY <1>16 DEF Charters, Dir
<1>17. ASSUME NEW c \in Call, MakesDir(c) PROVE LogInv'
  BY <1>17 DEF MakesDir, Goes
<1>18. ASSUME NEW c \in Call, WritesPrompt(c) PROVE LogInv'
  BY <1>18 DEF WritesPrompt, Goes
<1>19. ASSUME NEW c \in Call, PromptFails(c) PROVE LogInv'
  <2>1. call[c].kind = "route" => call[c].log = <<"guard_passed">>
    BY <1>19 DEF PromptFails
  <2>2. /\ Logs(c, "dispatch_failed").kind = call[c].kind /\ Logs(c, "dispatch_failed").pc = "done"
        /\ call[c].kind = "route" => Logs(c, "dispatch_failed").log = <<"guard_passed", "dispatch_failed">>
    BY <2>1, LogsOf
  <2> QED
    BY <1>19, <2>2 DEF PromptFails, Failed, Logs, Over
<1>20. ASSUME NEW c \in Call, NEW e, ChildEnds(c, e) PROVE LogInv'
  BY <1>20 DEF ChildEnds
<1>21. ASSUME NEW c \in Call, CleansUp(c) PROVE LogInv'
  <2>1. call[c].kind = "route" => call[c].log = <<"guard_passed">>
    BY <1>21 DEF CleansUp
  <2>2. /\ Logs(c, "dispatch_failed").kind = call[c].kind /\ Logs(c, "dispatch_failed").pc = "done"
        /\ call[c].kind = "route" => Logs(c, "dispatch_failed").log = <<"guard_passed", "dispatch_failed">>
        /\ Logs(c, "dispatch_failed").exit = None /\ Logs(c, "dispatch_failed").fd = None
    BY <1>21, <2>1, LogsOf DEF CleansUp
  <2>3. /\ Logs(c, "dispatch_completed").kind = call[c].kind /\ Logs(c, "dispatch_completed").pc = "done"
        /\ call[c].kind = "route" => Logs(c, "dispatch_completed").log = <<"guard_passed", "dispatch_completed">>
        /\ Logs(c, "dispatch_completed").exit = None /\ Logs(c, "dispatch_completed").fd = None
    BY <1>21, <2>1, LogsOf DEF CleansUp
  <2>4. CASE call[c].exit = "error"
    <3>1. call' = [call EXCEPT ![c] = Failed(c)]
      BY <1>21, <2>4 DEF CleansUp
    <3>2. CASE call[c].kind = "tool"
      <4>1. call' = [call EXCEPT ![c] = Over(@)]
        BY <3>1, <3>2 DEF Failed
      <4> QED
        BY <3>2, <4>1 DEF Over
    <3>3. CASE call[c].kind # "tool"
      <4>1. call' = [call EXCEPT ![c] = Logs(c, "dispatch_failed")]
        BY <3>1, <3>3 DEF Failed
      <4> QED
        BY <2>2, <4>1
    <3> QED
      BY <3>2, <3>3
  <2>5. CASE call[c].exit # "error" /\ call[c].kind = "tool"
    <3>1. call' = [call EXCEPT ![c] = Over(@)]
      BY <1>21, <2>5 DEF CleansUp
    <3> QED
      BY <2>5, <3>1 DEF Over
  <2>6. CASE call[c].exit # "error" /\ call[c].kind # "tool"
    <3>1. call' = [call EXCEPT ![c] = Logs(c, "dispatch_completed")]
      BY <1>21, <2>6 DEF CleansUp
    <3> QED
      BY <2>3, <3>1
  <2> QED
    BY <2>4, <2>5, <2>6
<1>22. ASSUME NEW c \in Call, ChildReads(c) PROVE LogInv'
  BY <1>22 DEF ChildReads
<1>23. CASE UNCHANGED callVars
  BY <1>23 DEF callVars
<1>32. ASSUME NEW c \in Call, WriteFails(c) PROVE LogInv'
  <2>1. call[c].kind = "route" => call[c].log = <<"guard_passed">>
    BY <1>32 DEF WriteFails
  <2>2. /\ Logs(c, "dispatch_failed").kind = call[c].kind /\ Logs(c, "dispatch_failed").pc = "done"
        /\ call[c].kind = "route" => Logs(c, "dispatch_failed").log = <<"guard_passed", "dispatch_failed">>
    BY <2>1, LogsOf
  <2> QED
    BY <1>32, <2>2 DEF WriteFails, Logs, Over
<1>33. ASSUME NEW c \in Call, RemovalFails(c) PROVE LogInv'
  <2>1. call[c].kind = "route" => call[c].log = <<"guard_passed">>
    BY <1>33 DEF RemovalFails
  <2>2. /\ Logs(c, "dispatch_failed").kind = call[c].kind /\ Logs(c, "dispatch_failed").pc = "done"
        /\ call[c].kind = "route" => Logs(c, "dispatch_failed").log = <<"guard_passed", "dispatch_failed">>
    BY <2>1, LogsOf
  <2> QED
    BY <1>33, <2>2 DEF RemovalFails, Failed, Logs, Over
<1> QED
  BY <1>1, <1>2, <1>3, <1>4, <1>5, <1>6, <1>7, <1>8, <1>9, <1>10, <1>11, <1>12, <1>13, <1>14, <1>15, <1>16, <1>17, <1>18, <1>19, <1>20, <1>21, <1>22, <1>23, <1>32, <1>33, CallOrNot

\* Descriptors.
LEMMA FdNext == ASSUME CallShape, FdInv, [Next]_vars PROVE FdInv'
<1> USE DEF CallShape, FdInv, Inode, NamedPcs, EarlyPcs, At, Idle, hooks
<1>1. ASSUME NEW c \in Call, NEW m, Route(c, m) PROVE FdInv'
  BY <1>1 DEF Route
<1>2. ASSUME NEW c \in Call, NEW m, Refuse(c, m) PROVE FdInv'
  BY <1>2 DEF Refuse
<1>3. ASSUME NEW c \in Call, NEW t, Dispatch(c, t) PROVE FdInv'
  BY <1>3 DEF Dispatch
<1>4. ASSUME NEW c \in Call, NoSquad(c) PROVE FdInv'
  BY <1>4 DEF NoSquad, Over
<1>5. ASSUME NEW c \in Call, HasStack(c) PROVE FdInv'
  BY <1>5 DEF HasStack, Answered, Over
<1>6. ASSUME NEW c \in Call, Lookup(c) PROVE FdInv'
  BY <1>6 DEF Lookup, Goes
<1>7. ASSUME NEW c \in Call, LoadFails(c) PROVE FdInv'
  BY <1>7 DEF LoadFails, Tells, Logs, Over
<1>8. ASSUME NEW c \in Call, Loads(c) PROVE FdInv'
  BY <1>8 DEF Loads, Goes
<1>9. ASSUME NEW c \in Call, OpensTemp(c) PROVE FdInv'
  BY <1>9 DEF OpensTemp
<1>10. ASSUME NEW c \in Call, WritesTemp(c) PROVE FdInv'
  BY <1>10 DEF WritesTemp, Goes
<1>11. ASSUME NEW c \in Call, RenamesTemp(c) PROVE FdInv'
  BY <1>11 DEF RenamesTemp
<1>12. ASSUME NEW c \in Call, RenameFails(c) PROVE FdInv'
  BY <1>12 DEF RenameFails, Tells, Logs, Over
<1>13. ASSUME NEW c \in Call, Builds(c) PROVE FdInv'
  BY <1>13 DEF Builds, Goes
<1>14. ASSUME NEW c \in Call, Vetoed(c) PROVE FdInv'
  BY <1>14 DEF Vetoed, Tells, Logs, Over
<1>15. ASSUME NEW c \in Call, Vetted(c) PROVE FdInv'
  BY <1>15 DEF Vetted, Logs, Over
<1>16. ASSUME NEW c \in Call, Charters(c) PROVE FdInv'
  BY <1>16 DEF Charters, Dir
<1>17. ASSUME NEW c \in Call, MakesDir(c) PROVE FdInv'
  BY <1>17 DEF MakesDir, Goes
<1>18. ASSUME NEW c \in Call, WritesPrompt(c) PROVE FdInv'
  BY <1>18 DEF WritesPrompt, Goes
<1>19. ASSUME NEW c \in Call, PromptFails(c) PROVE FdInv'
  BY <1>19 DEF PromptFails, Failed, Logs, Over
<1>20. ASSUME NEW c \in Call, NEW e, ChildEnds(c, e) PROVE FdInv'
  BY <1>20 DEF ChildEnds
<1>21. ASSUME NEW c \in Call, CleansUp(c) PROVE FdInv'
  BY <1>21 DEF CleansUp, Failed, Logs, Over
<1>22. ASSUME NEW c \in Call, ChildReads(c) PROVE FdInv'
  BY <1>22 DEF ChildReads
<1>23. CASE UNCHANGED callVars
  BY <1>23 DEF callVars
<1>32. ASSUME NEW c \in Call, WriteFails(c) PROVE FdInv'
  BY <1>32 DEF WriteFails, Logs, Over
<1>33. ASSUME NEW c \in Call, RemovalFails(c) PROVE FdInv'
  BY <1>33 DEF RemovalFails, Failed, Logs, Over
<1> QED
  BY <1>1, <1>2, <1>3, <1>4, <1>5, <1>6, <1>7, <1>8, <1>9, <1>10, <1>11, <1>12, <1>13, <1>14, <1>15, <1>16, <1>17, <1>18, <1>19, <1>20, <1>21, <1>22, <1>23, <1>32, <1>33, CallOrNot

\* The roster.
LEMMA TeamNext == ASSUME CallShape, TeamInv, [Next]_vars PROVE TeamInv'
<1> USE DEF CallShape, TeamInv, NamedPcs, EarlyPcs, At, Idle, hooks, caches, files
<1>1. ASSUME NEW c \in Call, NEW m, Route(c, m) PROVE TeamInv'
  BY <1>1 DEF Route
<1>2. ASSUME NEW c \in Call, NEW m, Refuse(c, m) PROVE TeamInv'
  BY <1>2 DEF Refuse
<1>3. ASSUME NEW c \in Call, NEW t, Dispatch(c, t) PROVE TeamInv'
  BY <1>3 DEF Dispatch
<1>4. ASSUME NEW c \in Call, NoSquad(c) PROVE TeamInv'
  BY <1>4 DEF NoSquad, Over
<1>5. ASSUME NEW c \in Call, HasStack(c) PROVE TeamInv'
  BY <1>5, CoordinatorAssumption DEF HasStack, Answered, Over
<1>6. ASSUME NEW c \in Call, Lookup(c) PROVE TeamInv'
  BY <1>6 DEF Lookup, Goes
<1>7. ASSUME NEW c \in Call, LoadFails(c) PROVE TeamInv'
  BY <1>7 DEF LoadFails, Tells, Logs, Over
<1>8. ASSUME NEW c \in Call, Loads(c) PROVE TeamInv'
  BY <1>8 DEF Loads, Goes
<1>9. ASSUME NEW c \in Call, OpensTemp(c) PROVE TeamInv'
  BY <1>9 DEF OpensTemp
<1>10. ASSUME NEW c \in Call, WritesTemp(c) PROVE TeamInv'
  BY <1>10 DEF WritesTemp, Goes
<1>11. ASSUME NEW c \in Call, RenamesTemp(c) PROVE TeamInv'
  BY <1>11 DEF RenamesTemp
<1>12. ASSUME NEW c \in Call, RenameFails(c) PROVE TeamInv'
  BY <1>12 DEF RenameFails, Tells, Logs, Over
<1>13. ASSUME NEW c \in Call, Builds(c) PROVE TeamInv'
  BY <1>13, CoordinatorAssumption DEF Builds, Goes, Members, Roster
<1>14. ASSUME NEW c \in Call, Vetoed(c) PROVE TeamInv'
  BY <1>14 DEF Vetoed, Tells, Logs, Over
<1>15. ASSUME NEW c \in Call, Vetted(c) PROVE TeamInv'
  BY <1>15 DEF Vetted, Logs, Over
<1>16. ASSUME NEW c \in Call, Charters(c) PROVE TeamInv'
  BY <1>16 DEF Charters, Dir
<1>17. ASSUME NEW c \in Call, MakesDir(c) PROVE TeamInv'
  BY <1>17 DEF MakesDir, Goes
<1>18. ASSUME NEW c \in Call, WritesPrompt(c) PROVE TeamInv'
  BY <1>18 DEF WritesPrompt, Goes
<1>19. ASSUME NEW c \in Call, PromptFails(c) PROVE TeamInv'
  BY <1>19 DEF PromptFails, Failed, Logs, Over
<1>20. ASSUME NEW c \in Call, NEW e, ChildEnds(c, e) PROVE TeamInv'
  BY <1>20 DEF ChildEnds
<1>21. ASSUME NEW c \in Call, CleansUp(c) PROVE TeamInv'
  BY <1>21 DEF CleansUp, Failed, Logs, Over
<1>22. ASSUME NEW c \in Call, ChildReads(c) PROVE TeamInv'
  BY <1>22 DEF ChildReads
<1>23. ASSUME NEW h \in Host, NEW n \in DOMAIN hook[h], BeginPrompt(h, n) PROVE TeamInv'
  BY <1>23 DEF BeginPrompt
<1>24. ASSUME NEW h \in Host, NEW n \in DOMAIN hook[h], NEW u, Assess(h, n, u) PROVE TeamInv'
  BY <1>24 DEF Assess, Recorded
<1>25. ASSUME NEW h \in Host, NEW n \in DOMAIN hook[h], Recover(h, n) PROVE TeamInv'
  BY <1>25 DEF Recover, Recorded
<1>26. ASSUME NEW h \in Host, NEW n \in DOMAIN hook[h], RecoverFails(h, n) PROVE TeamInv'
  BY <1>26 DEF RecoverFails
<1>27. ASSUME NEW h \in Host, NEW n \in DOMAIN hook[h], HookTimeout(h, n) PROVE TeamInv'
  BY <1>27 DEF HookTimeout
<1>28. ASSUME NEW h \in Host, SessionStart(h) PROVE TeamInv'
  BY <1>28 DEF SessionStart
<1>29. ASSUME Tick PROVE TeamInv'
  BY <1>29 DEF Tick
<1>30. ASSUME WriteTeam PROVE TeamInv'
  BY <1>30 DEF WriteTeam
<1>31. CASE UNCHANGED vars
  BY <1>31 DEF vars, files, caches, hooks
<1>34. ASSUME NEW h \in Host, Dies(h) PROVE TeamInv'
  BY <1>34 DEF Dies
<1>32. ASSUME NEW c \in Call, WriteFails(c) PROVE TeamInv'
  BY <1>32 DEF WriteFails, Logs, Over
<1>33. ASSUME NEW c \in Call, RemovalFails(c) PROVE TeamInv'
  BY <1>33 DEF RemovalFails, Failed, Logs, Over
<1> QED
  BY <1>1, <1>2, <1>3, <1>4, <1>5, <1>6, <1>7, <1>8, <1>9, <1>10, <1>11, <1>12, <1>13, <1>14, <1>15, <1>16, <1>17, <1>18, <1>19, <1>20, <1>21, <1>22, <1>23, <1>24, <1>25, <1>26, <1>27, <1>28, <1>29, <1>30, <1>31, <1>32, <1>33, <1>34 DEF Next, Begins, Steps, Hooks

\* The registry.
LEMMA RegistryNext == ASSUME CallShape, RegistryInv, [Next]_vars PROVE RegistryInv'
<1> USE DEF CallShape, RegistryInv, Unfinished, Inode, With, NamedPcs, EarlyPcs, At, Idle, hooks, caches, files
<1>1. ASSUME NEW c \in Call, NEW m, Route(c, m) PROVE RegistryInv'
  BY <1>1 DEF Route
<1>2. ASSUME NEW c \in Call, NEW m, Refuse(c, m) PROVE RegistryInv'
  BY <1>2 DEF Refuse
<1>3. ASSUME NEW c \in Call, NEW t, Dispatch(c, t) PROVE RegistryInv'
  BY <1>3 DEF Dispatch
<1>4. ASSUME NEW c \in Call, NoSquad(c) PROVE RegistryInv'
  BY <1>4 DEF NoSquad, Over
<1>5. ASSUME NEW c \in Call, HasStack(c) PROVE RegistryInv'
  BY <1>5 DEF HasStack, Answered, Over
<1>6. ASSUME NEW c \in Call, Lookup(c) PROVE RegistryInv'
  BY <1>6 DEF Lookup, Goes
<1>7. ASSUME NEW c \in Call, LoadFails(c) PROVE RegistryInv'
  BY <1>7 DEF LoadFails, Tells, Logs, Over
<1>8. ASSUME NEW c \in Call, Loads(c) PROVE RegistryInv'
  BY <1>8, NothingMigrated DEF Loads, Goes, Entries
<1>9. ASSUME NEW c \in Call, OpensTemp(c) PROVE RegistryInv'
  BY <1>9 DEF OpensTemp
<1>10. ASSUME NEW c \in Call, WritesTemp(c) PROVE RegistryInv'
  BY <1>10, TornAssumption DEF WritesTemp, Goes
<1>11. ASSUME NEW c \in Call, RenamesTemp(c) PROVE RegistryInv'
  BY <1>11 DEF RenamesTemp
<1>12. ASSUME NEW c \in Call, RenameFails(c) PROVE RegistryInv'
  BY <1>12 DEF RenameFails, Tells, Logs, Over
<1>13. ASSUME NEW c \in Call, Builds(c) PROVE RegistryInv'
  BY <1>13 DEF Builds, Goes
<1>14. ASSUME NEW c \in Call, Vetoed(c) PROVE RegistryInv'
  BY <1>14 DEF Vetoed, Tells, Logs, Over
<1>15. ASSUME NEW c \in Call, Vetted(c) PROVE RegistryInv'
  BY <1>15 DEF Vetted, Logs, Over
<1>16. ASSUME NEW c \in Call, Charters(c) PROVE RegistryInv'
  BY <1>16 DEF Charters, Dir
<1>17. ASSUME NEW c \in Call, MakesDir(c) PROVE RegistryInv'
  BY <1>17 DEF MakesDir, Goes
<1>18. ASSUME NEW c \in Call, WritesPrompt(c) PROVE RegistryInv'
  BY <1>18 DEF WritesPrompt, Goes
<1>19. ASSUME NEW c \in Call, PromptFails(c) PROVE RegistryInv'
  BY <1>19 DEF PromptFails, Failed, Logs, Over
<1>20. ASSUME NEW c \in Call, NEW e, ChildEnds(c, e) PROVE RegistryInv'
  BY <1>20 DEF ChildEnds
<1>21. ASSUME NEW c \in Call, CleansUp(c) PROVE RegistryInv'
  BY <1>21 DEF CleansUp, Failed, Logs, Over
<1>22. ASSUME NEW c \in Call, ChildReads(c) PROVE RegistryInv'
  BY <1>22 DEF ChildReads
<1>23. CASE UNCHANGED callVars
  BY <1>23 DEF callVars
<1>32. ASSUME NEW c \in Call, WriteFails(c) PROVE RegistryInv'
  BY <1>32 DEF WriteFails, Logs, Over
<1>33. ASSUME NEW c \in Call, RemovalFails(c) PROVE RegistryInv'
  BY <1>33 DEF RemovalFails, Failed, Logs, Over
<1> QED
  BY <1>1, <1>2, <1>3, <1>4, <1>5, <1>6, <1>7, <1>8, <1>9, <1>10, <1>11, <1>12, <1>13, <1>14, <1>15, <1>16, <1>17, <1>18, <1>19, <1>20, <1>21, <1>22, <1>23, <1>32, <1>33, CallOrNot

\* The hooks of the turns.
LEMMA HookInit == Init => HookInv
<1> SUFFICES ASSUME Init, NEW h \in Host PROVE hook[h] \in Seq(HookPcs) /\ turn[h] = Cardinality(DoneOf(hook[h]))
  BY DEF Init, HookInv
<1>0. PICK p \in Plan : hook[h] = [i \in 1..p.turns[h] |-> "none"] /\ turn[h] = 0
  BY DEF Init
<1>1. PICK n \in Nat : hook[h] = [i \in 1..n |-> "none"] /\ turn[h] = 0
  BY <1>0, CoordinatorAssumption
<1>2. hook[h] \in Seq(HookPcs)
  BY <1>1, SeqDef DEF HookPcs
<1>3. DoneOf(hook[h]) = {}
  BY <1>1 DEF DoneOf
<1> QED
  BY <1>1, <1>2, <1>3, FS_EmptySet

LEMMA HookNext == ASSUME HookInv, [Next]_vars PROVE HookInv'
<1>1. ASSUME NEW c \in Call, Begins(c) \/ Steps(c) \/ ChildReads(c) PROVE UNCHANGED hooks
  <2>1. CASE Begins(c) \/ ChildReads(c)
    BY <2>1 DEF Begins, Route, Refuse, Dispatch, ChildReads
  <2>2. CASE Steps(c)
    BY <2>2 DEF Steps, NoSquad, HasStack, Lookup, LoadFails, Loads, OpensTemp, WritesTemp, WriteFails, RenamesTemp,
       RenameFails, Builds, Vetoed, Vetted, Charters, MakesDir, WritesPrompt, PromptFails, CleansUp, RemovalFails, ChildEnds
  <2> QED
    BY <1>1, <2>1, <2>2
<1>2. ASSUME Tick \/ WriteTeam \/ \E h \in Host : SessionStart(h) \/ Dies(h) PROVE UNCHANGED hooks
  BY <1>2 DEF SessionStart, Dies, Tick, WriteTeam
<1>3. CASE UNCHANGED hooks
  BY <1>3 DEF HookInv, hooks
<1>4. ASSUME NEW h \in Host, NEW n \in DOMAIN hook[h], NEW x \in HookPcs, hook[h][n] # "done",
             hook' = [hook EXCEPT ![h][n] = x], DOMAIN turn' = Host,
             \A g \in Host \ {h} : turn'[g] = turn[g],
             turn'[h] = turn[h] + IF x = "done" THEN 1 ELSE 0
      PROVE  HookInv'
  <2>1. /\ [hook[h] EXCEPT ![n] = x] \in Seq(HookPcs)
        /\ Cardinality(DoneOf([hook[h] EXCEPT ![n] = x])) = Cardinality(DoneOf(hook[h])) + IF x = "done" THEN 1 ELSE 0
    BY <1>4, DoneCounted DEF HookInv
  <2>2. hook'[h] = [hook[h] EXCEPT ![n] = x] /\ \A g \in Host \ {h} : hook'[g] = hook[g]
    BY <1>4 DEF HookInv
  <2>3. DOMAIN hook' = Host
    BY <1>4 DEF HookInv
  <2>4. turn'[h] = Cardinality(DoneOf(hook'[h])) /\ hook'[h] \in Seq(HookPcs)
    BY <1>4, <2>1, <2>2 DEF HookInv
  <2>5. \A g \in Host \ {h} : turn'[g] = Cardinality(DoneOf(hook'[g])) /\ hook'[g] \in Seq(HookPcs)
    BY <1>4, <2>2 DEF HookInv
  <2> QED
    BY <1>4, <2>3, <2>4, <2>5 DEF HookInv
<1>5. ASSUME NEW h \in Host, NEW n \in DOMAIN hook[h], NEW x \in HookPcs, x # "done", hook[h][n] # "done",
             hook' = [hook EXCEPT ![h][n] = x], UNCHANGED turn
      PROVE  HookInv'
  <2>1. turn'[h] = turn[h] + 0
    BY <1>5, DoneBounded DEF HookInv
  <2>2. turn'[h] = turn[h] + IF x = "done" THEN 1 ELSE 0
    BY <1>5, <2>1
  <2> QED
    BY <1>4, <1>5, <2>2 DEF HookInv
<1>6. ASSUME NEW h \in Host, NEW n \in DOMAIN hook[h], Hooks(h, n) PROVE HookInv'
  <2> USE DEF HookPcs
  <2>0. \A g \in Host : turn[g] \in Nat
    BY DoneBounded DEF HookInv
  <2>1. CASE BeginPrompt(h, n)
    BY <1>5, <2>1 DEF BeginPrompt
  <2>2. CASE Recover(h, n)
    BY <1>4, <2>0, <2>2 DEF Recover, Recorded, HookInv
  <2>3. CASE RecoverFails(h, n)
    BY <1>5, <2>3 DEF RecoverFails
  <2>4. CASE HookTimeout(h, n)
    BY <2>4 DEF HookTimeout, HookInv
  <2>5. ASSUME NEW u, Assess(h, n, u) PROVE HookInv'
    <3>1. CASE Recorded(h, n)
      BY <1>4, <2>0, <2>5, <3>1 DEF Assess, Recorded, HookInv
    <3>2. CASE hook' = [hook EXCEPT ![h][n] = "recover"] /\ UNCHANGED <<given, turn>>
      BY <1>5, <2>5, <3>2 DEF Assess
    <3> QED
      BY <2>5, <3>1, <3>2 DEF Assess
  <2> QED
    BY <1>6, <2>1, <2>2, <2>3, <2>4, <2>5 DEF Hooks
<1> QED
  BY <1>1, <1>2, <1>3, <1>6 DEF Next, vars

LEMMA GivenInit == Init => GivenInv
BY CoordinatorAssumption DEF Init, GivenInv

LEMMA GivenNext == ASSUME HookInv, TeamInv, GivenInv, [Next]_vars PROVE GivenInv'
<1>1. ASSUME NEW c \in Call, Begins(c) \/ Steps(c) \/ ChildReads(c) PROVE UNCHANGED <<hook, given, team>>
  <2>1. CASE Begins(c) \/ ChildReads(c)
    BY <2>1 DEF Begins, Route, Refuse, Dispatch, ChildReads, hooks, files
  <2>2. CASE Steps(c)
    BY <2>2 DEF Steps, NoSquad, HasStack, Lookup, LoadFails, Loads, OpensTemp, WritesTemp, WriteFails, RenamesTemp,
       RenameFails, Builds, Vetoed, Vetted, Charters, MakesDir, WritesPrompt, PromptFails, CleansUp, RemovalFails, ChildEnds,
       hooks, files
  <2> QED
    BY <1>1, <2>1, <2>2
<1>2. ASSUME Tick \/ (\E h \in Host : SessionStart(h) \/ Dies(h)) PROVE UNCHANGED <<hook, given, team>>
  BY <1>2 DEF SessionStart, Dies, Tick, hooks, files
<1>3. CASE UNCHANGED <<hook, given, team>>
  BY <1>3 DEF GivenInv
<1>4. CASE WriteTeam
  BY <1>4 DEF WriteTeam, GivenInv, hooks
<1>5. ASSUME NEW h \in Host, NEW n \in DOMAIN hook[h], Hooks(h, n) PROVE GivenInv'
  <2> USE CoordinatorAssumption DEF GivenInv, Gives, TeamInv
  <2>1. CASE BeginPrompt(h, n)
    BY <2>1 DEF BeginPrompt, HookInv, files
  <2>2. CASE Recover(h, n)
    BY <2>2 DEF Recover, Recorded, HookInv, Composed, files
  <2>3. CASE RecoverFails(h, n)
    BY <2>3 DEF RecoverFails, HookInv, files
  <2>4. CASE HookTimeout(h, n)
    BY <2>4 DEF HookTimeout, HookInv, files
  <2>5. ASSUME NEW u, Assess(h, n, u) PROVE GivenInv'
    <3>1. CASE Recorded(h, n)
      BY <2>5, <3>1 DEF Assess, Recorded, HookInv, Composed, files
    <3>2. CASE hook' = [hook EXCEPT ![h][n] = "recover"] /\ UNCHANGED <<given, turn>>
      BY <2>5, <3>2 DEF Assess, HookInv, files
    <3> QED
      BY <2>5, <3>1, <3>2 DEF Assess
  <2> QED
    BY <1>5, <2>1, <2>2, <2>3, <2>4, <2>5 DEF Hooks
<1>6. CASE UNCHANGED vars
  BY <1>3, <1>6 DEF vars, hooks, files
<1> QED
  BY <1>1, <1>2, <1>3, <1>4, <1>5, <1>6 DEF Next

(***************************************************************************)
(* The theorems.                                                           *)
(***************************************************************************)
ClockInv == now \in 0..MaxClock
LEMMA ClockInit == Init => ClockInv
BY CoordinatorAssumption DEF Init, ClockInv

LEMMA ClockNext == ASSUME ClockInv, [Next]_vars PROVE ClockInv'
<1>1. UNCHANGED now \/ Tick
  <2>1. ASSUME NEW h \in Host, \E n \in DOMAIN hook[h] : Hooks(h, n) PROVE UNCHANGED now
    BY <2>1 DEF Hooks, BeginPrompt, Assess, Recover, RecoverFails, HookTimeout
  <2>2. ASSUME NEW c \in Call, Steps(c) PROVE UNCHANGED now
    BY <2>2 DEF Steps, NoSquad, HasStack, Lookup, LoadFails, Loads, OpensTemp, WritesTemp, WriteFails, RenamesTemp,
       RenameFails, Builds, Vetoed, Vetted, Charters, MakesDir, WritesPrompt, PromptFails, CleansUp, RemovalFails, ChildEnds
  <2>3. ASSUME NEW c \in Call, Begins(c) \/ ChildReads(c) PROVE UNCHANGED now
    BY <2>3 DEF Begins, Route, Refuse, Dispatch, ChildReads
  <2> QED
    BY <2>1, <2>2, <2>3 DEF Next, vars, WriteTeam, SessionStart, Dies
<1> QED
  BY <1>1, CoordinatorAssumption DEF ClockInv, Tick

Inv == CallShape /\ PromptInv /\ DirInv /\ LogInv /\ FdInv /\ TeamInv /\ RegistryInv /\ HookInv /\ GivenInv /\ ClockInv

LEMMA Inductive == Spec => []Inv
<1>1. Init => Inv
  BY CallShapeInit, FilesInit, HookInit, GivenInit, ClockInit DEF Inv
<1>2. Inv /\ [Next]_vars => Inv'
  BY CallShapeNext, PromptNext, DirNext, LogNext, FdNext, TeamNext, RegistryNext, HookNext, GivenNext, ClockNext DEF Inv
<1> QED
  BY <1>1, <1>2, PTL DEF Spec

\* spawn.ts: whatever other processes and calls do, a child reads the prompt written for it,
\* or another call of the same process named its directory in the same millisecond.
THEOREM ChildrenGetTheirPrompts == Spec => []PromptsKept
<1>1. Inv => PromptsKept
  <2> SUFFICES ASSUME Inv, NEW c \in Call, call[c].saw \notin {None, c}
               PROVE  \E e \in Call \ {c} : call[e].dir # None /\ SameMoment(c, e)
    BY DEF PromptsKept
  <2>1. PICK e \in Call \ {c} : call[e].dir = call[c].dir
    BY DEF Inv, PromptInv, Shared
  <2> QED
    BY <2>1 DEF Inv, CallShape, SameMoment
<1> QED
  BY <1>1, Inductive, PTL

\* migration.ts: however migrations overlap, fail or die, registry.json is whole, or torn by
\* one that has not finished a temporary file which another has renamed; and such a file
\* stays only with a migration at work or cut short.
THEOREM RegistrySurvives == Spec => []RegistryKept
<1>1. Inv => RegistryKept
  BY CoordinatorAssumption DEF Inv, RegistryInv, RegistryKept, CallShape, LogInv, At, Inode
<1> QED
  BY <1>1, Inductive, PTL

\* coordinator.ts, spawn.ts, index.ts: every command tells one outcome, and leaves no prompt
\* behind that it could write and remove; the turns are counted as their work ended.
THEOREM CallsAreSettled == Spec => []Settled
<1>1. Inv => Settled
  <2> SUFFICES ASSUME Inv PROVE Settled
    OBVIOUS
  <2>1. \A h \in Host : turn[h] \in 0..Len(hook[h])
    BY DoneBounded DEF Inv, HookInv
  <2>2. TypeOK
    BY <2>1 DEF Inv, TypeOK, ClockInv, TeamInv, PromptInv, RegistryInv, FdInv, Inode
  <2>3. TurnsCounted
    BY CoordinatorAssumption DEF Inv, TurnsCounted, HookInv, GivenInv, DoneOf
  <2> QED
    BY <2>2, <2>3 DEF Inv, Settled, DirInv, LogInv, Shared, At
<1> QED
  BY <1>1, Inductive, PTL
================================================================================
