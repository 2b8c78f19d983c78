---------------------------- MODULE ServicesProofs ----------------------------
(***************************************************************************)
(* Theorems about the services. Only one of them is at work in a           *)
(* behaviour, so each theorem rests on an invariant of one component       *)
(* alone, and on the lemma Separate, by which a step of Services is a step *)
(* of that component or leaves its variables alone. The invariants of      *)
(* overrides, definitions, skills, the dialog, its text fields and the     *)
(* chunker are those of FileAndTextProofs.                                 *)
(***************************************************************************)
EXTENDS Services, FileAndTextProofs

\* A step of Services is one of its services' or leaves that service alone.
LEMMA Separate ==
  ASSUME [Next]_vars
  PROVE  /\ UNCHANGED updateVars \/ UpdateNext
         /\ UNCHANGED recovery \/ RecoveryNext
         /\ UNCHANGED scribeVars \/ ScribeNext
         /\ UNCHANGED <<scribeVars, ralphVars>> \/ (ScribeNext /\ UNCHANGED ralphVars) \/ RalphNext
         /\ UNCHANGED storeVars \/ StoreNext
         /\ UNCHANGED ingestionVars \/ IngestionNext
         /\ UNCHANGED routingVars \/ RoutingNext
         /\ UNCHANGED resumeVars \/ ResumeNext
         /\ UNCHANGED overrideVars \/ OverridesNext
         /\ UNCHANGED definitionVars \/ DefinitionsNext
         /\ UNCHANGED skillVars \/ SkillsNext
         /\ UNCHANGED clarifyVars \/ ClarifyNext
         /\ UNCHANGED editor \/ EditorNext
         /\ UNCHANGED chunkerVars \/ ChunkMarkdown
<1> USE DEF vars, upkeepVars, OthersThan
<1>1. CASE UNCHANGED vars
  BY <1>1
<1>2. CASE OthersThan("upkeep") /\ ((ScribeNext /\ UNCHANGED ralphVars) \/ RalphNext)
  <2>1. UNCHANGED scribeVars \/ ScribeNext
    BY <1>2 DEF RalphNext, scribeVars, SessionStarts, AgentHook, GotStack, Scans, RefreshEnds, RefreshFails,
                HookTimesOut, Stops, TimePasses, TurnEnds, Compacts, Assessed
  <2> QED
    BY <1>2, <2>1
<1>3. CASE Next /\ ~ OthersThan("upkeep")
  BY <1>3 DEF Next
<1> QED
  BY <1>1, <1>2, <1>3 DEF Next

(***************************************************************************)
(* Numbers.  That a sum over a history is a number.                        *)
(***************************************************************************)

\* What the sum of a sequence of naturals is.
Partial(s, k, g) == g \in [0..k -> Nat] /\ \A n \in 0..k : g[n] = IF n = 0 THEN 0 ELSE g[n - 1] + s[n]

\* The sums that Tokens is defined by exist up to every length: the least one without would have a predecessor with one.
LEMMA PartialSums ==
  ASSUME NEW s \in Seq(Nat), NEW k \in 0..Len(s)
  PROVE  \E g : Partial(s, k, g)
<1> DEFINE Missing == {n \in 0..Len(s) : \A g : ~ Partial(s, n, g)}
<1>1. ASSUME Missing # {} PROVE FALSE
  <2>1. PICK n \in Missing : \A m \in Missing : n <= m
    <3>1. Missing \subseteq Nat
      OBVIOUS
    <3> HIDE DEF Missing
    <3> QED
      BY <1>1, <3>1, LeastNat
  <2>2. CASE n = 0
    <3>1. Partial(s, 0, [i \in 0..0 |-> 0])
      BY DEF Partial
    <3> QED
      BY <2>1, <2>2, <3>1
  <2>3. CASE n # 0
    <3>1. n - 1 \in 0..Len(s) /\ n - 1 \notin Missing /\ n \in 1..Len(s)
      BY <2>1, <2>3
    <3>2. PICK g : Partial(s, n - 1, g)
      BY <3>1
    <3> DEFINE h == [i \in 0..n |-> IF i = n THEN g[n - 1] + s[n] ELSE g[i]]
    <3>3. s[n] \in Nat /\ g \in [0..(n - 1) -> Nat] /\ \A i \in 0..(n - 1) : g[i] = IF i = 0 THEN 0 ELSE g[i - 1] + s[i]
      BY <3>1, <3>2 DEF Partial
    <3>4. h \in [0..n -> Nat]
      BY <3>1, <3>3
    <3>5. ASSUME NEW i \in 0..n PROVE h[i] = IF i = 0 THEN 0 ELSE h[i - 1] + s[i]
      BY <3>1, <3>3
    <3> HIDE DEF h
    <3>6. Partial(s, n, h)
      BY <3>4, <3>5 DEF Partial
    <3> QED
      BY <2>1, <3>6
  <2> QED
    BY <2>2, <2>3
<1> QED
  BY <1>1

\* The tokens of a history are a number.
LEMMA TokensNat ==
  ASSUME NEW s \in Seq(Nat)
  PROVE  Tokens(s) \in Nat
<1> DEFINE first == CHOOSE f : f = [n \in 0..Len(s) |-> IF n = 0 THEN 0 ELSE f[n - 1] + s[n]]
<1>1. Len(s) \in Nat
  OBVIOUS
<1>2. PICK g : Partial(s, Len(s), g)
  BY <1>1, PartialSums
<1>3. g = [n \in 0..Len(s) |-> IF n = 0 THEN 0 ELSE g[n - 1] + s[n]]
  BY <1>2 DEF Partial
<1>4. first = [n \in 0..Len(s) |-> IF n = 0 THEN 0 ELSE first[n - 1] + s[n]]
  BY <1>3
<1> HIDE DEF first
<1> DEFINE Wrong == {n \in 0..Len(s) : first[n] \notin Nat}
<1>5. ASSUME Wrong # {} PROVE FALSE
  <2>1. PICK n \in Wrong : \A m \in Wrong : n <= m
    <3>1. Wrong \subseteq Nat
      BY <1>1
    <3> HIDE DEF Wrong
    <3> QED
      BY <1>5, <3>1, LeastNat
  <2>2. n # 0
    BY <1>1, <1>4, <2>1
  <2>3. n - 1 \in 0..Len(s) /\ n - 1 \notin Wrong /\ s[n] \in Nat
    BY <1>1, <2>1, <2>2
  <2>4. first[n] = first[n - 1] + s[n]
    BY <1>4, <2>1, <2>2
  <2> QED
    BY <2>1, <2>3, <2>4
<1>6. first[Len(s)] \in Nat
  BY <1>1, <1>5
<1> QED
  BY <1>6 DEF Tokens, first

(***************************************************************************)
(* The update of Squad.                                                    *)
(***************************************************************************)
Package == [own : {1, 2}, squad : {Old, New}]
Command == [pc : {"read", "latest", "checkout", "write", "fits", "putBackPackage", "putBackHead", "done"}, previous : Package,
            checkedOut : BOOLEAN, written : BOOLEAN, inCatch : BOOLEAN, reloaded : BOOLEAN]
UpdateType == package \in Package /\ update \in Command /\ head \in {Old, New}

UpdateInv ==
  ~ updatePlan.self =>
    /\ update.previous.own = 1 /\ update.previous.squad = Old /\ package.own = 1
    /\ update.pc \in {"read", "latest", "checkout"} =>
         head = Old /\ package.squad = Old /\ ~ update.checkedOut /\ ~ update.written
    /\ update.pc \in {"read", "latest", "checkout", "write", "fits"} => ~ update.inCatch
    /\ update.pc = "write" => head = New /\ package.squad = Old /\ update.checkedOut
    /\ update.pc = "fits" => head = New /\ package.squad = New /\ update.checkedOut
    /\ update.pc = "putBackPackage" /\ ~ update.inCatch => update.checkedOut
    /\ update.pc = "putBackHead" => package.squad = Old /\ (~ update.inCatch => update.checkedOut)
    /\ update.pc # "done" => ~ update.reloaded
    /\ update.pc = "done" /\ mishap = {} => head = package.squad /\ (head = New <=> update.reloaded)

\* A command that throws undoes what it had done, or is over.
LEMMA CommandThrows ==
  ASSUME update \in Command, Throws
  PROVE  /\ update' \in Command /\ update'.inCatch
         /\ update'.pc = IF ~ update.inCatch /\ (update.checkedOut \/ update.written) THEN "putBackPackage" ELSE "done"
         /\ update'.previous = update.previous /\ update'.checkedOut = update.checkedOut
         /\ update'.written = update.written /\ update'.reloaded = update.reloaded
<1> DEFINE pc == IF ~ update.inCatch /\ (update.checkedOut \/ update.written) THEN "putBackPackage" ELSE "done"
<1>1. pc \in {"putBackPackage", "done"}
  OBVIOUS
<1>2. update' = [update EXCEPT !.pc = pc, !.inCatch = TRUE]
  BY DEF Throws
<1> HIDE DEF pc
<1>3. update' \in Command /\ update'.inCatch /\ update'.pc = pc
  BY <1>1, <1>2 DEF Command
<1>4. /\ update'.previous = update.previous /\ update'.checkedOut = update.checkedOut
      /\ update'.written = update.written /\ update'.reloaded = update.reloaded
  BY <1>1, <1>2 DEF Command
<1> QED
  BY <1>3, <1>4 DEF pc

\* A command that goes on stays outside or inside of its catch.
LEMMA CommandGoes ==
  ASSUME update \in Command,
         NEW pc \in {"read", "latest", "checkout", "write", "fits", "putBackPackage", "putBackHead", "done"}, Now(pc)
  PROVE  /\ update' \in Command /\ update'.pc = pc /\ update'.inCatch = update.inCatch
         /\ update'.previous = update.previous /\ update'.checkedOut = update.checkedOut
         /\ update'.written = update.written /\ update'.reloaded = update.reloaded
<1> QED
  BY DEF Command, Now

\* The two invariants of the update hold at first.
LEMMA UpdateStarts == UpdateInit => UpdateType /\ UpdateInv
<1> QED
  BY UpdateAssumption DEF UpdateInit, UpdateType, UpdateInv, Package, Command

\* Every step keeps the types.
LEMMA UpdateTypeNext == UpdateType /\ (UNCHANGED updateVars \/ UpdateNext) => UpdateType'
<1> SUFFICES ASSUME UpdateType, UNCHANGED updateVars \/ UpdateNext PROVE UpdateType'
  OBVIOUS
<1>1. package \in Package /\ update \in Command /\ head \in {Old, New}
  BY DEF UpdateType
<1>2. CASE ReadsPackage
  <2>1. CASE update' = [update EXCEPT !.pc = "latest", !.previous = package]
    BY <1>1, <1>2, <2>1 DEF ReadsPackage, UpdateType, Command
  <2>2. CASE Now("done")
    BY <1>1, <1>2, <2>2, CommandGoes DEF ReadsPackage, UpdateType
  <2> QED
    BY <1>2, <2>1, <2>2 DEF ReadsPackage
<1>3. CASE FindsLatest
  BY <1>1, <1>3, CommandGoes DEF FindsLatest, UpdateType
<1>4. CASE ChecksOut
  <2>1. CASE update' = [update EXCEPT !.pc = "write", !.checkedOut = TRUE]
    BY <1>1, <1>4, <2>1 DEF ChecksOut, UpdateType, Command
  <2>2. CASE Throws
    BY <1>1, <1>4, <2>2, CommandThrows DEF ChecksOut, UpdateType
  <2> QED
    BY <1>4, <2>1, <2>2 DEF ChecksOut
<1>5. CASE WritesPackage
  <2>1. CASE package' = [update.previous EXCEPT !.squad = head] /\ update' = [update EXCEPT !.pc = "fits", !.written = TRUE]
    <3>1. update.previous \in Package
      BY <1>1 DEF Command
    <3>2. package' \in Package
      BY <1>1, <2>1, <3>1 DEF Package
    <3>3. update' \in Command
      BY <1>1, <2>1 DEF Command
    <3> QED
      BY <1>1, <1>5, <3>2, <3>3 DEF WritesPackage, UpdateType
  <2>2. CASE UNCHANGED package /\ Throws
    BY <1>1, <1>5, <2>2, CommandThrows DEF WritesPackage, UpdateType
  <2> QED
    BY <1>5, <2>1, <2>2 DEF WritesPackage
<1>6. CASE Fits
  <2>1. CASE update' = [update EXCEPT !.pc = "done", !.reloaded = TRUE]
    BY <1>1, <1>6, <2>1 DEF Fits, UpdateType, Command
  <2>2. CASE Throws
    BY <1>1, <1>6, <2>2, CommandThrows DEF Fits, UpdateType
  <2>3. CASE Now("putBackPackage")
    BY <1>1, <1>6, <2>3, CommandGoes DEF Fits, UpdateType
  <2> QED
    BY <1>6, <2>1, <2>2, <2>3 DEF Fits
<1>7. CASE PutsBackPackage
  <2>1. update.previous \in Package
    BY <1>1 DEF Command
  <2> QED
    BY <1>1, <1>7, <2>1, CommandThrows, CommandGoes DEF PutsBackPackage, UpdateType
<1>8. CASE PutsBackHead
  <2>1. update.previous.squad \in {Old, New}
    BY <1>1 DEF Command, Package
  <2> QED
    BY <1>1, <1>8, <2>1, CommandThrows, CommandGoes DEF PutsBackHead, UpdateType
<1>9. CASE ExtensionUpdates
  BY <1>1, <1>9 DEF ExtensionUpdates, UpdateType, Package
<1>10. CASE UNCHANGED updateVars
  BY <1>1, <1>10 DEF updateVars, UpdateType
<1> QED
  BY <1>2, <1>3, <1>4, <1>5, <1>6, <1>7, <1>8, <1>9, <1>10 DEF UpdateNext

\* Every step keeps what head and package say at each place of the command.
LEMMA UpdateSteps == UpdateType /\ UpdateInv /\ (UNCHANGED updateVars \/ UpdateNext) => UpdateInv'
<1> SUFFICES ASSUME UpdateType, UpdateInv, UNCHANGED updateVars \/ UpdateNext PROVE UpdateInv'
  OBVIOUS
<1> USE UpdateAssumption DEF UpdateInv
<1>1. package \in Package /\ update \in Command /\ head \in {Old, New}
  BY DEF UpdateType
<1>2. CASE ReadsPackage
  <2>1. CASE update' = [update EXCEPT !.pc = "latest", !.previous = package]
    BY <1>1, <1>2, <2>1 DEF ReadsPackage, Command
  <2>2. CASE Now("done")
    BY <1>1, <1>2, <2>2, CommandGoes DEF ReadsPackage
  <2> QED
    BY <1>2, <2>1, <2>2 DEF ReadsPackage
<1>3. CASE FindsLatest
  BY <1>1, <1>3, CommandGoes DEF FindsLatest
<1>4. CASE ChecksOut
  <2>1. CASE head' = New /\ update' = [update EXCEPT !.pc = "write", !.checkedOut = TRUE] /\ UNCHANGED mishap
    BY <1>1, <1>4, <2>1 DEF ChecksOut, Command
  <2>2. CASE UNCHANGED <<head, mishap>> /\ Throws
    BY <1>1, <1>4, <2>2, CommandThrows DEF ChecksOut
  <2>3. CASE head' = New /\ mishap' = mishap \cup {"checkout took effect but reported failure"} /\ Throws
    BY <1>1, <1>4, <2>3, CommandThrows DEF ChecksOut
  <2> QED
    BY <1>4, <2>1, <2>2, <2>3 DEF ChecksOut
<1>5. CASE WritesPackage
  <2>1. CASE package' = [update.previous EXCEPT !.squad = head] /\ update' = [update EXCEPT !.pc = "fits", !.written = TRUE]
    <3>1. update.previous \in Package
      BY <1>1 DEF Command
    <3>2. package'.own = update.previous.own /\ package'.squad = head
      BY <2>1, <3>1 DEF Package
    <3> QED
      BY <1>1, <1>5, <2>1, <3>2 DEF WritesPackage, Command
  <2>2. CASE UNCHANGED package /\ Throws
    BY <1>1, <1>5, <2>2, CommandThrows DEF WritesPackage
  <2> QED
    BY <1>5, <2>1, <2>2 DEF WritesPackage
<1>6. CASE Fits
  <2>1. CASE update' = [update EXCEPT !.pc = "done", !.reloaded = TRUE]
    BY <1>1, <1>6, <2>1 DEF Fits, Command
  <2>2. CASE Throws
    BY <1>1, <1>6, <2>2, CommandThrows DEF Fits
  <2>3. CASE Now("putBackPackage")
    BY <1>1, <1>6, <2>3, CommandGoes DEF Fits
  <2> QED
    BY <1>6, <2>1, <2>2, <2>3 DEF Fits
<1>7. CASE PutsBackPackage
  BY <1>1, <1>7, CommandThrows, CommandGoes DEF PutsBackPackage
<1>8. CASE PutsBackHead
  BY <1>1, <1>8, CommandThrows, CommandGoes DEF PutsBackHead
<1>9. CASE ExtensionUpdates
  BY <1>9 DEF ExtensionUpdates
<1>10. CASE UNCHANGED updateVars
  BY <1>10 DEF updateVars
<1> QED
  BY <1>2, <1>3, <1>4, <1>5, <1>6, <1>7, <1>8, <1>9, <1>10 DEF UpdateNext

\* After an update, and after one that failed and was rolled back, the checkout and
\* the version that package.json names are of one release - unless a step of the
\* rollback failed too, or a checkout that reported failure had taken effect.
THEOREM UpdatesBothOrNeither == Spec => []BothOrNeither
<1>1. Init => UpdateType /\ UpdateInv
  BY UpdateStarts DEF Init
<1>2. UpdateType /\ UpdateInv /\ [Next]_vars => (UpdateType /\ UpdateInv)'
  BY Separate, UpdateSteps, UpdateTypeNext
<1>3. UpdateInv => BothOrNeither
  BY DEF UpdateInv, BothOrNeither
<1> QED
  BY <1>1, <1>2, <1>3, PTL DEF Spec

(***************************************************************************)
(* The recovery.  The attempts made are the strategies before the next one,*)
(* each with what it found.                                                *)
(***************************************************************************)

Attempt == [strategy : 1..4, success : BOOLEAN, freed : Int]
Recoveries ==
  [used : Nat, decisions : Nat, digest : Nat, history : Seq(Nat), latest : Seq({"none", "whole", "torn"}), writable : BOOLEAN,
   pc : {"open", "try", "done"}, opened : Nat, next : Nat, attempts : Seq(Attempt),
   end : {"none", "unneeded", "rejected", "recovered", "overflow"}, freed : Int, level : Int]

Tried(r) == {r.attempts[k].strategy : k \in DOMAIN r.attempts}
InVain(r) == \A k \in DOMAIN r.attempts : ~ r.attempts[k].success
\* The strategies that a recovery at this pressure has to try before it comes to strategy n.
Due(r, n) == {i \in 1..3 : i < n /\ PressureOf(r.used) >= LevelOf[i] /\ CanAct(r, i)}

RecoveryInv ==
  /\ recovery \in Recoveries
  /\ recovery.pc = "open" => /\ recovery.opened < Len(recovery.latest) /\ recovery.attempts = <<>> /\ recovery.next = 1
                             /\ \A k \in 1..recovery.opened : recovery.latest[k] # "torn"
  /\ recovery.pc = "try" => StoresOpened(recovery)
  /\ recovery.pc = "try" => /\ recovery.next \in 1..5 /\ InVain(recovery)
                            /\ Tried(recovery) = Due(recovery, recovery.next) /\ Tried(recovery) \subseteq {3}
  /\ RecoveryEnds

\* There are four pressures.
LEMMA PressureRange == ASSUME NEW used \in Int PROVE PressureOf(used) \in 0..3
<1> QED
  BY RecoveryAssumption DEF PressureOf

\* What can be dropped is counted in tokens.
LEMMA DroppableNat ==
  ASSUME NEW r \in Recoveries
  PROVE  Droppable(r) \in Seq(Nat) /\ Len(Droppable(r)) = 4 /\ \A i \in 1..4 : Droppable(r)[i] \in Nat
<1>1. r.decisions \in Nat /\ r.digest \in Nat
  BY DEF Recoveries
<1>2. \A n \in Nat : CeilHalf(n) \in Nat /\ n - CeilHalf(n) \in Nat
  BY DEF CeilHalf
<1> DEFINE d == CeilHalf(r.decisions)
           g == CeilHalf(r.digest)
<1>3. d \in Nat /\ r.decisions - d \in Nat /\ g \in Nat /\ r.digest - g \in Nat
  BY <1>1, <1>2
<1>4. Droppable(r) = <<d, r.decisions - d, g, r.digest - g>>
  BY DEF Droppable
<1> HIDE DEF d, g
<1> QED
  BY <1>3, <1>4

\* What strategies free is a number of tokens.
LEMMA FreedNat ==
  ASSUME NEW r \in Recoveries
  PROVE  Dropped(r) \in Nat /\ Summarized(r) \in Nat
<1> DEFINE needed == Positive(r.used - Min2(Total - 1, (Total * 60) \div 100))
           Enough(n) == Tokens(SubSeq(Droppable(r), 1, n)) >= needed /\ Droppable(r)[n] > 0
           all == {n \in 1..4 : Enough(n)}
<1>1. all \subseteq Nat
  OBVIOUS
<1>2. Droppable(r) \in Seq(Nat) /\ Len(Droppable(r)) = 4 /\ Tokens(Droppable(r)) \in Nat
  BY DroppableNat, TokensNat
<1>3. ASSUME all # {}
      PROVE  Tokens(SubSeq(Droppable(r), 1, CHOOSE n \in all : \A m \in all : n <= m)) \in Nat
  <2>1. \E n \in all : \A m \in all : n <= m
    <3> HIDE DEF all
    <3> QED
      BY <1>1, <1>3, LeastNat
  <2> DEFINE n == CHOOSE n \in all : \A m \in all : n <= m
  <2>2. n \in all
    <3> HIDE DEF all
    <3> QED
      BY <2>1
  <2>3. n \in 1..4
    BY <2>2
  <2> HIDE DEF n
  <2>4. SubSeq(Droppable(r), 1, n) \in Seq(Nat)
    <3>1. \A i \in 1..n : Droppable(r)[i] \in Nat
      BY <2>3, DroppableNat
    <3> QED
      BY <2>3, <3>1, SubSeqProperties
  <2>5. Tokens(SubSeq(Droppable(r), 1, n)) \in Nat
    BY <2>4, TokensNat
  <2> QED
    BY <2>5 DEF n
<1>4. Dropped(r) = IF all = {} THEN Tokens(Droppable(r))
                   ELSE Tokens(SubSeq(Droppable(r), 1, CHOOSE n \in all : \A m \in all : n <= m))
  BY DEF Dropped
<1> HIDE DEF all
<1>5. Dropped(r) \in Nat
  BY <1>2, <1>3, <1>4
<1>6. r.history \in Seq(Nat) /\ Len(r.history) \in Nat
  BY DEF Recoveries
<1>7. Summarizable(r) \in Seq(Nat)
  BY <1>6, SubSeqProperties DEF Summarizable, Positive
<1>8. Tokens(Summarizable(r)) \in Nat
  BY <1>7, TokensNat
<1>9. Summarized(r) \in Nat
  BY <1>8 DEF Summarized
<1> QED
  BY <1>5, <1>9

\* A recovery begins with no attempt.
LEMMA RecoveryStarts == RecoveryInit => RecoveryInv
<1> SUFFICES ASSUME NEW i \in RecoveryInput, recovery = Beginning(i) PROVE RecoveryInv
  BY DEF RecoveryInit
<1>1. i \in [used : Nat, decisions : Nat, digest : Nat, history : Seq(Nat), latest : Seq({"none", "whole", "torn"}), writable : BOOLEAN]
  BY RecoveryAssumption
<1>2. recovery \in Recoveries
  BY <1>1 DEF Beginning, Recoveries
<1>3. recovery.attempts = <<>> /\ recovery.next = 1 /\ recovery.opened = 0 /\ recovery.pc = (IF recovery.latest = <<>> THEN "try" ELSE "open")
  BY DEF Beginning
<1>4. recovery.latest # <<>> => 0 < Len(recovery.latest)
  BY <1>2 DEF Recoveries
<1>5. Tried(recovery) = {} /\ InVain(recovery)
  BY <1>3 DEF Tried, InVain
<1>6. Due(recovery, 1) = {}
  BY DEF Due
<1>7. recovery.latest = <<>> => StoresOpened(recovery)
  BY <1>2, <1>3 DEF StoresOpened, Recoveries
<1>8. \A k \in 1..recovery.opened : recovery.latest[k] # "torn"
  BY <1>3
<1> QED
  BY <1>2, <1>3, <1>4, <1>5, <1>6, <1>7, <1>8 DEF RecoveryInv, RecoveryEnds

\* The pressure from which each strategy is tried.
LEMMA LevelsOf == LevelOf[1] = 1 /\ LevelOf[2] = 1 /\ LevelOf[3] = 2 /\ LevelOf[4] = 3
<1> QED
  BY DEF LevelOf

After(i) == i + 1
SameFound(q, r) == q.decisions = r.decisions /\ q.digest = r.digest /\ q.history = r.history

\* Whether a strategy can act depends on what was found, which stays.
LEMMA SameActs == ASSUME NEW q, NEW r, SameFound(q, r), NEW k PROVE CanAct(q, k) <=> CanAct(r, k)
<1> QED
  BY DEF SameFound, CanAct, Droppable, Summarizable

\* An attempt adds itself to the record and changes nothing else.
LEMMA Attempting ==
  ASSUME NEW r \in Recoveries, NEW i \in 1..4, NEW success \in BOOLEAN, NEW freed \in Int
  PROVE  /\ Attempted(r, i, success, freed) \in Recoveries
         /\ Attempted(r, i, success, freed).attempts = Append(r.attempts, [strategy |-> i, success |-> success, freed |-> freed])
         /\ Tried(Attempted(r, i, success, freed)) = Tried(r) \cup {i}
         /\ success = TRUE => ~ InVain(Attempted(r, i, success, freed))
         /\ success = FALSE /\ InVain(r) => InVain(Attempted(r, i, success, freed))
         /\ Attempted(r, i, success, freed).next = After(i) /\ Attempted(r, i, success, freed).pc = r.pc
         /\ Attempted(r, i, success, freed).used = r.used /\ Attempted(r, i, success, freed).latest = r.latest
         /\ Attempted(r, i, success, freed).opened = r.opened
         /\ SameFound(Attempted(r, i, success, freed), r)
<1> DEFINE a == [strategy |-> i, success |-> success, freed |-> freed]
           q == Attempted(r, i, success, freed)
<1>1. a \in Attempt /\ a.strategy = i /\ a.success = success
  BY DEF Attempt
<1>2. r.attempts \in Seq(Attempt)
  BY DEF Recoveries
<1>3. q = [r EXCEPT !.attempts = Append(r.attempts, a), !.next = i + 1]
  BY DEF Attempted, a
<1> HIDE DEF a, q
<1> DEFINE t == Append(r.attempts, a)
<1>4. t \in Seq(Attempt) /\ i + 1 \in Nat
  BY <1>1, <1>2
<1> HIDE DEF t
<1>10. q = [r EXCEPT !.attempts = t, !.next = i + 1]
  BY <1>3 DEF t
<1>5. /\ q \in Recoveries /\ q.attempts = t /\ q.next = i + 1 /\ q.pc = r.pc /\ q.used = r.used /\ q.latest = r.latest /\ q.opened = r.opened
      /\ q.decisions = r.decisions /\ q.digest = r.digest /\ q.history = r.history
  BY <1>4, <1>10 DEF Recoveries
<1>6. /\ DOMAIN q.attempts = DOMAIN r.attempts \cup {Len(r.attempts) + 1} /\ q.attempts[Len(r.attempts) + 1] = a
      /\ \A k \in DOMAIN r.attempts : q.attempts[k] = r.attempts[k]
  BY <1>1, <1>2, <1>5, AppendProperties DEF t
<1>7. Tried(q) = Tried(r) \cup {i}
  BY <1>1, <1>6 DEF Tried
<1>8. InVain(q) <=> InVain(r) /\ success = FALSE
  BY <1>1, <1>6 DEF InVain
<1>9. SameFound(q, r)
  BY <1>5 DEF SameFound
<1> QED
  BY <1>5, <1>7, <1>8, <1>9 DEF q, a, t, After

\* A recovery that ends keeps its attempts.
LEMMA Ending ==
  ASSUME NEW r \in Recoveries, NEW end \in {"unneeded", "rejected", "recovered", "overflow"}, NEW freed \in Int, NEW level \in Int
  PROVE  LET q == Ends(r, end, freed, level) IN
         /\ q \in Recoveries /\ q.pc = "done" /\ q.end = end /\ q.freed = freed /\ q.level = level /\ q.attempts = r.attempts
         /\ q.used = r.used /\ q.latest = r.latest /\ q.opened = r.opened
         /\ Tried(q) = Tried(r) /\ InVain(q) = InVain(r)
         /\ \A k \in 1..4 : CanAct(q, k) <=> CanAct(r, k)
<1> DEFINE q == Ends(r, end, freed, level)
<1>1. /\ q \in Recoveries /\ q.pc = "done" /\ q.end = end /\ q.freed = freed /\ q.level = level /\ q.attempts = r.attempts
      /\ q.used = r.used /\ q.latest = r.latest /\ q.opened = r.opened /\ q.decisions = r.decisions /\ q.digest = r.digest /\ q.history = r.history
  BY DEF Ends, Recoveries
<1> HIDE DEF q
<1>2. Tried(q) = Tried(r) /\ InVain(q) = InVain(r)
  BY <1>1 DEF Tried, InVain
<1>3. \A k \in 1..4 : CanAct(q, k) <=> CanAct(r, k)
  BY <1>1 DEF CanAct, Droppable, Summarizable
<1> QED
  BY <1>1, <1>2, <1>3 DEF q

\* A success ends the recovery.
LEMMA Succeeding ==
  ASSUME RecoveryInv, NEW i \in 1..3, Turn(i), NEW freed \in Nat, NEW level, level = PressureOf(Positive(recovery.used - freed)),
         i = 3 => freed = recovery.used, Succeeds(i, freed, level)
  PROVE  RecoveryInv'
<1>1. recovery \in Recoveries /\ recovery.pc = "try" /\ InVain(recovery) /\ Tried(recovery) \subseteq {3} /\ recovery.used \in Nat
      /\ recovery.next = i /\ Tried(recovery) = Due(recovery, i)
  BY DEF RecoveryInv, Turn, Recoveries
<1>2. level \in Int
  BY <1>1, PressureRange DEF Positive
<1> DEFINE q == Attempted(recovery, i, TRUE, freed)
<1>3. /\ q \in Recoveries /\ Tried(q) = Tried(recovery) \cup {i} /\ ~ InVain(q)
      /\ q.used = recovery.used /\ q.latest = recovery.latest /\ q.opened = recovery.opened
  <2>1. i \in 1..4 /\ TRUE \in BOOLEAN /\ freed \in Int /\ recovery \in Recoveries
    BY <1>1
  <2> QED
    BY <2>1, Attempting
<1> HIDE DEF q
<1>4. recovery' = Ends(q, "recovered", freed, level)
  BY DEF Succeeds, q
<1>5. /\ recovery' \in Recoveries /\ recovery'.pc = "done" /\ recovery'.end = "recovered" /\ recovery'.freed = freed /\ recovery'.level = level
      /\ recovery'.used = recovery.used /\ recovery'.latest = recovery.latest /\ recovery'.opened = recovery.opened
      /\ Tried(recovery') = Tried(recovery) \cup {i} /\ ~ InVain(recovery')
  BY <1>2, <1>3, <1>4, Ending
<1>10. StoresOpened(recovery)'
  BY <1>1, <1>5 DEF RecoveryInv, StoresOpened
<1>6. \E k \in DOMAIN recovery'.attempts : recovery'.attempts[k].success
  BY <1>5 DEF InVain
<1>7. 3 \in Tried(recovery') => i = 3
  BY <1>1, <1>5 DEF Due
<1>8. freed >= (IF 3 \in Tried(recovery') THEN recovery'.used ELSE 0)
  BY <1>1, <1>5, <1>7
<1>9. RecoveryEnds'
  BY <1>5, <1>6, <1>8, <1>10 DEF RecoveryEnds, Tried
<1> QED
  BY <1>5, <1>9 DEF RecoveryInv

Fails(i, freed) == recovery' = Attempted(recovery, i, FALSE, freed)

\* A failure leaves every strategy before the next one tried.
LEMMA Failing ==
  ASSUME RecoveryInv, NEW i \in 1..4, i \in 3..3, Turn(i), NEW freed \in Int, Fails(i, freed)
  PROVE  RecoveryInv'
<1>1. recovery \in Recoveries
  BY DEF RecoveryInv
<1>2. /\ recovery.pc = "try" /\ recovery.next = i /\ InVain(recovery) /\ Tried(recovery) = Due(recovery, i) /\ Tried(recovery) \subseteq {3}
      /\ PressureOf(recovery.used) >= LevelOf[i] /\ CanAct(recovery, i)
  BY DEF Turn, RecoveryInv, Supports, Trigger
<1> DEFINE q == Attempted(recovery, i, FALSE, freed)
<1>3. i \in 1..4 /\ FALSE \in BOOLEAN /\ freed \in Int
  OBVIOUS
<1>4. /\ q \in Recoveries /\ Tried(q) = Tried(recovery) \cup {i} /\ InVain(q) /\ q.next = i + 1 /\ q.pc = recovery.pc
      /\ q.used = recovery.used /\ q.latest = recovery.latest /\ q.opened = recovery.opened
  <2>1. /\ q \in Recoveries /\ Tried(q) = Tried(recovery) \cup {i} /\ (InVain(recovery) => InVain(q)) /\ q.next = After(i)
        /\ q.pc = recovery.pc /\ q.used = recovery.used /\ q.latest = recovery.latest /\ q.opened = recovery.opened
    BY <1>1, <1>3, Attempting
  <2> QED
    BY <1>2, <2>1 DEF After
<1>5. \A k \in 1..4 : CanAct(q, k) <=> CanAct(recovery, k)
  <2>1. SameFound(q, recovery)
    BY <1>1, <1>3, Attempting
  <2> QED
    BY <2>1, SameActs
<1>6. recovery' = q
  BY DEF Fails
<1> HIDE DEF q
<1>7. Due(q, i + 1) = Due(recovery, i) \cup {3}
  BY <1>2, <1>4, <1>5 DEF Due
<1>8. RecoveryEnds'
  BY <1>2, <1>4, <1>6 DEF RecoveryEnds
<1>9. i = 3 /\ recovery'.next \in 1..5 /\ recovery'.next = i + 1
  <2>1. q.next = i + 1
    BY <1>4
  <2>2. recovery'.next = i + 1
    BY <1>6, <2>1
  <2> QED
    BY <2>2
<1>10. Tried(recovery') = Due(recovery', recovery'.next) /\ Tried(recovery') \subseteq {3}
  BY <1>2, <1>4, <1>6, <1>7, <1>9
<1>11. StoresOpened(recovery)'
  BY <1>2, <1>4, <1>6 DEF RecoveryInv, StoresOpened
<1> QED
  BY <1>2, <1>4, <1>6, <1>8, <1>9, <1>10, <1>11 DEF RecoveryInv

\* Every step of a recovery keeps the invariant.
LEMMA RecoverySteps == RecoveryInv /\ (UNCHANGED recovery \/ RecoveryNext) => RecoveryInv'
<1> SUFFICES ASSUME RecoveryInv, UNCHANGED recovery \/ RecoveryNext PROVE RecoveryInv'
  OBVIOUS
<1> DEFINE r == recovery
<1>1. r \in Recoveries /\ r.used \in Nat /\ r.opened \in Nat /\ Trigger \in 0..3 /\ Trigger = PressureOf(r.used)
  BY PressureRange DEF RecoveryInv, Recoveries, Trigger
<1>2. ASSUME Assesses \/ OpensStore \/ StoreRefused PROVE RecoveryInv'
  <2>1. /\ r.pc = "open" /\ r.opened < Len(r.latest) /\ r.attempts = <<>> /\ r.next = 1 /\ Len(r.latest) \in Nat
        /\ \A k \in 1..r.opened : r.latest[k] # "torn"
    BY <1>1, <1>2 DEF Assesses, OpensStore, StoreRefused, RecoveryInv, Recoveries
  <2>2. Tried(r) = {} /\ InVain(r)
    BY <2>1 DEF Tried, InVain
  <2>3. CASE Assesses
    <3>1. recovery' = Ends(r, "unneeded", 0, 0) /\ Trigger < 2
      BY <2>3 DEF Assesses
    <3>2. recovery' \in Recoveries /\ recovery'.pc = "done" /\ recovery'.end = "unneeded" /\ recovery'.used = r.used /\ Tried(recovery') = {}
      BY <1>1, <2>2, <3>1, Ending
    <3>3. PressureOf(recovery'.used) \in {0, 1}
      BY <1>1, <3>1, <3>2
    <3>4. RecoveryEnds'
      BY <3>2, <3>3 DEF RecoveryEnds, Tried
    <3> QED
      BY <3>2, <3>4 DEF RecoveryInv
  <2>4. CASE StoreRefused
    <3>1. recovery' = Ends(r, "rejected", 0, Trigger) /\ Trigger >= 2
      BY <2>4 DEF StoreRefused
    <3>2. /\ recovery' \in Recoveries /\ recovery'.pc = "done" /\ recovery'.end = "rejected" /\ Tried(recovery') = {}
          /\ recovery'.latest = r.latest /\ recovery'.opened = r.opened /\ recovery'.used = r.used
      BY <1>1, <2>2, <3>1, Ending
    <3>3. recovery'.opened < Len(recovery'.latest) /\ PressureOf(recovery'.used) >= 2
      BY <1>1, <2>1, <3>1, <3>2
    <3>4. RecoveryEnds'
      BY <3>2, <3>3 DEF RecoveryEnds, Tried
    <3> QED
      BY <3>2, <3>4 DEF RecoveryInv
  <2>5. CASE OpensStore
    <3> DEFINE pc == IF r.opened + 1 = Len(r.latest) THEN "try" ELSE "open"
    <3>1. recovery' = [r EXCEPT !.opened = r.opened + 1, !.pc = pc] /\ Trigger >= 2 /\ r.latest[r.opened + 1] # "torn"
      BY <2>5 DEF OpensStore
    <3>2. pc \in {"try", "open"} /\ r.opened + 1 \in Nat
      BY <1>1
    <3> HIDE DEF pc
    <3>3. /\ recovery' \in Recoveries /\ recovery'.opened = r.opened + 1 /\ recovery'.pc = pc /\ recovery'.latest = r.latest
          /\ recovery'.attempts = <<>> /\ recovery'.next = 1 /\ recovery'.used = r.used
      BY <1>1, <2>1, <3>1, <3>2 DEF Recoveries
    <3>4. Tried(recovery') = {} /\ InVain(recovery')
      BY <3>3 DEF Tried, InVain
    <3>6. Due(recovery', 1) = {}
      BY DEF Due
    <3>7. /\ pc = "open" => recovery'.opened < Len(recovery'.latest)
          /\ pc = "try" => recovery'.opened = Len(recovery'.latest)
      BY <1>1, <2>1, <3>3 DEF pc
    <3>9. \A k \in 1..recovery'.opened : recovery'.latest[k] # "torn"
      BY <1>1, <2>1, <3>1, <3>3
    <3>10. pc = "try" => StoresOpened(recovery)'
      <4>1. DOMAIN recovery'.latest = 1..Len(recovery'.latest)
        BY <3>3 DEF Recoveries
      <4> QED
        BY <1>1, <3>1, <3>3, <3>7, <3>9, <4>1 DEF StoresOpened
    <3>8. RecoveryEnds'
      BY <3>2, <3>3 DEF RecoveryEnds
    <3> QED
      BY <3>2, <3>3, <3>4, <3>6, <3>7, <3>8, <3>9, <3>10 DEF RecoveryInv
  <2> QED
    BY <1>2, <2>3, <2>4, <2>5
<1>3. CASE Degrades
  BY <1>1, <1>3, FreedNat, Succeeding DEF Degrades
<1>4. CASE Summarizes
  BY <1>1, <1>4, FreedNat, Succeeding DEF Summarizes
<1>5. CASE WritesCheckpoint /\ r.writable
  <2>1. PressureOf(Positive(r.used - r.used)) = 0
    BY <1>1, RecoveryAssumption DEF PressureOf, Positive
  <2> QED
    BY <1>1, <1>5, <2>1, Succeeding DEF WritesCheckpoint
<1>6. CASE WritesCheckpoint /\ ~ r.writable
  <2>1. Turn(3) /\ 3 \in 1..4 /\ 3 \in 3..3 /\ 0 \in Int /\ Fails(3, 0)
    BY <1>6 DEF WritesCheckpoint, Fails
  <2> QED
    BY <2>1, Failing
<1>7. ASSUME Escalated \/ Exhausted PROVE RecoveryInv'
  <2>1. r.pc = "try" /\ r.next \in 4..5 /\ InVain(r) /\ Tried(r) = Due(r, r.next) /\ Tried(r) \subseteq {3} /\ recovery' = Ends(r, "overflow", 0, Trigger)
    BY <1>7 DEF Escalated, Exhausted, Turn, RecoveryInv
  <2>2. /\ recovery' \in Recoveries /\ recovery'.pc = "done" /\ recovery'.end = "overflow" /\ Tried(recovery') = Tried(r) /\ InVain(recovery')
        /\ recovery'.used = r.used /\ \A k \in 1..4 : CanAct(recovery', k) <=> CanAct(r, k)
        /\ recovery'.latest = r.latest /\ recovery'.opened = r.opened
    BY <1>1, <2>1, Ending
  <2>5. StoresOpened(recovery)'
    BY <2>1, <2>2 DEF RecoveryInv, StoresOpened
  <2>3. Tried(recovery') = {i \in 1..3 : PressureOf(recovery'.used) >= LevelOf[i] /\ CanAct(recovery', i)}
    BY <2>1, <2>2 DEF Due
  <2>4. RecoveryEnds'
    BY <2>1, <2>2, <2>3, <2>5 DEF RecoveryEnds, Tried, InVain
  <2> QED
    BY <2>2, <2>4 DEF RecoveryInv
<1>8. CASE Skips
  <2>1. r.pc = "try" /\ r.next \in 1..4 /\ InVain(r) /\ Tried(r) = Due(r, r.next) /\ Tried(r) \subseteq {3} /\ recovery' = [r EXCEPT !.next = r.next + 1]
    BY <1>8 DEF Skips, RecoveryInv
  <2>2. ~ (PressureOf(r.used) >= LevelOf[r.next] /\ CanAct(r, r.next))
    BY <1>1, <1>8 DEF Skips, Turn, Supports
  <2>3. /\ recovery' \in Recoveries /\ recovery'.pc = "try" /\ recovery'.next = r.next + 1 /\ recovery'.used = r.used /\ recovery'.attempts = r.attempts
        /\ recovery'.decisions = r.decisions /\ recovery'.digest = r.digest /\ recovery'.history = r.history
        /\ recovery'.latest = r.latest /\ recovery'.opened = r.opened
    <3>1. r.next + 1 \in Nat
      BY <2>1
    <3> QED
      BY <1>1, <2>1, <3>1 DEF Recoveries
  <2>4. \A k \in 1..4 : CanAct(recovery', k) <=> CanAct(r, k)
    BY <2>3 DEF CanAct, Droppable, Summarizable
  <2>5. Due(recovery', r.next + 1) = Due(r, r.next)
    BY <2>1, <2>2, <2>3, <2>4 DEF Due
  <2>6. Tried(recovery') = Tried(r) /\ InVain(recovery')
    BY <2>1, <2>3 DEF Tried, InVain
  <2>7. RecoveryEnds'
    BY <2>3 DEF RecoveryEnds
  <2>8. StoresOpened(recovery)'
    BY <2>1, <2>3 DEF RecoveryInv, StoresOpened
  <2> QED
    BY <2>1, <2>3, <2>5, <2>6, <2>7, <2>8 DEF RecoveryInv
<1>9. CASE UNCHANGED recovery
  BY <1>9 DEF RecoveryInv, RecoveryEnds, StoresOpened
<1> QED
  BY <1>2, <1>3, <1>4, <1>5, <1>6, <1>7, <1>8, <1>9 DEF RecoveryNext, WritesCheckpoint

\* However much is in use and whatever can be dropped, and with any history: a recovery
\* ends with a success, as needless, with a store refused and nothing tried, or with every
\* strategy that applies tried in order; it tries none before each store has been opened.
THEOREM RecoveriesEnd == Spec => []RecoveryEnds
<1>1. Init => RecoveryInv
  BY RecoveryStarts DEF Init
<1>2. RecoveryInv /\ [Next]_vars => RecoveryInv'
  BY Separate, RecoverySteps
<1>3. RecoveryInv => RecoveryEnds
  BY DEF RecoveryInv
<1> QED
  BY <1>1, <1>2, <1>3, PTL DEF Spec

(***************************************************************************)
(* The drop box of the scribe.                                             *)
(***************************************************************************)
Wordings == Decision \cup {Blank}
Names == {FileOf[d] : d \in Decision}
Letters == [inode : Decision, text : Wordings]
Drafts == [pc : {"idle", "open", "done"}, inode : Decision \cup {None}]
Merges == [pc : {"idle", "ensure", "create", "next", "unlink", "append", "done", "failed", "dead"},
           files : SUBSET Names, file : Names \cup {None}, text : Wordings \cup {None}]

ScribeType ==
  /\ DOMAIN inbox \subseteq Names /\ \A f \in DOMAIN inbox : inbox[f] \in Letters
  /\ draft \in [Decision -> Drafts] /\ merge \in [Merge -> Merges]
  /\ decisions \in Seq(Wordings) \cup {None}
  /\ \A m \in Merge : merge[m].pc \in {"next", "unlink", "append"} => decisions \in Seq(Wordings)
  /\ \A m \in Merge : merge[m].pc \in {"unlink", "append"} => merge[m].text \in Wordings /\ merge[m].file \in Names

\* A text that was read or appended is that of a draft that is done, under its own file name.
Written ==
  /\ \A f \in DOMAIN inbox : inbox[f].text # Blank => FileOf[inbox[f].text] = f /\ draft[inbox[f].text].pc = "done"
  /\ \A m \in Merge : merge[m].pc \in {"unlink", "append"} /\ merge[m].text # Blank =>
       FileOf[merge[m].text] = merge[m].file /\ draft[merge[m].text].pc = "done"
  /\ decisions \in Seq(Wordings) => \A i \in DOMAIN decisions : decisions[i] # Blank => draft[decisions[i]].pc = "done"

Held(d) == \E m \in Merge : merge[m].pc = "append" /\ merge[m].text = d
Merged(d) == decisions \in Seq(Wordings) /\ \E i \in DOMAIN decisions : decisions[i] = d
Safe(d) == scribePlan.overlap => Alone(d)

\* A text that left the inbox is in one place, and whoever read it too will not find its file.
Once(d) ==
  /\ Held(d) \/ Merged(d) =>
       /\ \A f \in DOMAIN inbox : inbox[f].text # d
       /\ \A m \in Merge : merge[m].pc = "unlink" /\ merge[m].text = d => FileOf[d] \notin DOMAIN inbox
  /\ ~ (Held(d) /\ Merged(d))
  /\ \A m, n \in Merge : merge[m].pc = "append" /\ merge[n].pc = "append" /\ merge[m].text = d /\ merge[n].text = d => m = n
  /\ decisions \in Seq(Wordings) => \A i, j \in DOMAIN decisions : decisions[i] = d /\ decisions[j] = d => i = j

OnceEach == \A d \in Decision : Safe(d) => Once(d)

\* Agents that do not write during a merge.
Apart ==
  ~ scribePlan.overlap =>
    /\ Writing => ~ Merging
    /\ \A d \in Decision : draft[d].pc = "open" /\ Alone(d) => FileOf[d] \in DOMAIN inbox /\ inbox[FileOf[d]].inode = draft[d].inode
    /\ \A m \in Merge : merge[m].pc = "unlink" /\ merge[m].file \in DOMAIN inbox => merge[m].text = inbox[merge[m].file].text

InBox(d) == \E f \in DOMAIN inbox : inbox[f].text = d

Somewhere ==
  scribePlan.exists /\ ~ scribePlan.overlap /\ ~ scribePlan.dies =>
    /\ decisions \in Seq(Wordings) /\ \A m \in Merge : merge[m].pc # "create"
    /\ \A d \in Decision : draft[d].pc = "done" /\ Alone(d) => InBox(d) \/ Held(d) \/ Merged(d)

\* The invariants of the drop box hold at first.
LEMMA ScribeStarts == ScribeInit => ScribeType /\ Written /\ OnceEach /\ Apart /\ Somewhere
<1> SUFFICES ASSUME ScribeInit PROVE ScribeType /\ Written /\ OnceEach /\ Apart /\ Somewhere
  OBVIOUS
<1> USE TextAssumption DEF ScribeInit
<1>1. /\ DOMAIN inbox = {} /\ (\A m \in Merge : merge[m].pc = "idle") /\ (\A d \in Decision : draft[d].pc = "idle")
      /\ (decisions = <<>> \/ decisions = None) /\ (scribePlan.exists => decisions = <<>>)
  OBVIOUS
<1>2. ScribeType
  BY <1>1 DEF ScribeType, Drafts, Merges
<1>3. \A d \in Decision : ~ Held(d) /\ ~ Merged(d)
  BY <1>1 DEF Held, Merged, Wordings
<1>4. Written /\ OnceEach
  BY <1>1, <1>3 DEF Written, OnceEach, Once, Wordings
<1>5. Apart /\ Somewhere
  BY <1>1 DEF Apart, Somewhere, Writing, Merging
<1> QED
  BY <1>2, <1>4, <1>5

\* The steps of a merge, as what they change.
MergeIs(m, r) ==
  /\ r \in Merges /\ merge' = [merge EXCEPT ![m] = r] /\ UNCHANGED <<scribePlan, draft>>

\* It goes on, or ends, without touching a file.
Turns(m, r) ==
  /\ MergeIs(m, r) /\ r.pc \in {"ensure", "create", "next", "done", "failed", "dead"} /\ UNCHANGED <<inbox, decisions>>
  /\ merge[m].pc = "append" => scribePlan.dies
  /\ merge[m].pc = "idle" => (Writing => scribePlan.overlap)
  /\ merge[m].pc \in {"idle", "ensure", "create", "next", "unlink", "append"}
  /\ r.pc = "create" => decisions = None
  /\ r.pc = "next" => decisions # None

MakesTarget(m, r) == MergeIs(m, r) /\ merge[m].pc = "create" /\ r.pc = "next" /\ decisions' = <<>> /\ UNCHANGED inbox

Reads(m, r, f) ==
  /\ MergeIs(m, r) /\ merge[m].pc = "next" /\ r.pc = "unlink" /\ f \in DOMAIN inbox
  /\ r.file = f /\ r.text = inbox[f].text /\ UNCHANGED <<inbox, decisions>>

Unlinks(m, r, f) ==
  /\ MergeIs(m, r) /\ merge[m].pc = "unlink" /\ r.pc = "append" /\ f = merge[m].file /\ f \in DOMAIN inbox
  /\ r.file = f /\ r.text = merge[m].text
  /\ inbox' = [g \in DOMAIN inbox \ {f} |-> inbox[g]] /\ UNCHANGED decisions

Appends(m, r) ==
  /\ MergeIs(m, r) /\ merge[m].pc = "append" /\ r.pc = "next"
  /\ decisions' = Append(decisions, merge[m].text) /\ UNCHANGED inbox

MergeStep(m) ==
  \E r \in Merges : Turns(m, r) \/ MakesTarget(m, r) \/ Appends(m, r) \/ \E f \in Names : Reads(m, r, f) \/ Unlinks(m, r, f)

\* A step of a merge is one of MergeStep.
LEMMA MergeSteps ==
  ASSUME ScribeType, NEW m \in Merge,
         ListInbox(m) \/ FindTarget(m) \/ CreateTarget(m) \/ Read(m) \/ Unlink(m) \/ AppendText(m) \/ EndMerge(m) \/ MergeDies(m)
  PROVE  MergeStep(m)
<1>1. merge[m] \in Merges /\ DOMAIN inbox \subseteq Names /\ \A f \in DOMAIN inbox : inbox[f].text \in Wordings
  BY DEF ScribeType, Letters
<1>2. CASE ListInbox(m)
  <2> DEFINE r == [merge[m] EXCEPT !.pc = IF inbox = <<>> THEN "done" ELSE "ensure", !.files = DOMAIN inbox]
  <2>1. r \in Merges /\ r.pc \in {"done", "ensure"}
    BY <1>1 DEF Merges
  <2>2. merge' = [merge EXCEPT ![m] = r] /\ UNCHANGED <<scribePlan, draft, inbox, decisions>> /\ merge[m].pc = "idle"
        /\ (Writing => scribePlan.overlap)
    BY <1>2 DEF ListInbox, Step
  <2> HIDE DEF r
  <2> QED
    BY <2>1, <2>2 DEF MergeStep, Turns, MergeIs
<1>3. CASE FindTarget(m)
  <2> DEFINE r == [merge[m] EXCEPT !.pc = IF decisions = None THEN "create" ELSE "next"]
  <2>1. r \in Merges /\ r.pc \in {"create", "next"} /\ (r.pc = "create" <=> decisions = None)
    BY <1>1 DEF Merges
  <2>2. merge' = [merge EXCEPT ![m] = r] /\ UNCHANGED <<scribePlan, draft, inbox, decisions>> /\ merge[m].pc = "ensure"
    BY <1>3 DEF FindTarget, Step
  <2> HIDE DEF r
  <2> QED
    BY <2>1, <2>2 DEF MergeStep, Turns, MergeIs
<1>4. CASE CreateTarget(m)
  <2> DEFINE r == [merge[m] EXCEPT !.pc = "next"]
  <2>1. r \in Merges /\ r.pc = "next"
    BY <1>1 DEF Merges
  <2>2. merge' = [merge EXCEPT ![m] = r] /\ UNCHANGED <<scribePlan, draft, inbox>> /\ decisions' = <<>> /\ merge[m].pc = "create"
    BY <1>4 DEF CreateTarget, Step
  <2> HIDE DEF r
  <2> QED
    BY <2>1, <2>2 DEF MergeStep, MakesTarget, MergeIs
<1>5. CASE Read(m)
  <2>1. PICK f \in merge[m].files :
          Step(m, IF f \in DOMAIN inbox
                  THEN [merge[m] EXCEPT !.pc = "unlink", !.file = f, !.text = inbox[f].text]
                  ELSE [merge[m] EXCEPT !.pc = "failed", !.files = {}])
    BY <1>5 DEF Read
  <2>2. merge[m].pc = "next" /\ UNCHANGED <<inbox, decisions>>
    BY <1>5 DEF Read
  <2>3. CASE f \in DOMAIN inbox
    <3> DEFINE r == [merge[m] EXCEPT !.pc = "unlink", !.file = f, !.text = inbox[f].text]
    <3>1. r \in Merges /\ r.pc = "unlink" /\ r.file = f /\ r.text = inbox[f].text /\ f \in Names
      BY <1>1, <2>3 DEF Merges
    <3>2. merge' = [merge EXCEPT ![m] = r] /\ UNCHANGED <<scribePlan, draft>>
      BY <2>1, <2>3 DEF Step
    <3> HIDE DEF r
    <3>3. Reads(m, r, f)
      BY <2>2, <2>3, <3>1, <3>2 DEF Reads, MergeIs
    <3> QED
      BY <3>1, <3>3 DEF MergeStep
  <2>4. CASE f \notin DOMAIN inbox
    <3> DEFINE r == [merge[m] EXCEPT !.pc = "failed", !.files = {}]
    <3>1. r \in Merges /\ r.pc = "failed"
      BY <1>1 DEF Merges
    <3>2. merge' = [merge EXCEPT ![m] = r] /\ UNCHANGED <<scribePlan, draft>>
      BY <2>1, <2>4 DEF Step
    <3> HIDE DEF r
    <3> QED
      BY <2>2, <3>1, <3>2 DEF MergeStep, Turns, MergeIs
  <2> QED
    BY <2>3, <2>4
<1>6. CASE Unlink(m)
  <2> DEFINE f == merge[m].file
  <2>1. merge[m].pc = "unlink" /\ UNCHANGED decisions
    BY <1>6 DEF Unlink
  <2>2. CASE f \in DOMAIN inbox
    <3> DEFINE r == [merge[m] EXCEPT !.pc = "append"]
    <3>1. r \in Merges /\ r.pc = "append" /\ r.file = f /\ r.text = merge[m].text /\ f \in Names
      BY <1>1, <2>2 DEF Merges
    <3>2. merge' = [merge EXCEPT ![m] = r] /\ UNCHANGED <<scribePlan, draft>> /\ inbox' = [g \in DOMAIN inbox \ {f} |-> inbox[g]]
      BY <1>6, <2>2 DEF Unlink, Step
    <3> HIDE DEF r
    <3>3. Unlinks(m, r, f)
      BY <2>1, <2>2, <3>1, <3>2 DEF Unlinks, MergeIs
    <3> QED
      BY <3>1, <3>3 DEF MergeStep
  <2>3. CASE f \notin DOMAIN inbox
    <3> DEFINE r == [merge[m] EXCEPT !.pc = "failed", !.files = {}, !.text = None]
    <3>1. r \in Merges /\ r.pc = "failed"
      BY <1>1 DEF Merges
    <3>2. merge' = [merge EXCEPT ![m] = r] /\ UNCHANGED <<scribePlan, draft, inbox>>
      BY <1>6, <2>3 DEF Unlink, Step
    <3> HIDE DEF r
    <3> QED
      BY <2>1, <3>1, <3>2 DEF MergeStep, Turns, MergeIs
  <2> QED
    BY <2>2, <2>3
<1>7. CASE AppendText(m)
  <2> DEFINE r == [merge[m] EXCEPT !.pc = "next", !.files = merge[m].files \ {merge[m].file}, !.file = None, !.text = None]
  <2>1. r \in Merges /\ r.pc = "next"
    BY <1>1 DEF Merges
  <2>2. merge' = [merge EXCEPT ![m] = r] /\ UNCHANGED <<scribePlan, draft, inbox>> /\ merge[m].pc = "append"
        /\ decisions' = Append(decisions, merge[m].text)
    BY <1>7 DEF AppendText, Step
  <2> HIDE DEF r
  <2> QED
    BY <2>1, <2>2 DEF MergeStep, Appends, MergeIs
<1>8. CASE EndMerge(m)
  <2> DEFINE r == [merge[m] EXCEPT !.pc = "done"]
  <2>1. r \in Merges /\ r.pc = "done"
    BY <1>1 DEF Merges
  <2>2. merge' = [merge EXCEPT ![m] = r] /\ UNCHANGED <<scribePlan, draft, inbox, decisions>> /\ merge[m].pc = "next"
    BY <1>8 DEF EndMerge, Step
  <2> HIDE DEF r
  <2> QED
    BY <2>1, <2>2 DEF MergeStep, Turns, MergeIs
<1>9. CASE MergeDies(m)
  <2> DEFINE r == [merge[m] EXCEPT !.pc = "dead", !.files = {}, !.file = None, !.text = None]
  <2>1. r \in Merges /\ r.pc = "dead"
    BY <1>1 DEF Merges
  <2>2. merge' = [merge EXCEPT ![m] = r] /\ UNCHANGED <<scribePlan, draft, inbox, decisions>> /\ scribePlan.dies
        /\ merge[m].pc \in {"create", "next", "unlink", "append"}
    BY <1>9 DEF MergeDies, Step
  <2> HIDE DEF r
  <2> QED
    BY <2>1, <2>2 DEF MergeStep, Turns, MergeIs
<1> QED
  BY <1>2, <1>3, <1>4, <1>5, <1>6, <1>7, <1>8, <1>9

\* The opening of a file, likewise.
OpensFile(d, f, i) ==
  /\ draft[d].pc = "idle" /\ f = FileOf[d] /\ (Merging => scribePlan.overlap)
  /\ i = IF f \in DOMAIN inbox THEN inbox[f].inode ELSE d
  /\ inbox' = [g \in DOMAIN inbox \cup {f} |-> IF g = f THEN [inode |-> i, text |-> Blank] ELSE inbox[g]]
  /\ draft' = [draft EXCEPT ![d] = [pc |-> "open", inode |-> i]]
  /\ UNCHANGED <<scribePlan, decisions, merge>>

\* To open a draft is to open its file with some inode.
LEMMA OpenSteps ==
  ASSUME ScribeType, NEW d \in Decision, OpenDraft(d)
  PROVE  \E i \in Decision : OpensFile(d, FileOf[d], i)
<1> DEFINE f == FileOf[d]
           i == IF f \in DOMAIN inbox THEN inbox[f].inode ELSE d
<1>1. i \in Decision
  BY DEF ScribeType, Letters
<1> HIDE DEF i
<1>2. inbox' = [g \in DOMAIN inbox \cup {f} |-> IF g = f THEN [inode |-> i, text |-> Blank] ELSE inbox[g]]
  BY DEF OpenDraft, i
<1>3. inbox'[f].inode = i
  BY <1>2
<1>4. draft' = [draft EXCEPT ![d] = [pc |-> "open", inode |-> inbox'[f].inode]]
  BY DEF OpenDraft
<1>5. draft' = [draft EXCEPT ![d] = [pc |-> "open", inode |-> i]]
  BY <1>3, <1>4
<1>6. i = IF f \in DOMAIN inbox THEN inbox[f].inode ELSE d
  BY DEF i
<1>7. draft[d].pc = "idle" /\ (Merging => scribePlan.overlap) /\ UNCHANGED <<scribePlan, decisions, merge>>
  BY DEF OpenDraft
<1>8. OpensFile(d, f, i)
  BY <1>2, <1>5, <1>6, <1>7 DEF OpensFile
<1> QED
  BY <1>1, <1>8

\* The steps of the drop box by what they do to it.
LEMMA ScribeSteps ==
  ASSUME ScribeType, UNCHANGED scribeVars \/ ScribeNext
  PROVE  \/ \E d, i \in Decision : OpensFile(d, FileOf[d], i)
         \/ \E d \in Decision : WriteDraft(d)
         \/ \E m \in Merge, r \in Merges : Turns(m, r)
         \/ \E m \in Merge, r \in Merges : MakesTarget(m, r)
         \/ \E m \in Merge, r \in Merges : Appends(m, r)
         \/ \E m \in Merge, r \in Merges, f \in Names : Reads(m, r, f)
         \/ \E m \in Merge, r \in Merges, f \in Names : Unlinks(m, r, f)
         \/ UNCHANGED scribeVars
<1> QED
  BY OpenSteps, MergeSteps DEF ScribeNext, MergeStep

\* Every step keeps the types.
LEMMA ScribeTypeNext == ASSUME ScribeType, UNCHANGED scribeVars \/ ScribeNext PROVE ScribeType'
<1> USE TextAssumption DEF ScribeType
<1>1. ASSUME NEW d \in Decision, NEW i \in Decision, OpensFile(d, FileOf[d], i) PROVE ScribeType'
  BY <1>1 DEF OpensFile, Names, Letters, Drafts, Wordings
<1>2. ASSUME NEW d \in Decision, WriteDraft(d) PROVE ScribeType'
  BY <1>2 DEF WriteDraft, Names, Letters, Drafts, Wordings
<1>3. ASSUME NEW m \in Merge, NEW r \in Merges, Turns(m, r) PROVE ScribeType'
  BY <1>3 DEF Turns, MergeIs
<1>4. ASSUME NEW m \in Merge, NEW r \in Merges, MakesTarget(m, r) PROVE ScribeType'
  BY <1>4 DEF MakesTarget, MergeIs
<1>5. ASSUME NEW m \in Merge, NEW r \in Merges, Appends(m, r) PROVE ScribeType'
  BY <1>5 DEF Appends, MergeIs
<1>6. ASSUME NEW m \in Merge, NEW r \in Merges, NEW f \in Names, Reads(m, r, f) PROVE ScribeType'
  BY <1>6 DEF Reads, MergeIs, Letters
<1>7. ASSUME NEW m \in Merge, NEW r \in Merges, NEW f \in Names, Unlinks(m, r, f) PROVE ScribeType'
  BY <1>7 DEF Unlinks, MergeIs
<1>8. CASE UNCHANGED scribeVars
  BY <1>8 DEF scribeVars
<1> HIDE DEF ScribeType
<1> QED
  BY <1>1, <1>2, <1>3, <1>4, <1>5, <1>6, <1>7, <1>8, ScribeSteps
\* Every step keeps Written.
LEMMA WrittenNext == ASSUME ScribeType, Written, UNCHANGED scribeVars \/ ScribeNext PROVE Written'
<1> USE TextAssumption DEF ScribeType, Written, Wordings, Letters, Drafts, Merges
<1>1. ASSUME NEW d \in Decision, NEW i \in Decision, OpensFile(d, FileOf[d], i) PROVE Written'
  BY <1>1 DEF OpensFile
<1>2. ASSUME NEW d \in Decision, WriteDraft(d) PROVE Written'
  BY <1>2 DEF WriteDraft
<1>3. ASSUME NEW m \in Merge, NEW r \in Merges, Turns(m, r) PROVE Written'
  BY <1>3 DEF Turns, MergeIs
<1>4. ASSUME NEW m \in Merge, NEW r \in Merges, MakesTarget(m, r) PROVE Written'
  BY <1>4 DEF MakesTarget, MergeIs
<1>5. ASSUME NEW m \in Merge, NEW r \in Merges, Appends(m, r) PROVE Written'
  BY <1>5 DEF Appends, MergeIs
<1>6. ASSUME NEW m \in Merge, NEW r \in Merges, NEW f \in Names, Reads(m, r, f) PROVE Written'
  BY <1>6 DEF Reads, MergeIs
<1>7. ASSUME NEW m \in Merge, NEW r \in Merges, NEW f \in Names, Unlinks(m, r, f) PROVE Written'
  BY <1>7 DEF Unlinks, MergeIs
<1>8. CASE UNCHANGED scribeVars
  BY <1>8 DEF scribeVars
<1> HIDE DEF ScribeType, Written, Wordings, Letters, Drafts, Merges
<1> QED
  BY <1>1, <1>2, <1>3, <1>4, <1>5, <1>6, <1>7, <1>8, ScribeSteps

\* Every step keeps Apart.
LEMMA ApartNext == ASSUME ScribeType, Written, Apart, UNCHANGED scribeVars \/ ScribeNext PROVE Apart'
<1> USE TextAssumption DEF ScribeType, Written, Apart, Wordings, Letters, Drafts, Merges, Writing, Merging, Alone
<1>1. ASSUME NEW d \in Decision, NEW i \in Decision, OpensFile(d, FileOf[d], i) PROVE Apart'
  BY <1>1 DEF OpensFile
<1>2. ASSUME NEW d \in Decision, WriteDraft(d) PROVE Apart'
  <2>1. ~ scribePlan.overlap => ~ Merging
    BY <1>2 DEF WriteDraft
  <2>2. /\ DOMAIN inbox' = DOMAIN inbox /\ (\A f \in DOMAIN inbox : inbox'[f].inode = inbox[f].inode)
        /\ (\A e \in Decision : draft'[e].inode = draft[e].inode /\ (draft'[e].pc = "open" => draft[e].pc = "open"))
        /\ UNCHANGED <<scribePlan, merge>>
    BY <1>2 DEF WriteDraft
  <2>3. SUFFICES ASSUME ~ scribePlan.overlap PROVE Apart'
    BY <2>2
  <2>4. \A m \in Merge : merge'[m].pc # "unlink"
    BY <2>1, <2>2, <2>3
  <2>5. ~ Merging'
    BY <2>1, <2>2, <2>3
  <2>6. \A e \in Decision : draft'[e].pc = "open" /\ Alone(e) => FileOf[e] \in DOMAIN inbox' /\ inbox'[FileOf[e]].inode = draft'[e].inode
    BY <2>2, <2>3
  <2> QED
    BY <2>3, <2>4, <2>5, <2>6
<1>3. ASSUME NEW m \in Merge, NEW r \in Merges, Turns(m, r) PROVE Apart'
  BY <1>3 DEF Turns, MergeIs
<1>4. ASSUME NEW m \in Merge, NEW r \in Merges, MakesTarget(m, r) PROVE Apart'
  BY <1>4 DEF MakesTarget, MergeIs
<1>5. ASSUME NEW m \in Merge, NEW r \in Merges, Appends(m, r) PROVE Apart'
  BY <1>5 DEF Appends, MergeIs
<1>6. ASSUME NEW m \in Merge, NEW r \in Merges, NEW f \in Names, Reads(m, r, f) PROVE Apart'
  BY <1>6 DEF Reads, MergeIs
<1>7. ASSUME NEW m \in Merge, NEW r \in Merges, NEW f \in Names, Unlinks(m, r, f) PROVE Apart'
  BY <1>7 DEF Unlinks, MergeIs
<1>8. CASE UNCHANGED scribeVars
  BY <1>8 DEF scribeVars
<1> HIDE DEF ScribeType, Written, Apart, Wordings, Letters, Drafts, Merges, Writing, Merging, Alone
<1> QED
  BY <1>1, <1>2, <1>3, <1>4, <1>5, <1>6, <1>7, <1>8, ScribeSteps

\* Every step keeps OnceEach.
LEMMA OnceNext == ASSUME ScribeType, Written, Apart, OnceEach, UNCHANGED scribeVars \/ ScribeNext PROVE OnceEach'
<1> USE TextAssumption DEF ScribeType, Written, OnceEach, Once, Held, Merged, Safe, Alone, Wordings, Letters, Drafts, Merges, Writing, Merging
<1>1. ASSUME NEW d \in Decision, NEW i \in Decision, OpensFile(d, FileOf[d], i) PROVE OnceEach'
  <2>1. SUFFICES ASSUME NEW e \in Decision, Safe(e) PROVE Once(e)'
    BY <1>1 DEF OpensFile
  <2>2. /\ UNCHANGED <<scribePlan, decisions, merge>> /\ DOMAIN inbox' = DOMAIN inbox \cup {FileOf[d]}
        /\ \A g \in DOMAIN inbox' : inbox'[g].text = Blank \/ (g \in DOMAIN inbox /\ inbox'[g].text = inbox[g].text)
    BY <1>1 DEF OpensFile
  <2>3. Once(e) /\ e # Blank
    BY <2>1
  <2>4. ASSUME NEW m \in Merge, merge[m].pc = "unlink", merge[m].text = e PROVE FileOf[e] # FileOf[d]
    <3>1. Merging /\ scribePlan.overlap /\ draft[d].pc = "idle"
      BY <1>1, <2>4 DEF OpensFile
    <3>2. draft[e].pc = "done"
      BY <2>3, <2>4
    <3> QED
      BY <2>1, <3>1, <3>2
  <2> QED
    BY <2>2, <2>3, <2>4
<1>2. ASSUME NEW d \in Decision, WriteDraft(d) PROVE OnceEach'
  BY <1>2 DEF WriteDraft
<1>3. ASSUME NEW m \in Merge, NEW r \in Merges, Turns(m, r) PROVE OnceEach'
  BY <1>3 DEF Turns, MergeIs
<1>4. ASSUME NEW m \in Merge, NEW r \in Merges, MakesTarget(m, r) PROVE OnceEach'
  BY <1>4 DEF MakesTarget, MergeIs
<1>5. ASSUME NEW m \in Merge, NEW r \in Merges, Appends(m, r) PROVE OnceEach'
  BY <1>5 DEF Appends, MergeIs
<1>6. ASSUME NEW m \in Merge, NEW r \in Merges, NEW f \in Names, Reads(m, r, f) PROVE OnceEach'
  BY <1>6 DEF Reads, MergeIs
<1>7. ASSUME NEW m \in Merge, NEW r \in Merges, NEW f \in Names, Unlinks(m, r, f) PROVE OnceEach'
  BY <1>7 DEF Unlinks, MergeIs
<1>8. CASE UNCHANGED scribeVars
  BY <1>8 DEF scribeVars
<1> HIDE DEF ScribeType, Written, OnceEach, Once, Held, Merged, Safe, Alone, Wordings, Letters, Drafts, Merges, Writing, Merging
<1> QED
  BY <1>1, <1>2, <1>3, <1>4, <1>5, <1>6, <1>7, <1>8, ScribeSteps

\* Every step keeps Somewhere.
LEMMA SomewhereNext == ASSUME ScribeType, Written, Apart, Somewhere, UNCHANGED scribeVars \/ ScribeNext PROVE Somewhere'
<1> USE TextAssumption DEF ScribeType, Written, Apart, Somewhere, InBox, Held, Merged, Alone, Wordings, Letters, Drafts, Merges, Writing, Merging
<1>1. ASSUME NEW d \in Decision, NEW i \in Decision, OpensFile(d, FileOf[d], i) PROVE Somewhere'
  BY <1>1 DEF OpensFile
<1>2. ASSUME NEW d \in Decision, WriteDraft(d) PROVE Somewhere'
  BY <1>2 DEF WriteDraft
<1>3. ASSUME NEW m \in Merge, NEW r \in Merges, Turns(m, r) PROVE Somewhere'
  BY <1>3 DEF Turns, MergeIs
<1>4. ASSUME NEW m \in Merge, NEW r \in Merges, MakesTarget(m, r) PROVE Somewhere'
  BY <1>4 DEF MakesTarget, MergeIs
<1> DEFINE Sure == scribePlan.exists /\ ~ scribePlan.overlap /\ ~ scribePlan.dies
           IsThere(d) == InBox(d) \/ Held(d) \/ Merged(d)
<1>5. ASSUME NEW m \in Merge, NEW r \in Merges, Appends(m, r) PROVE Somewhere'
  <2>1. /\ merge[m].pc = "append" /\ r.pc = "next" /\ merge' = [merge EXCEPT ![m] = r] /\ decisions' = Append(decisions, merge[m].text)
        /\ UNCHANGED <<scribePlan, draft, inbox>> /\ decisions \in Seq(Wordings) /\ merge[m].text \in Wordings
    BY <1>5 DEF Appends, MergeIs
  <2>2. /\ decisions' \in Seq(Wordings) /\ Len(decisions') = Len(decisions) + 1 /\ decisions'[Len(decisions) + 1] = merge[m].text
        /\ (\A i \in 1..Len(decisions) : decisions'[i] = decisions[i]) /\ Len(decisions) \in Nat
    BY <2>1, AppendProperties
  <2>3. ASSUME NEW d \in Decision, IsThere(d) PROVE IsThere(d)'
    <3>1. CASE InBox(d)
      BY <2>1, <3>1
    <3>2. CASE Merged(d)
      <4>1. PICK i \in 1..Len(decisions) : decisions[i] = d
        BY <2>1, <3>2
      <4>2. i \in DOMAIN decisions' /\ decisions'[i] = d
        BY <2>2, <4>1
      <4> QED
        BY <2>2, <4>2
    <3>3. ASSUME NEW n \in Merge, merge[n].pc = "append", merge[n].text = d PROVE IsThere(d)'
      <4>1. CASE n = m
        <5>1. Len(decisions) + 1 \in DOMAIN decisions' /\ decisions'[Len(decisions) + 1] = d
          BY <2>2, <3>3, <4>1
        <5> QED
          BY <2>2, <5>1
      <4>2. CASE n # m
        BY <2>1, <3>3, <4>2
      <4> QED
        BY <4>1, <4>2
    <3> QED
      BY <2>3, <3>1, <3>2, <3>3
  <2>4. Sure => (\A n \in Merge : merge'[n].pc # "create") /\ \A d \in Decision : draft[d].pc = "done" /\ Alone(d) => IsThere(d)
    BY <2>1
  <2> HIDE DEF IsThere
  <2> QED
    BY <2>1, <2>2, <2>3, <2>4 DEF IsThere
<1>6. ASSUME NEW m \in Merge, NEW r \in Merges, NEW f \in Names, Reads(m, r, f) PROVE Somewhere'
  <2>1. /\ merge[m].pc = "next" /\ r.pc = "unlink" /\ merge' = [merge EXCEPT ![m] = r] /\ UNCHANGED <<scribePlan, draft, inbox, decisions>>
    BY <1>6 DEF Reads, MergeIs
  <2>2. \A d \in Decision : Held(d) => Held(d)'
    BY <2>1
  <2>3. \A d \in Decision : (InBox(d) => InBox(d)') /\ (Merged(d) => Merged(d)')
    BY <2>1
  <2> HIDE DEF InBox, Held, Merged
  <2> QED
    BY <2>1, <2>2, <2>3
<1>7. ASSUME NEW m \in Merge, NEW r \in Merges, NEW f \in Names, Unlinks(m, r, f) PROVE Somewhere'
  <2>1. /\ merge[m].pc = "unlink" /\ r.pc = "append" /\ merge' = [merge EXCEPT ![m] = r] /\ UNCHANGED <<scribePlan, draft, decisions>>
        /\ r.text = merge[m].text /\ f = merge[m].file /\ f \in DOMAIN inbox /\ inbox' = [g \in DOMAIN inbox \ {f} |-> inbox[g]]
    BY <1>7 DEF Unlinks, MergeIs
  <2>2. \A d \in Decision : Held(d) => Held(d)'
    BY <2>1
  <2>3. \A d \in Decision : Merged(d) => Merged(d)'
    BY <2>1
  <2>4. ASSUME Sure, NEW d \in Decision, InBox(d) PROVE InBox(d)' \/ Held(d)'
    <3>1. PICK g \in DOMAIN inbox : inbox[g].text = d
      BY <2>4
    <3>2. CASE g = f
      <4>1. merge'[m].pc = "append" /\ merge'[m].text = d
        BY <2>1, <2>4, <3>1, <3>2
      <4> QED
        BY <4>1
    <3>3. CASE g # f
      BY <2>1, <3>1, <3>3
    <3> QED
      BY <3>2, <3>3
  <2> HIDE DEF InBox, Held, Merged
  <2> QED
    BY <2>1, <2>2, <2>3, <2>4
<1>8. CASE UNCHANGED scribeVars
  BY <1>8 DEF scribeVars
<1> HIDE DEF ScribeType, Written, Apart, Somewhere, InBox, Held, Merged, Alone, Wordings, Letters, Drafts, Merges, Writing, Merging
<1> QED
  BY <1>1, <1>2, <1>3, <1>4, <1>5, <1>6, <1>7, <1>8, ScribeSteps

DropBoxInv == ScribeType /\ Written /\ Apart /\ OnceEach /\ Somewhere

\* The property from its invariants.
LEMMA DropBoxFollows == DropBoxInv => DropBox
<1> SUFFICES ASSUME DropBoxInv PROVE DropBox
  OBVIOUS
<1> USE TextAssumption
<1>1. MergedOnce
  <2>1. SUFFICES ASSUME decisions # None, NEW i \in DOMAIN decisions, NEW j \in DOMAIN decisions, decisions[i] = decisions[j],
                        decisions[i] # Blank, ~ (scribePlan.overlap /\ ~ Alone(decisions[i]))
                 PROVE  i = j
    BY DEF MergedOnce
  <2>2. decisions \in Seq(Wordings)
    BY <2>1 DEF DropBoxInv, ScribeType
  <2>3. decisions[i] \in Decision
    BY <2>1, <2>2 DEF Wordings
  <2>4. Once(decisions[i])
    BY <2>1, <2>3 DEF DropBoxInv, OnceEach, Safe
  <2> QED
    BY <2>1, <2>2, <2>4 DEF Once
<1>2. Kept
  BY DEF DropBoxInv, Somewhere, Kept, InBox, Held, Merged
<1> QED
  BY <1>1, <1>2 DEF DropBox

\* Whatever agents and merges there are, no decision is appended twice and - under
\* the four conditions of Kept - none is lost: consumeInboxFile unlinks a file
\* before it appends its text, and only one merge can unlink it.
THEOREM DropBoxHolds == Spec => []DropBox
<1>1. Init => DropBoxInv
  BY ScribeStarts DEF Init, DropBoxInv
<1>2. DropBoxInv /\ [Next]_vars => DropBoxInv'
  BY Separate, ScribeTypeNext, WrittenNext, ApartNext, OnceNext, SomewhereNext DEF DropBoxInv
<1>3. DropBoxInv => DropBox
  BY DropBoxFollows
<1> QED
  BY <1>1, <1>2, <1>3, PTL DEF Spec

(***************************************************************************)
(* Ingestion.                                                              *)
(***************************************************************************)
Ingestions == [pc : {"idle", "convert", "store", "done", "failed"}, file : Doc \cup {Nobody}, version : Nat, stored : Nat]
Versions == {0} \cup (DOMAIN ChunksOf \cap Nat)

\* An ingestion has stored the first chunks of the version it read, and ends with the last of them.
IngestionType ==
  /\ job \in [Job -> Ingestions] /\ doc \in [Doc -> Versions]
  /\ \A j \in Job : job[j].pc # "idle" => job[j].file \in Doc
  /\ \A j \in Job : job[j].pc = "convert" => job[j].stored = 0
  /\ \A j \in Job : job[j].pc \in {"store", "done"} =>
       /\ job[j].version \in DOMAIN ChunksOf /\ job[j].stored <= ChunksOf[job[j].version]
       /\ \A n \in 1..job[j].stored : [file |-> job[j].file, version |-> job[j].version, index |-> n, job |-> j] \in chunk
       /\ job[j].pc = "store" <=> job[j].stored < ChunksOf[job[j].version]

Batches == [pc : {"idle", "next", "wait"}, left : SUBSET Doc, job : Job \cup {Nobody}, succeeded : Nat, failed : Nat, chunks : Nat]
BatchType == batch \in Batches /\ (batch.pc = "wait" => batch.job \in Job)

\* The invariants of the ingestion hold at first.
LEMMA IngestionStarts == IngestionInit => IngestionType /\ BatchType /\ Ingested
<1> QED
  BY DEF BatchType, Batches, IngestionInit, IngestionType, Ingested, Ingestions, Versions, NoJob

\* An ingestion that goes on, as what it becomes, with the chunks it leaves.
LEMMA IngestionGoes ==
  ASSUME IngestionType, Ingested, NEW j \in Job, NEW r \in Ingestions, job' = [job EXCEPT ![j] = r], chunk \subseteq chunk',
         UNCHANGED <<doc, watching>>, job[j].pc \in {"idle", "convert", "store"},
         \A g \in Doc : doc[g] # 0 /\ g \in event \cup timer => g \in event' \cup timer' \/ (g = r.file /\ r.pc = "convert"),
         r.pc # "idle", r.file \in Doc, r.pc = "convert" => r.stored = 0,
         r.pc \in {"store", "done"} =>
           /\ r.version \in DOMAIN ChunksOf /\ r.stored <= ChunksOf[r.version]
           /\ \A n \in 1..r.stored : [file |-> r.file, version |-> r.version, index |-> n, job |-> j] \in chunk'
           /\ r.pc = "store" <=> r.stored < ChunksOf[r.version],
         job[j].pc = "idle" \/ (r.file = job[j].file /\ (r.pc = "failed" \/ (r.pc # "convert" /\ r.version = IF job[j].pc = "convert" THEN doc[r.file] ELSE job[j].version)))
  PROVE  IngestionType' /\ Ingested'
<1> USE IngestionAssumption DEF IngestionType, Ingestions, Versions
<1>1. job'[j] = r /\ \A k \in Job : k # j => job'[k] = job[k]
  OBVIOUS
<1>2. IngestionType'
  <2>1. job' \in [Job -> Ingestions]
    OBVIOUS
  <2>2. \A k \in Job : job'[k].pc # "idle" => job'[k].file \in Doc
    BY <1>1
  <2>3. ASSUME NEW k \in Job, job'[k].pc \in {"store", "done"}
        PROVE  /\ job'[k].version \in DOMAIN ChunksOf /\ job'[k].stored <= ChunksOf[job'[k].version]
               /\ \A n \in 1..job'[k].stored : [file |-> job'[k].file, version |-> job'[k].version, index |-> n, job |-> k] \in chunk'
               /\ job'[k].pc = "store" <=> job'[k].stored < ChunksOf[job'[k].version]
    BY <1>1, <2>3
  <2>4. \A k \in Job : job'[k].pc = "convert" => job'[k].stored = 0
    BY <1>1
  <2> QED
    BY <2>1, <2>2, <2>3, <2>4
<1>3. ASSUME NEW f \in Doc, watching, f \notin event \cup timer, doc[f] # 0,
             NEW k \in Job, job[k].file = f,
             \/ job[k].pc \in {"convert", "failed"}
             \/ job[k].pc = "store" /\ job[k].version = doc[f]
             \/ /\ job[k].pc = "done" /\ job[k].version = doc[f]
                /\ \A n \in 1..ChunksOf[doc[f]] : [file |-> f, version |-> doc[f], index |-> n, job |-> k] \in chunk
      PROVE  /\ job'[k].file = f
             /\ \/ job'[k].pc \in {"convert", "failed"}
                \/ job'[k].pc = "store" /\ job'[k].version = doc[f]
                \/ /\ job'[k].pc = "done" /\ job'[k].version = doc[f]
                   /\ \A n \in 1..ChunksOf[doc[f]] : [file |-> f, version |-> doc[f], index |-> n, job |-> k] \in chunk'
  <2>1. CASE k # j
    BY <1>1, <1>3, <2>1
  <2>2. CASE k = j
    <3>1. r.file = f /\ (r.pc = "failed" \/ (r.pc \in {"store", "done"} /\ r.version = doc[f]))
      BY <1>3, <2>2
    <3>2. CASE r.pc = "done"
      BY <1>1, <2>2, <3>1, <3>2
    <3> QED
      BY <1>1, <2>2, <3>1, <3>2
  <2> QED
    BY <2>1, <2>2
<1>4. ASSUME watching, NEW g \in Doc, g = r.file, r.pc = "convert" PROVE job'[j].file = g /\ job'[j].pc \in {"convert", "failed"}
  BY <1>1, <1>4
<1>5. Ingested'
  BY <1>3, <1>4 DEF Ingested
<1> QED
  BY <1>2, <1>5

\* A job that starts has the version of that moment to read.
LEMMA IngestionBegins ==
  ASSUME IngestionType, Ingested, NEW f \in Doc, NEW j \in Job, Starts(j, f), UNCHANGED <<doc, watching, event, chunk>>,
         timer' \in {timer, timer \ {f}}
  PROVE  IngestionType' /\ Ingested'
<1> DEFINE r == [NoJob EXCEPT !.pc = "convert", !.file = f]
<1>1. r \in Ingestions /\ r.pc = "convert" /\ r.file = f /\ r.stored = 0
  BY DEF NoJob, Ingestions
<1>2. job[j].pc = "idle" /\ job' = [job EXCEPT ![j] = r]
  BY DEF Starts
<1>3. \A g \in Doc : doc[g] # 0 /\ g \in event \cup timer => g \in event' \cup timer' \/ (g = r.file /\ r.pc = "convert")
  BY <1>1
<1> HIDE DEF r
<1> QED
  BY <1>1, <1>2, <1>3, IngestionGoes

\* Every step keeps the property and the types.
LEMMA IngestionSteps == ASSUME IngestionType, BatchType, Ingested, UNCHANGED ingestionVars \/ IngestionNext PROVE IngestionType' /\ Ingested'
<1> USE IngestionAssumption DEF IngestionType, Ingestions, Versions
<1>1. ASSUME NEW f \in Doc, Changes(f) PROVE IngestionType' /\ Ingested'
  BY <1>1 DEF Changes, Ingested
<1>2. ASSUME NEW f \in Doc, Debounces(f) PROVE IngestionType' /\ Ingested'
  BY <1>2 DEF Debounces, Ingested
<1>3. ASSUME NEW f \in Doc, Fires(f) PROVE IngestionType' /\ Ingested'
  <2>1. /\ f \in timer /\ timer' = timer \ {f} /\ UNCHANGED <<doc, event, watching, chunk>>
        /\ IF doc[f] = 0 THEN UNCHANGED job ELSE \E j \in Job : Starts(j, f)
    BY <1>3 DEF Fires
  <2>2. CASE doc[f] = 0
    BY <2>1, <2>2 DEF Ingested
  <2>3. CASE doc[f] # 0
    BY <2>1, <2>3, IngestionBegins
  <2> QED
    BY <2>2, <2>3
<1>4. ASSUME NEW j \in Job, Converts(j) PROVE IngestionType' /\ Ingested'
  <2> DEFINE v == doc[job[j].file]
             r == [job[j] EXCEPT !.pc = IF v = 0 THEN "failed" ELSE IF ChunksOf[v] = 0 THEN "done" ELSE "store", !.version = v]
  <2>1. job[j].pc = "convert" /\ UNCHANGED <<doc, event, timer, watching, chunk>> /\ job' = [job EXCEPT ![j] = r]
    BY <1>4 DEF Converts
  <2>2. v \in Versions /\ v \in Nat /\ job[j].file \in Doc /\ job[j] \in Ingestions /\ job[j].stored = 0
    BY <2>1
  <2>3. r \in Ingestions /\ r.file = job[j].file /\ r.version = v /\ r.stored = 0
        /\ r.pc = IF v = 0 THEN "failed" ELSE IF ChunksOf[v] = 0 THEN "done" ELSE "store"
    BY <2>2
  <2>4. v # 0 => v \in DOMAIN ChunksOf /\ ChunksOf[v] \in Nat
    BY <2>2
  <2> HIDE DEF r, v
  <2>5. /\ r.pc # "idle" /\ r.file \in Doc /\ r.pc # "convert" /\ (r.pc = "convert" => r.stored = 0)
        /\ r.pc \in {"store", "done"} =>
             /\ r.version \in DOMAIN ChunksOf /\ r.stored <= ChunksOf[r.version]
             /\ \A n \in 1..r.stored : [file |-> r.file, version |-> r.version, index |-> n, job |-> j] \in chunk'
             /\ r.pc = "store" <=> r.stored < ChunksOf[r.version]
    BY <2>2, <2>3, <2>4
  <2>6. r.version = doc[r.file]
    BY <2>3 DEF v
  <2> HIDE DEF IngestionType, Ingestions, Versions
  <2> QED
    BY <2>1, <2>3, <2>5, <2>6, IngestionGoes
<1>5. ASSUME NEW j \in Job, Stores(j) PROVE IngestionType' /\ Ingested'
  <2> DEFINE n == job[j].stored + 1
             w == job[j].version
             r == [job[j] EXCEPT !.stored = n, !.pc = IF n = ChunksOf[w] THEN "done" ELSE "store"]
             c == [file |-> job[j].file, version |-> w, index |-> n, job |-> j]
  <2>1. job[j].pc = "store" /\ UNCHANGED <<doc, event, timer, watching>> /\ job' = [job EXCEPT ![j] = r] /\ chunk' = chunk \cup {c}
    BY <1>5 DEF Stores
  <2>2. job[j] \in Ingestions /\ job[j].file \in Doc /\ w \in DOMAIN ChunksOf /\ ChunksOf[w] \in Nat /\ n \in Nat /\ n <= ChunksOf[w]
        /\ \A k \in 1..(n - 1) : [file |-> job[j].file, version |-> w, index |-> k, job |-> j] \in chunk
    BY <2>1
  <2>3. r \in Ingestions /\ r.file = job[j].file /\ r.version = w /\ r.stored = n /\ r.pc = IF n = ChunksOf[w] THEN "done" ELSE "store"
    BY <2>2
  <2>4. \A k \in 1..n : [file |-> job[j].file, version |-> w, index |-> k, job |-> j] \in chunk'
    BY <2>1, <2>2
  <2> HIDE DEF r, c
  <2>5. /\ r.pc # "idle" /\ r.file \in Doc /\ r.pc # "convert" /\ (r.pc = "convert" => r.stored = 0)
        /\ r.pc \in {"store", "done"} =>
             /\ r.version \in DOMAIN ChunksOf /\ r.stored <= ChunksOf[r.version]
             /\ \A k \in 1..r.stored : [file |-> r.file, version |-> r.version, index |-> k, job |-> j] \in chunk'
             /\ r.pc = "store" <=> r.stored < ChunksOf[r.version]
    BY <2>2, <2>3, <2>4
  <2>6. job[j].pc # "convert" /\ r.version = job[j].version /\ chunk \subseteq chunk'
    BY <2>1, <2>3
  <2> HIDE DEF n, w, IngestionType, Ingestions, Versions
  <2> QED
    BY <2>1, <2>3, <2>5, <2>6, IngestionGoes
<1>6. ASSUME NEW j \in Job, IngestionFails(j) PROVE IngestionType' /\ Ingested'
  BY <1>6 DEF IngestionFails, Ingested
<1>7. CASE StopsWatching
  BY <1>7 DEF StopsWatching, Ingested
<1>8. CASE ListsDirectory
  BY <1>8 DEF ListsDirectory, Ingested
<1>9. CASE TakesNext
  <2>1. batch.left \subseteq Doc
    BY DEF BatchType, Batches
  <2> QED
    BY <1>9, <2>1, IngestionBegins DEF TakesNext
<1>10. CASE Counts
  BY <1>10 DEF Counts, Ingested
<1>11. CASE UNCHANGED ingestionVars
  BY <1>11 DEF ingestionVars, Ingested
<1> QED
  BY <1>1, <1>2, <1>3, <1>4, <1>5, <1>6, <1>7, <1>8, <1>9, <1>10, <1>11 DEF IngestionNext
\* Every step keeps the type of the directory run.
LEMMA BatchSteps == ASSUME IngestionType, BatchType, UNCHANGED ingestionVars \/ IngestionNext PROVE BatchType'
<1> USE DEF BatchType, Batches
<1>1. CASE UNCHANGED batch
  BY <1>1
<1>2. CASE ListsDirectory
  BY <1>2 DEF ListsDirectory
<1>3. CASE TakesNext
  BY <1>3 DEF TakesNext
<1>4. CASE Counts
  <2> DEFINE s == IF job[batch.job].pc = "done" THEN batch.succeeded + 1 ELSE batch.succeeded
             n == IF job[batch.job].pc = "failed" THEN batch.failed + 1 ELSE batch.failed
             c == IF job[batch.job].pc = "done" THEN batch.chunks + job[batch.job].stored ELSE batch.chunks
  <2>1. batch.pc = "wait" /\ batch' = [batch EXCEPT !.pc = "next", !.succeeded = s, !.failed = n, !.chunks = c]
    BY <1>4 DEF Counts
  <2>2. job[batch.job].stored \in Nat
    BY <2>1 DEF IngestionType, Ingestions
  <2>3. s \in Nat /\ n \in Nat /\ c \in Nat
    BY <2>2
  <2> HIDE DEF s, n, c
  <2> QED
    BY <2>1, <2>3
<1>5. UNCHANGED ingestionVars => UNCHANGED batch
  BY Zenon DEF ingestionVars
<1>6. IngestionNext => UNCHANGED batch \/ ListsDirectory \/ TakesNext \/ Counts
  BY DEF IngestionNext, Changes, Debounces, Fires, Converts, Stores, IngestionFails, StopsWatching
<1> QED
  BY <1>1, <1>2, <1>3, <1>4, <1>5, <1>6

\* However changes, timers, ingestions and their failures follow each other, while the
\* watcher is on each document on disk is stored whole in its version, or there is
\* something left that is going to see to it, or an ingestion of it failed.
THEOREM DocumentsAreIngested == Spec => []Ingested
<1>1. Init => IngestionType /\ BatchType /\ Ingested
  BY IngestionStarts DEF Init
<1>2. IngestionType /\ BatchType /\ Ingested /\ [Next]_vars => (IngestionType /\ BatchType /\ Ingested)'
  BY Separate, IngestionSteps, BatchSteps
<1> QED
  BY <1>1, <1>2, PTL DEF Spec

(***************************************************************************)
(* The session store.                                                      *)
(***************************************************************************)
Maybe == Nat \cup {Nothing}
Samplings == [session : Session, tokens : Maybe, level : Level]
Saves == [pc : {"idle", "embed", "delete", "index", "insert", "done", "failed"}, session : Session \cup {Nothing},
          used : Nat, level : Level, ahead : SUBSET Save, over : BOOLEAN]

Plans == [named : BOOLEAN, samples : Nat, upserts : Nat, failures : Nat, saves : SUBSET Save, dies : BOOLEAN]

StoreType ==
  /\ storePlan \in Plans
  /\ row \in [Session -> SessionRow \cup {Nothing}] /\ recent \in Session \cup {Nothing} /\ sample \subseteq Samplings
  /\ checkpoint \in [CheckpointId -> CheckpointRow \cup {Nothing}]
  /\ doing \in [Process -> MethodRow \cup {Nothing}] /\ save \in [Save -> Saves]

\* A mark and a peak that are not below these.
AtLeast(r, tokens, level) ==
  r \in SessionRow /\ r.peak >= level /\ (tokens # Nothing => r.mark \in Nat /\ r.mark >= tokens)

Above(r, q) == r \in SessionRow => AtLeast(q, r.mark, r.peak)

\* No process changes the row of another's session, so what a method read stays true until it writes.
MarksInv ==
  storePlan.named =>
    /\ \A p \in Process : doing[p] # Nothing => doing[p].seen = row[SessionOf[p]]
    /\ \A v \in Save : save[v].pc = "embed" => save[v].session = SessionOf[ProcessOf[v]]
    /\ \A m \in sample : AtLeast(row[m.session], m.tokens, m.level)
    /\ \A i \in CheckpointId : checkpoint[i] # Nothing /\ checkpoint[i].session # Nothing =>
         AtLeast(row[checkpoint[i].session], checkpoint[i].used, checkpoint[i].level)

\* Another save that has still to write the vector of the same id.
Rival(v, w) == v # w /\ IdOf[v] = IdOf[w] /\ Runs(ProcessOf[v]) /\ save[v].pc \in Halfway

\* What is known of the save w that wrote the row of an id when no other process was half-way
\* with one: those that are left are of its own process, and come before it.
FinalWriter(w) ==
  /\ \A v \in Save : Rival(v, w) => ProcessOf[v] = ProcessOf[w]
  /\ save[w].pc \in {"delete", "index"} => \A v \in Save : Rival(v, w) => save[v].pc # "delete"
  /\ save[w].pc = "index" => \A v \in Save : Rival(v, w) /\ save[v].pc = "index" => v \in save[w].ahead
  /\ save[w].pc \in {"insert", "done"} => \A v \in Save : ~ Rival(v, w)
  /\ save[w].pc = "done" => vector[IdOf[w]] = w

\* The saves that write rows and vectors: a process is in one stretch at a time.
IndexInv ==
  /\ vector \in [CheckpointId -> Save \cup {Nothing}]
  /\ \A i \in CheckpointId : vector[i] # Nothing => checkpoint[i] # Nothing
  /\ \A v \in Save : save[v].pc \in Halfway => checkpoint[IdOf[v]] # Nothing
  /\ \A v, w \in Save : ProcessOf[v] = ProcessOf[w] /\ save[v].pc \in {"delete", "insert"} /\ save[w].pc \in {"delete", "insert"} => v = w
  /\ \A i \in CheckpointId : checkpoint[i] # Nothing =>
       \E w \in Save : /\ checkpoint[i].by = w /\ IdOf[w] = i /\ save[w].pc \in Halfway \cup {"done", "failed"}
                       /\ ~ save[w].over => FinalWriter(w)

\* The greater of two numbers.
LEMMA MaxOfTwo == ASSUME NEW a \in Nat, NEW b \in Nat PROVE Max({a, b}) = IF a >= b THEN a ELSE b
<1> DEFINE c == IF a >= b THEN a ELSE b
<1>1. c \in {a, b} /\ \A y \in {a, b} : c >= y
  OBVIOUS
<1>2. ASSUME NEW x \in {a, b}, \A y \in {a, b} : x >= y PROVE x = c
  BY <1>2
<1> QED
  BY <1>1, <1>2 DEF Max

\* A row that is raised is at least what raised it, and at least what it was.
LEMMA RaisedRow ==
  ASSUME NEW r \in SessionRow \cup {Nothing}, NEW tokens \in Maybe, NEW level \in Level
  PROVE  AtLeast(Raised(r, tokens, level), tokens, level) /\ Above(r, Raised(r, tokens, level))
<1> DEFINE old == IF r = Nothing THEN [mark |-> Nothing, peak |-> 0] ELSE r
<1> USE NothingAssumption DEF SessionRow, Maybe, Level
<1>1. old \in SessionRow /\ (r \in SessionRow => old = r)
  OBVIOUS
<1>2. old.peak \in 0..3 /\ old.mark \in Maybe
  BY <1>1
<1>3. Max({old.peak, level}) = IF old.peak >= level THEN old.peak ELSE level
  <2>1. old.peak \in Nat /\ level \in Nat
    BY <1>2
  <2> HIDE DEF old
  <2> QED
    BY <2>1, MaxOfTwo
<1>4. ASSUME old.mark # Nothing, tokens # Nothing PROVE Max({old.mark, tokens}) = IF old.mark >= tokens THEN old.mark ELSE tokens
  <2>1. old.mark \in Nat /\ tokens \in Nat
    BY <1>2, <1>4
  <2> HIDE DEF old
  <2> QED
    BY <2>1, MaxOfTwo
<1> DEFINE q == Raised(r, tokens, level)
           mark == IF tokens = Nothing THEN old.mark ELSE IF old.mark = Nothing THEN tokens ELSE Max({old.mark, tokens})
           peak == Max({old.peak, level})
<1>5. q = [mark |-> mark, peak |-> peak]
  BY DEF Raised
<1>6. peak \in Level /\ peak >= level /\ peak >= old.peak
  BY <1>2, <1>3
<1>7. mark \in Maybe /\ (tokens # Nothing => mark \in Nat /\ mark >= tokens) /\ (old.mark # Nothing => mark \in Nat /\ mark >= old.mark)
  BY <1>2, <1>4
<1> HIDE DEF mark, peak, q
<1>8. q \in SessionRow /\ q.mark = mark /\ q.peak = peak
  BY <1>5, <1>6, <1>7
<1> QED
  BY <1>1, <1>6, <1>7, <1>8 DEF AtLeast, Above, q

\* A row above another is at least what that one is.
LEMMA AboveKeeps ==
  ASSUME NEW r \in SessionRow \cup {Nothing}, NEW q, Above(r, q), NEW tokens \in Maybe, NEW level \in Level, AtLeast(r, tokens, level)
  PROVE  AtLeast(q, tokens, level)
<1> QED
  BY NothingAssumption DEF AtLeast, Above, SessionRow, Maybe, Level

\* The invariants of the store hold at first.
LEMMA StoreStarts == StoreInit => StoreType /\ MarksInv /\ IndexInv
<1> SUFFICES ASSUME StoreInit PROVE StoreType /\ MarksInv /\ IndexInv
  OBVIOUS
<1> DEFINE s == [pc |-> "idle", session |-> Nothing, used |-> 0, level |-> 0, ahead |-> {}, over |-> FALSE]
<1>1. s \in Saves /\ s.pc = "idle"
  BY DEF Saves, Level
<1> HIDE DEF s
<1>2. save = [v \in Save |-> s]
  BY DEF StoreInit, s
<1>3. save \in [Save -> Saves] /\ \A v \in Save : save[v].pc = "idle"
  BY <1>1, <1>2
<1>4. StoreType
  BY <1>3, StoreAssumption DEF StoreInit, StoreType, Plans
<1>5. \A v \in Save : save[v].pc \notin Halfway \cup {"embed"}
  BY <1>3 DEF Halfway
<1>6. /\ \A p \in Process : doing[p] = Nothing
      /\ sample = {} /\ \A i \in CheckpointId : checkpoint[i] = Nothing /\ vector[i] = Nothing
  BY DEF StoreInit
<1>7. vector \in [CheckpointId -> Save \cup {Nothing}]
  BY DEF StoreInit
<1> QED
  BY <1>3, <1>4, <1>5, <1>6, <1>7 DEF MarksInv, IndexInv

\* The steps of a process, as what they change.
ReadsIt(p, d) ==
  /\ d \in MethodRow /\ d.seen = row[SessionOf[p]] /\ doing' = [doing EXCEPT ![p] = d]
  /\ UNCHANGED <<row, sample, checkpoint, save>>

\* A method of p writes the row q, and with it maybe a sample.
WritesIt(p, q, S) ==
  /\ q \in SessionRow /\ (storePlan.named => Above(row[SessionOf[p]], q))
  /\ row' = [row EXCEPT ![SessionOf[p]] = q] /\ doing' = [doing EXCEPT ![p] = Nothing] /\ sample' = sample \cup S
  /\ \A m \in S : m \in Samplings /\ m.session = SessionOf[p] /\ (storePlan.named => AtLeast(q, m.tokens, m.level))
  /\ UNCHANGED <<checkpoint, save>>

BeginsIt(v, r) ==
  /\ r \in Saves /\ save' = [save EXCEPT ![v] = r]
  /\ storePlan.named => r.session = SessionOf[ProcessOf[v]]
  /\ UNCHANGED <<row, doing, sample, checkpoint>>

\* A save writes its checkpoint, and the row of its session unless it has none.
PersistsIt(v, c) ==
  /\ Free(ProcessOf[v]) /\ save[v].pc = "embed"
  /\ c \in CheckpointRow /\ c.session = save[v].session /\ checkpoint' = [checkpoint EXCEPT ![IdOf[v]] = c]
  /\ \/ c.session = Nothing /\ UNCHANGED row
     \/ /\ c.session \in Session /\ c.session # Nothing
        /\ \E q \in SessionRow : Above(row[c.session], q) /\ AtLeast(q, c.used, c.level) /\ row' = [row EXCEPT ![c.session] = q]
  /\ save' = [save EXCEPT ![v] = [@ EXCEPT !.pc = "delete", !.over = Contended(v)]] /\ UNCHANGED <<doing, sample>>

MovesIt(v, r) == r \in Saves /\ r.pc # "embed" /\ save' = [save EXCEPT ![v] = r] /\ UNCHANGED <<row, doing, sample, checkpoint>>

\* A method that reads its row keeps what it saw.
LEMMA ReadsStep ==
  ASSUME StoreType, NEW p \in Process, NEW kind \in {"sample", "touch"}, NEW tokens \in Maybe, NEW level \in Level, ReadsRow(p, kind, tokens, level)
  PROVE  \E d \in MethodRow : ReadsIt(p, d)
<1> DEFINE d == [kind |-> kind, tokens |-> tokens, level |-> level, seen |-> row[SessionOf[p]]]
<1>1. d \in MethodRow
  BY StoreAssumption DEF StoreType, MethodRow, Maybe
<1>2. ReadsIt(p, d)
  BY <1>1 DEF ReadsIt, ReadsRow
<1> QED
  BY <1>1, <1>2

\* A sample writes a row above the one it read.
LEMMA SamplesStep ==
  ASSUME StoreType, MarksInv, NEW p \in Process, Samples(p)
  PROVE  \E q \in SessionRow, S \in SUBSET Samplings : WritesIt(p, q, S)
<1> DEFINE d == doing[p]
           s == SessionOf[p]
           q == Raised(d.seen, d.tokens, d.level)
           m == [session |-> s, tokens |-> d.tokens, level |-> d.level]
<1>1. d # Nothing /\ d \in MethodRow /\ s \in Session /\ row[s] \in SessionRow \cup {Nothing}
  BY StoreAssumption DEF Samples, StoreType
<1>2. d.seen \in SessionRow \cup {Nothing} /\ d.tokens \in Maybe /\ d.level \in Level
  BY <1>1 DEF MethodRow, Maybe
<1>3. AtLeast(q, d.tokens, d.level) /\ Above(d.seen, q)
  BY <1>2, RaisedRow
<1>4. storePlan.named => d.seen = row[s]
  BY <1>1 DEF MarksInv
<1>5. row' = [row EXCEPT ![s] = q] /\ sample' = sample \cup {m} /\ doing' = [doing EXCEPT ![p] = Nothing] /\ UNCHANGED <<checkpoint, save>>
  BY DEF Samples
<1>6. m \in Samplings /\ m.session = s /\ m.tokens = d.tokens /\ m.level = d.level
  BY <1>1, <1>2 DEF Samplings
<1>7. q \in SessionRow
  BY <1>3 DEF AtLeast
<1> HIDE DEF q, m, d
<1>8. WritesIt(p, q, {m})
  BY <1>3, <1>4, <1>5, <1>6, <1>7 DEF WritesIt, d
<1> QED
  BY <1>6, <1>7, <1>8

\* So does an upsert.
LEMMA UpsertsStep ==
  ASSUME StoreType, NEW p \in Process, Upserts(p)
  PROVE  \E q \in SessionRow, S \in SUBSET Samplings : WritesIt(p, q, S)
<1> DEFINE s == SessionOf[p]
           q == IF row[s] = Nothing THEN [mark |-> Nothing, peak |-> 0] ELSE row[s]
<1>1. s \in Session /\ row[s] \in SessionRow \cup {Nothing}
  BY StoreAssumption DEF StoreType
<1>2. q \in SessionRow /\ Above(row[s], q)
  BY <1>1, NothingAssumption DEF SessionRow, Above, AtLeast, Level
<1>3. row' = [row EXCEPT ![s] = q] /\ doing[p] = Nothing /\ UNCHANGED <<sample, checkpoint, doing, save>>
  BY DEF Upserts, Free, Busy
<1>4. doing' = [doing EXCEPT ![p] = Nothing]
  BY <1>3 DEF StoreType
<1> HIDE DEF q
<1>5. WritesIt(p, q, {})
  BY <1>2, <1>3, <1>4 DEF WritesIt
<1> QED
  BY <1>2, <1>5

\* So does a touch.
LEMMA TouchesStep ==
  ASSUME StoreType, MarksInv, NEW p \in Process, Touches(p)
  PROVE  \E q \in SessionRow, S \in SUBSET Samplings : WritesIt(p, q, S)
<1> DEFINE d == doing[p]
           s == SessionOf[p]
           up == Raised(d.seen, Nothing, d.level)
           q == [mark |-> IF row[s] = Nothing THEN Nothing ELSE row[s].mark, peak |-> up.peak]
<1>1. d # Nothing /\ d \in MethodRow /\ s \in Session /\ row[s] \in SessionRow \cup {Nothing}
  BY StoreAssumption DEF Touches, StoreType
<1>2. d.seen \in SessionRow \cup {Nothing} /\ Nothing \in Maybe /\ d.level \in Level
  BY <1>1 DEF MethodRow, Maybe
<1>3. AtLeast(up, Nothing, d.level) /\ Above(d.seen, up)
  BY <1>2, RaisedRow
<1>4. storePlan.named => d.seen = row[s]
  BY <1>1 DEF MarksInv
<1>5. row' = [row EXCEPT ![s] = q] /\ sample' = sample /\ doing' = [doing EXCEPT ![p] = Nothing] /\ UNCHANGED <<checkpoint, save>>
  BY DEF Touches
<1> HIDE DEF up
<1>6. q \in SessionRow /\ (storePlan.named => Above(row[s], q))
  BY <1>1, <1>3, <1>4, NothingAssumption DEF SessionRow, Above, AtLeast
<1> HIDE DEF q, d
<1>7. WritesIt(p, q, {})
  BY <1>5, <1>6 DEF WritesIt
<1> QED
  BY <1>6, <1>7

\* A save begins with what it was given.
LEMMA BeginsStep ==
  ASSUME StoreType, NEW v \in Save, NEW used \in Nat, NEW level \in Level, SaveBegins(v, used, level)
  PROVE  \E r \in Saves : BeginsIt(v, r)
<1> DEFINE r == [save[v] EXCEPT !.pc = "embed", !.used = used, !.level = level, !.session = SessionFor(ProcessOf[v])]
<1>3. save[v] \in Saves /\ SessionFor(ProcessOf[v]) \in Session \cup {Nothing}
  BY StoreAssumption DEF StoreType, SessionFor
<1>1. r \in Saves
  BY <1>3 DEF Saves
<1>2. BeginsIt(v, r)
  BY <1>1 DEF BeginsIt, SaveBegins, SessionFor
<1> QED
  BY <1>1, <1>2

\* A save writes a row of its own.
LEMMA PersistsStep ==
  ASSUME StoreType, NEW v \in Save, SavePersists(v)
  PROVE  \E c \in CheckpointRow : PersistsIt(v, c)
<1> DEFINE r == save[v]
           c == [session |-> r.session, used |-> r.used, level |-> r.level, by |-> v]
           q == Raised(row[r.session], r.used, r.level)
<1>1. r.session \in Session \cup {Nothing} /\ r.used \in Nat /\ r.level \in Level
  BY DEF StoreType, Saves
<1>2. c \in CheckpointRow /\ c.session = r.session /\ c.used = r.used /\ c.level = r.level
  BY <1>1 DEF CheckpointRow
<1>3. /\ Free(ProcessOf[v]) /\ r.pc = "embed" /\ checkpoint' = [checkpoint EXCEPT ![IdOf[v]] = c]
      /\ row' = IF r.session = Nothing THEN row ELSE [row EXCEPT ![r.session] = q]
      /\ save' = [save EXCEPT ![v] = [@ EXCEPT !.pc = "delete", !.over = Contended(v)]] /\ UNCHANGED <<doing, sample>>
  BY DEF SavePersists
<1>4. CASE r.session = Nothing
  <2> HIDE DEF c, q
  <2> QED
    BY <1>2, <1>3, <1>4 DEF PersistsIt
<1>5. CASE r.session # Nothing
  <2>1. r.session \in Session /\ row[r.session] \in SessionRow \cup {Nothing} /\ r.used \in Maybe
    BY <1>1, <1>5 DEF StoreType, Maybe
  <2>2. AtLeast(q, r.used, r.level) /\ Above(row[r.session], q)
    BY <1>1, <2>1, RaisedRow
  <2>3. q \in SessionRow
    BY <2>2 DEF AtLeast
  <2> HIDE DEF c, q
  <2> QED
    BY <1>2, <1>3, <1>5, <2>1, <2>2, <2>3 DEF PersistsIt
<1> QED
  BY <1>4, <1>5

\* The steps of the store by what they write.
LEMMA StoreSteps ==
  ASSUME StoreType, MarksInv, IndexInv, UNCHANGED storeVars \/ StoreNext
  PROVE  \/ \E p \in Process, d \in MethodRow : ReadsIt(p, d)
         \/ \E p \in Process, q \in SessionRow, S \in SUBSET Samplings : WritesIt(p, q, S)
         \/ \E v \in Save, r \in Saves : BeginsIt(v, r)
         \/ \E v \in Save, c \in CheckpointRow : PersistsIt(v, c)
         \/ \E v \in Save, r \in Saves : MovesIt(v, r)
         \/ UNCHANGED <<row, doing, sample, checkpoint, save>>
<1>1. ASSUME NEW p \in Process, NEW m \in Measure, ReadsRow(p, "sample", m[1], m[2]) \/ ReadsRow(p, "touch", Nothing, m[2])
      PROVE  \E d \in MethodRow : ReadsIt(p, d)
  <2>1. m[1] \in Maybe /\ Nothing \in Maybe /\ m[2] \in Level
    BY StoreAssumption DEF Maybe
  <2> QED
    BY <1>1, <2>1, ReadsStep
<1>2. ASSUME NEW v \in Save, SaveDeletes(v) \/ SaveIndexes(v) \/ SaveInserts(v) \/ SaveFails(v)
      PROVE  \E r \in Saves : MovesIt(v, r)
  <2> DEFINE w(pc, ahead) == [save[v] EXCEPT !.pc = pc, !.ahead = ahead]
             waiting == {u \in Save : ProcessOf[u] = ProcessOf[v] /\ save[u].pc = "index"}
  <2>1. save[v] \in Saves
    BY DEF StoreType
  <2>2. \A ahead \in SUBSET Save : \A pc \in {"index", "insert", "done", "failed"} :
          w(pc, ahead) \in Saves /\ w(pc, ahead).pc = pc
    BY <2>1 DEF Saves
  <2>3. \E pc \in {"index", "insert", "done", "failed"}, ahead \in {{}, waiting} :
          save' = [save EXCEPT ![v] = w(pc, ahead)] /\ UNCHANGED <<row, doing, sample, checkpoint>>
    <3>1. SaveDeletes(v) => save' = [save EXCEPT ![v] = w("index", waiting)] /\ UNCHANGED <<row, doing, sample, checkpoint>>
      BY DEF SaveDeletes
    <3>2. SaveIndexes(v) => save' = [save EXCEPT ![v] = w("insert", {})] /\ UNCHANGED <<row, doing, sample, checkpoint>>
      BY DEF SaveIndexes
    <3>3. SaveFails(v) => save' = [save EXCEPT ![v] = w("failed", {})] /\ UNCHANGED <<row, doing, sample, checkpoint>>
      BY DEF SaveFails
    <3>4. SaveInserts(v) => /\ save' = [save EXCEPT ![v] = w("done", {})] \/ save' = [save EXCEPT ![v] = w("failed", {})]
                            /\ UNCHANGED <<row, doing, sample, checkpoint>>
      BY DEF SaveInserts
    <3> HIDE DEF w, waiting
    <3> QED
      BY <1>2, <3>1, <3>2, <3>3, <3>4
  <2>4. waiting \in SUBSET Save
    OBVIOUS
  <2> HIDE DEF w, waiting
  <2>5. PICK pc \in {"index", "insert", "done", "failed"}, ahead \in {{}, waiting} :
          save' = [save EXCEPT ![v] = w(pc, ahead)] /\ UNCHANGED <<row, doing, sample, checkpoint>>
    BY <2>3
  <2>6. MovesIt(v, w(pc, ahead)) /\ w(pc, ahead) \in Saves
    BY <2>2, <2>4, <2>5 DEF MovesIt
  <2> QED
    BY <2>6
<1>3. ASSUME NEW v \in Save, NEW m \in Measure, m[1] # Nothing, SaveBegins(v, m[1], m[2]) PROVE \E r \in Saves : BeginsIt(v, r)
  <2>1. m[1] \in Nat /\ m[2] \in Level
    BY <1>3, StoreAssumption
  <2> QED
    BY <1>3, <2>1, BeginsStep
<1>4. ASSUME NEW p \in Process, StoreDies(p) PROVE UNCHANGED <<row, doing, sample, checkpoint, save>>
  BY <1>4 DEF StoreDies
<1>5. UNCHANGED storeVars => UNCHANGED <<row, doing, sample, checkpoint, save>>
  BY DEF storeVars
<1> QED
  BY <1>1, <1>2, <1>3, <1>4, <1>5, SamplesStep, UpsertsStep, TouchesStep, PersistsStep DEF StoreNext

\* The latest session is a session.
LEMMA RecentSteps == ASSUME StoreType, UNCHANGED storeVars \/ StoreNext PROVE recent' \in Session \cup {Nothing}
<1>1. CASE UNCHANGED recent
  BY <1>1 DEF StoreType
<1>2. ASSUME NEW p \in Process, Samples(p) \/ Upserts(p) \/ Touches(p) PROVE recent' \in Session
  BY <1>2, StoreAssumption DEF Samples, Upserts, Touches
<1>3. ASSUME NEW v \in Save, SavePersists(v) PROVE recent' \in Session \cup {Nothing}
  BY <1>3 DEF SavePersists, StoreType, Saves
<1>4. UNCHANGED storeVars => UNCHANGED recent
  BY DEF storeVars
<1>5. ASSUME NEW v \in Save, SaveDeletes(v) \/ SaveIndexes(v) \/ SaveInserts(v) \/ SaveFails(v) PROVE UNCHANGED recent
  BY <1>5 DEF SaveDeletes, SaveIndexes, SaveInserts, SaveFails
<1>6. ASSUME NEW p \in Process, NEW kind, NEW t, NEW l, ReadsRow(p, kind, t, l) PROVE UNCHANGED recent
  BY <1>6 DEF ReadsRow
<1>7. ASSUME NEW v \in Save, NEW t, NEW l, SaveBegins(v, t, l) PROVE UNCHANGED recent
  BY <1>7 DEF SaveBegins
<1>8. ASSUME NEW p \in Process, StoreDies(p) PROVE UNCHANGED recent
  BY <1>8 DEF StoreDies
<1> QED
  BY <1>1, <1>2, <1>3, <1>4, <1>5, <1>6, <1>7, <1>8 DEF StoreNext

\* What is left of the plan, and whose rows are named.
LEMMA PlanSteps == ASSUME StoreType, UNCHANGED storeVars \/ StoreNext PROVE storePlan' \in Plans /\ storePlan'.named = storePlan.named
<1> USE DEF StoreType, Plans
<1>1. CASE UNCHANGED storePlan
  BY <1>1
<1>2. ASSUME NEW p \in Process, NEW kind, NEW t, NEW l, ReadsRow(p, kind, t, l) PROVE storePlan' \in Plans /\ storePlan'.named = storePlan.named
  BY <1>2 DEF ReadsRow
<1>3. ASSUME NEW p \in Process, Upserts(p) PROVE storePlan' \in Plans /\ storePlan'.named = storePlan.named
  BY <1>3 DEF Upserts
<1>5. ASSUME NEW v \in Save, SaveFails(v) PROVE storePlan' \in Plans /\ storePlan'.named = storePlan.named
  BY <1>5 DEF SaveFails
<1>4. UNCHANGED storeVars => UNCHANGED storePlan
  BY DEF storeVars
<1>6. ASSUME NEW v \in Save, SaveDeletes(v) \/ SaveIndexes(v) \/ SaveInserts(v) \/ SavePersists(v) PROVE UNCHANGED storePlan
  BY <1>6 DEF SaveDeletes, SaveIndexes, SaveInserts, SavePersists
<1>7. ASSUME NEW v \in Save, NEW t, NEW l, SaveBegins(v, t, l) PROVE UNCHANGED storePlan
  BY <1>7 DEF SaveBegins
<1>8. ASSUME NEW p \in Process, StoreDies(p) \/ Samples(p) \/ Touches(p) PROVE UNCHANGED storePlan
  BY <1>8 DEF StoreDies, Samples, Touches
<1> HIDE DEF StoreType, Plans
<1> QED
  BY <1>1, <1>2, <1>3, <1>4, <1>5, <1>6, <1>7, <1>8 DEF StoreNext

\* A row is at least itself.
LEMMA Reflexive == ASSUME NEW r \in SessionRow \cup {Nothing} PROVE Above(r, r)
<1> QED
  BY NothingAssumption DEF Above, AtLeast, SessionRow, Level

\* Every step keeps the types.
LEMMA StoreTypeNext == ASSUME StoreType, MarksInv, IndexInv, UNCHANGED storeVars \/ StoreNext PROVE StoreType'
<1>1. ASSUME NEW p \in Process, NEW d \in MethodRow, ReadsIt(p, d) PROVE StoreType'
  BY <1>1, RecentSteps, PlanSteps DEF StoreType, ReadsIt
<1>2. ASSUME NEW p \in Process, NEW q \in SessionRow, NEW S \in SUBSET Samplings, WritesIt(p, q, S) PROVE StoreType'
  BY <1>2, RecentSteps, PlanSteps DEF StoreType, WritesIt
<1>3. ASSUME NEW v \in Save, NEW r \in Saves, BeginsIt(v, r) PROVE StoreType'
  BY <1>3, RecentSteps, PlanSteps DEF StoreType, BeginsIt
<1>4. ASSUME NEW v \in Save, NEW c \in CheckpointRow, PersistsIt(v, c) PROVE StoreType'
  <2>5. Contended(v) \in BOOLEAN
    BY DEF Contended
  <2>1. save' \in [Save -> Saves]
    <3>1. save \in [Save -> Saves] /\ save[v] \in Saves
      BY DEF StoreType
    <3>2. save' = [save EXCEPT ![v] = [@ EXCEPT !.pc = "delete", !.over = Contended(v)]]
      BY <1>4 DEF PersistsIt
    <3>3. [save[v] EXCEPT !.pc = "delete", !.over = Contended(v)] \in Saves
      <4> DEFINE b == Contended(v)
      <4>1. b \in BOOLEAN
        BY <2>5
      <4> HIDE DEF b
      <4>2. [save[v] EXCEPT !.pc = "delete", !.over = b] \in Saves
        BY <3>1, <4>1 DEF Saves
      <4> QED
        BY <4>2 DEF b
    <3> QED
      BY <3>1, <3>2, <3>3
  <2>2. row' \in [Session -> SessionRow \cup {Nothing}]
    BY <1>4 DEF StoreType, PersistsIt
  <2>3. checkpoint' \in [CheckpointId -> CheckpointRow \cup {Nothing}] /\ UNCHANGED <<doing, sample>>
    BY <1>4 DEF StoreType, PersistsIt
  <2> QED
    BY <2>1, <2>2, <2>3, RecentSteps, PlanSteps DEF StoreType
<1>5. ASSUME NEW v \in Save, NEW r \in Saves, MovesIt(v, r) PROVE StoreType'
  BY <1>5, RecentSteps, PlanSteps DEF StoreType, MovesIt
<1>6. CASE UNCHANGED <<row, doing, sample, checkpoint, save>>
  BY <1>6, RecentSteps, PlanSteps DEF StoreType
<1> QED
  BY <1>1, <1>2, <1>3, <1>4, <1>5, <1>6, StoreSteps

\* Every step keeps the marks.
LEMMA MarksNext == ASSUME StoreType, MarksInv, IndexInv, UNCHANGED storeVars \/ StoreNext PROVE MarksInv'
<1> SUFFICES ASSUME storePlan.named, storePlan'.named = storePlan.named PROVE MarksInv'
  BY PlanSteps DEF MarksInv
<1> DEFINE Reads1 == \A p \in Process : doing[p] # Nothing => doing[p].seen = row[SessionOf[p]]
           Names1 == \A v \in Save : save[v].pc = "embed" => save[v].session = SessionOf[ProcessOf[v]]
           Samples1 == \A m \in sample : AtLeast(row[m.session], m.tokens, m.level)
           Saves1 == \A i \in CheckpointId : checkpoint[i] # Nothing /\ checkpoint[i].session # Nothing =>
                       AtLeast(row[checkpoint[i].session], checkpoint[i].used, checkpoint[i].level)
           Rises1 == \A s \in Session : Above(row[s], row'[s])
<1>1. Reads1 /\ Names1 /\ Samples1 /\ Saves1
  BY DEF MarksInv
<1>2. (Reads1 /\ Names1 /\ Samples1 /\ Saves1)' => MarksInv'
  BY DEF MarksInv
<1>3. \A m \in sample : m.session \in Session /\ m.tokens \in Maybe /\ m.level \in Level
  BY DEF StoreType, Samplings
<1>4. \A i \in CheckpointId : checkpoint[i] # Nothing => checkpoint[i].session \in Session \cup {Nothing} /\ checkpoint[i].used \in Maybe /\ checkpoint[i].level \in Level
  BY DEF StoreType, CheckpointRow, Maybe
<1>5. \A s \in Session : row[s] \in SessionRow \cup {Nothing}
  BY DEF StoreType
<1>6. Rises1 => \A m \in sample : AtLeast(row'[m.session], m.tokens, m.level)
  BY <1>1, <1>3, <1>5, AboveKeeps
<1>7. Rises1 => \A i \in CheckpointId : checkpoint[i] # Nothing /\ checkpoint[i].session # Nothing =>
                  AtLeast(row'[checkpoint[i].session], checkpoint[i].used, checkpoint[i].level)
  <2>1. ASSUME Rises1, NEW i \in CheckpointId, checkpoint[i] # Nothing, checkpoint[i].session # Nothing
        PROVE  AtLeast(row'[checkpoint[i].session], checkpoint[i].used, checkpoint[i].level)
    <3>1. checkpoint[i].session \in Session /\ checkpoint[i].used \in Maybe /\ checkpoint[i].level \in Level
      BY <1>4, <2>1
    <3>2. AtLeast(row[checkpoint[i].session], checkpoint[i].used, checkpoint[i].level)
      BY <1>1, <2>1
    <3> HIDE <1>1
    <3> QED
      BY <1>5, <2>1, <3>1, <3>2, AboveKeeps
  <2> QED
    BY <2>1
<1>8. UNCHANGED row => Rises1
  BY <1>5, Reflexive
<1>9. ASSUME NEW p \in Process, NEW d \in MethodRow, ReadsIt(p, d) PROVE MarksInv'
  BY <1>1, <1>2, <1>9 DEF ReadsIt, StoreType
<1>10. ASSUME NEW p \in Process, NEW q \in SessionRow, NEW S \in SUBSET Samplings, WritesIt(p, q, S) PROVE MarksInv'
  <2>1. SessionOf[p] \in Session /\ row'[SessionOf[p]] = q /\ (\A s \in Session : s # SessionOf[p] => row'[s] = row[s])
        /\ Above(row[SessionOf[p]], q) /\ sample' = sample \cup S /\ UNCHANGED <<checkpoint, save>>
    BY <1>10, StoreAssumption DEF WritesIt, StoreType
  <2>2. Rises1
    BY <1>5, <2>1, Reflexive
  <2>3. Samples1'
    <3>1. \A m \in S : AtLeast(row'[m.session], m.tokens, m.level)
      BY <1>10, <2>1 DEF WritesIt
    <3> QED
      BY <1>6, <2>1, <2>2, <3>1
  <2>4. Reads1'
    <3>1. doing'[p] = Nothing /\ \A o \in Process : o # p => doing'[o] = doing[o] /\ row'[SessionOf[o]] = row[SessionOf[o]]
      BY <1>10, <2>1, StoreAssumption, SessionAssumption DEF WritesIt, StoreType
    <3> QED
      BY <1>1, <3>1
  <2>5. Saves1'
    BY <1>7, <2>1, <2>2
  <2>6. Names1'
    BY <1>1, <2>1
  <2> QED
    BY <1>2, <2>3, <2>4, <2>5, <2>6
<1>11. ASSUME NEW v \in Save, NEW r \in Saves, BeginsIt(v, r) PROVE MarksInv'
  BY <1>1, <1>2, <1>11 DEF BeginsIt, StoreType
<1>12. ASSUME NEW v \in Save, NEW c \in CheckpointRow, PersistsIt(v, c) PROVE MarksInv'
  <2>1. /\ Free(ProcessOf[v]) /\ save[v].pc = "embed" /\ c.session = save[v].session /\ checkpoint' = [checkpoint EXCEPT ![IdOf[v]] = c]
        /\ save' = [save EXCEPT ![v] = [@ EXCEPT !.pc = "delete", !.over = Contended(v)]] /\ UNCHANGED <<doing, sample>>
    BY <1>12 DEF PersistsIt
  <2>2. c.session = SessionOf[ProcessOf[v]] /\ ProcessOf[v] \in Process /\ c.session \in Session
    BY <1>1, <2>1, StoreAssumption
  <2>3. Names1'
    BY <1>1, <2>1 DEF StoreType
  <2>4. CASE c.session = Nothing /\ UNCHANGED row
    <3>1. Samples1' /\ Reads1'
      BY <1>1, <2>1, <2>4
    <3>2. Saves1'
      BY <1>1, <2>1, <2>4 DEF StoreType
    <3> QED
      BY <1>2, <2>3, <3>1, <3>2
  <2>5. ASSUME NEW q \in SessionRow, Above(row[c.session], q), AtLeast(q, c.used, c.level), row' = [row EXCEPT ![c.session] = q]
        PROVE  MarksInv'
    <3>1. row'[c.session] = q /\ (\A s \in Session : s # c.session => row'[s] = row[s])
      BY <2>2, <2>5 DEF StoreType
    <3>2. Rises1
      BY <1>5, <2>2, <2>5, <3>1, Reflexive
    <3>3. Samples1'
      BY <1>6, <2>1, <3>2
    <3>4. Reads1'
      <4>1. ASSUME NEW p \in Process, doing'[p] # Nothing PROVE row'[SessionOf[p]] = row[SessionOf[p]]
        <5>1. p # ProcessOf[v] /\ SessionOf[p] \in Session
          BY <2>1, <4>1, StoreAssumption DEF Free, Busy
        <5> QED
          BY <2>2, <3>1, <5>1, SessionAssumption
      <4> QED
        BY <1>1, <2>1, <4>1
    <3>5. Saves1'
      <4>1. ASSUME NEW i \in CheckpointId, checkpoint'[i] # Nothing, checkpoint'[i].session # Nothing
            PROVE  AtLeast(row'[checkpoint'[i].session], checkpoint'[i].used, checkpoint'[i].level)
        <5>1. CASE i = IdOf[v]
          <6>1. checkpoint'[i] = c
            BY <2>1, <5>1 DEF StoreType
          <6> QED
            BY <2>5, <3>1, <6>1
        <5>2. CASE i # IdOf[v]
          <6>1. checkpoint'[i] = checkpoint[i]
            BY <2>1, <5>2 DEF StoreType
          <6> QED
            BY <1>7, <3>2, <4>1, <6>1
        <5> QED
          BY <5>1, <5>2
      <4> QED
        BY <4>1
    <3> QED
      BY <1>2, <2>3, <3>3, <3>4, <3>5
  <2> QED
    BY <1>12, <2>4, <2>5 DEF PersistsIt
<1>13. ASSUME NEW v \in Save, NEW r \in Saves, MovesIt(v, r) PROVE MarksInv'
  BY <1>1, <1>2, <1>13 DEF MovesIt, StoreType
<1>14. CASE UNCHANGED <<row, doing, sample, checkpoint, save>>
  BY <1>1, <1>2, <1>14
<1> QED
  BY <1>9, <1>10, <1>11, <1>12, <1>13, <1>14, StoreSteps

\* What a save v does to what is known of the other saves that wrote a row: nothing, as long
\* as it is no rival of theirs, or one that comes before them and goes on.
LEMMA OthersLast ==
  ASSUME NEW v \in Save, NEW w \in Save, v # w, FinalWriter(w), UNCHANGED dead,
         \A u \in Save : u # v => save'[u] = save[u],
         save'[v].pc \in Halfway => Rival(v, w) \/ IdOf[v] # IdOf[w],
         save'[v].pc \notin {"delete", "index"} \/ IdOf[v] # IdOf[w],
         save[w].pc = "done" => vector'[IdOf[w]] = vector[IdOf[w]]
  PROVE  FinalWriter(w)'
<1>1. save'[w] = save[w]
  OBVIOUS
<1>2. \A u \in Save : Rival(u, w)' => Rival(u, w)
  BY DEF Rival, Runs
<1>3. \A u \in Save : Rival(u, w)' /\ save'[u].pc \in {"delete", "index"} => u # v
  BY DEF Rival
<1> QED
  BY <1>1, <1>2, <1>3 DEF FinalWriter

\* The rows are as they were: what is known of their saves suffices.
LEMMA IndexKept ==
  ASSUME StoreType, IndexInv, NEW v \in Save, NEW r \in Saves, save' = [save EXCEPT ![v] = r], UNCHANGED <<checkpoint, dead>>,
         vector' \in [CheckpointId -> Save \cup {Nothing}],
         \A i \in CheckpointId : vector'[i] # Nothing => checkpoint[i] # Nothing,
         r.pc \in Halfway => save[v].pc \in Halfway,
         r.pc \in {"delete", "insert"} => \A u \in Save : ProcessOf[u] = ProcessOf[v] => save[u].pc \notin {"delete", "insert"},
         save[v].pc \in Halfway \cup {"done", "failed"} => r.pc \in Halfway \cup {"done", "failed"},
         r.over = save[v].over,
         \A w \in Save : FinalWriter(w) /\ (\E i \in CheckpointId : checkpoint[i] # Nothing /\ checkpoint[i].by = w) => FinalWriter(w)'
  PROVE  IndexInv'
<1>1. save'[v] = r /\ \A u \in Save : u # v => save'[u] = save[u]
  BY DEF StoreType
<1>2. \A u \in Save : save'[u].pc \in Halfway => checkpoint'[IdOf[u]] # Nothing
  BY <1>1 DEF IndexInv
<1>3. \A u, w \in Save : ProcessOf[u] = ProcessOf[w] /\ save'[u].pc \in {"delete", "insert"} /\ save'[w].pc \in {"delete", "insert"} => u = w
  BY <1>1 DEF IndexInv
<1>4. ASSUME NEW i \in CheckpointId, checkpoint[i] # Nothing
      PROVE  \E w \in Save : /\ checkpoint[i].by = w /\ IdOf[w] = i /\ save'[w].pc \in Halfway \cup {"done", "failed"}
                             /\ ~ save'[w].over => FinalWriter(w)'
  <2>1. PICK w \in Save : /\ checkpoint[i].by = w /\ IdOf[w] = i /\ save[w].pc \in Halfway \cup {"done", "failed"}
                          /\ ~ save[w].over => FinalWriter(w)
    BY <1>4 DEF IndexInv
  <2>2. save'[w].over = save[w].over /\ save'[w].pc \in Halfway \cup {"done", "failed"}
    BY <1>1, <2>1
  <2>3. FinalWriter(w) => FinalWriter(w)'
    BY <1>4, <2>1
  <2> QED
    BY <2>1, <2>2, <2>3
<1> QED
  BY <1>2, <1>3, <1>4 DEF IndexInv

\* A save begins, and is not one that wrote a row.
LEMMA IndexBegins ==
  ASSUME StoreType, IndexInv, NEW v \in Save, NEW used \in Nat, NEW level \in Level, SaveBegins(v, used, level)
  PROVE  IndexInv'
<1> DEFINE r == [save[v] EXCEPT !.pc = "embed", !.used = used, !.level = level, !.session = SessionFor(ProcessOf[v])]
<1>1. r \in Saves /\ r.pc = "embed" /\ r.over = save[v].over /\ save[v].pc = "idle" /\ save' = [save EXCEPT ![v] = r]
  BY StoreAssumption DEF StoreType, Saves, SessionFor, SaveBegins
<1>2. UNCHANGED <<checkpoint, dead, vector>>
  BY DEF SaveBegins
<1>3. save'[v] = r /\ \A u \in Save : u # v => save'[u] = save[u]
  BY <1>1 DEF StoreType
<1>4. ASSUME NEW w \in Save, FinalWriter(w), NEW i \in CheckpointId, checkpoint[i] # Nothing, checkpoint[i].by = w PROVE FinalWriter(w)'
  <2>1. v # w
    BY <1>1, <1>4 DEF IndexInv, Halfway
  <2> QED
    BY <1>1, <1>2, <1>3, <1>4, <2>1, OthersLast DEF Halfway
<1> HIDE DEF r
<1> QED
  BY <1>1, <1>2, <1>4, IndexKept DEF IndexInv, Halfway

\* A save deletes the old vector, and is queued behind those of its process.
LEMMA IndexDeletes == ASSUME StoreType, IndexInv, NEW v \in Save, SaveDeletes(v) PROVE IndexInv'
<1> DEFINE waiting == {u \in Save : ProcessOf[u] = ProcessOf[v] /\ save[u].pc = "index"}
           r == [save[v] EXCEPT !.pc = "index", !.ahead = waiting]
<1>1. /\ r \in Saves /\ r.pc = "index" /\ r.over = save[v].over /\ r.ahead = waiting
      /\ save[v].pc = "delete" /\ save' = [save EXCEPT ![v] = r]
  <2>1. save[v] \in Saves /\ waiting \in SUBSET Save
    BY DEF StoreType
  <2>2. save[v].pc = "delete" /\ save' = [save EXCEPT ![v] = r]
    BY DEF SaveDeletes
  <2>3. r \in Saves /\ r.pc = "index" /\ r.over = save[v].over /\ r.ahead = waiting
    <3> HIDE DEF waiting
    <3> QED
      BY <2>1 DEF Saves
  <2> QED
    BY <2>2, <2>3
<1>2. Runs(ProcessOf[v]) /\ vector' = [vector EXCEPT ![IdOf[v]] = Nothing] /\ UNCHANGED <<checkpoint, dead>>
  BY DEF SaveDeletes
<1>3. save'[v] = r /\ \A u \in Save : u # v => save'[u] = save[u]
  BY <1>1 DEF StoreType
<1>4. /\ vector' \in [CheckpointId -> Save \cup {Nothing}] /\ \A i \in CheckpointId : i # IdOf[v] => vector'[i] = vector[i]
      /\ \A i \in CheckpointId : vector'[i] # Nothing => vector[i] # Nothing
  BY <1>2 DEF IndexInv
<1>5. ASSUME NEW w \in Save, FinalWriter(w), NEW i \in CheckpointId, checkpoint[i] # Nothing, checkpoint[i].by = w PROVE FinalWriter(w)'
  <2>0. IdOf[w] \in CheckpointId /\ save[w].pc \in Halfway \cup {"done", "failed"}
    BY <1>5 DEF CheckpointId, IndexInv
  <2>1. CASE v = w
    <3>1. \A u \in Save : Rival(u, w)' => Rival(u, w) /\ save'[u] = save[u] /\ ProcessOf[u] = ProcessOf[w]
      BY <1>2, <1>3, <1>5, <2>1 DEF Rival, Runs, FinalWriter
    <3>3. \A u \in Save : Rival(u, w)' /\ save'[u].pc = "index" => u \in waiting
      BY <2>1, <3>1
    <3>4. save[w].pc = "delete"
      BY <1>1, <2>1
    <3>2. \A u \in Save : Rival(u, w)' => save'[u].pc # "delete"
      <4> HIDE DEF r, waiting
      <4> QED
        BY <1>5, <3>1, <3>4 DEF FinalWriter
    <3> HIDE DEF r, waiting
    <3> QED
      BY <1>1, <1>3, <2>1, <3>1, <3>2, <3>3 DEF FinalWriter
  <2>2. CASE v # w /\ IdOf[v] # IdOf[w]
    <3> HIDE DEF r
    <3> QED
      BY <1>2, <1>3, <1>4, <1>5, <2>0, <2>2, OthersLast
  <2>3. CASE v # w /\ IdOf[v] = IdOf[w]
    <3>1. Rival(v, w)
      BY <1>1, <1>2, <2>3 DEF Rival, Halfway
    <3>2. save[w].pc = "failed"
      BY <1>1, <1>5, <2>0, <3>1 DEF FinalWriter, Halfway
    <3>3. save'[w] = save[w] /\ \A u \in Save : Rival(u, w)' => Rival(u, w)
      BY <1>2, <1>3, <2>3, <3>1 DEF Rival, Runs
    <3> QED
      BY <1>5, <3>2, <3>3 DEF FinalWriter
  <2> QED
    BY <2>1, <2>2, <2>3
<1> HIDE DEF r, waiting
<1>6. \A i \in CheckpointId : vector'[i] # Nothing => checkpoint[i] # Nothing
  BY <1>4 DEF IndexInv
<1> QED
  BY <1>1, <1>2, <1>4, <1>5, <1>6, IndexKept DEF Halfway

\* A save whose turn has come is the last of its id, or there are others behind it.
LEMMA IndexIndexes == ASSUME StoreType, IndexInv, NEW v \in Save, SaveIndexes(v) PROVE IndexInv'
<1> DEFINE r == [save[v] EXCEPT !.pc = "insert", !.ahead = {}]
<1>1. /\ r \in Saves /\ r.pc = "insert" /\ r.over = save[v].over
      /\ save[v].pc = "index" /\ save' = [save EXCEPT ![v] = r]
  <2>1. save[v] \in Saves
    BY DEF StoreType
  <2>2. save[v].pc = "index" /\ save' = [save EXCEPT ![v] = r]
    BY DEF SaveIndexes, NextInLine
  <2>3. r \in Saves /\ r.pc = "insert" /\ r.over = save[v].over
    BY <2>1 DEF Saves
  <2> QED
    BY <2>2, <2>3
<1>2. /\ Free(ProcessOf[v]) /\ (\A u \in save[v].ahead : save[u].pc # "index")
      /\ vector' = [vector EXCEPT ![IdOf[v]] = Nothing] /\ UNCHANGED <<checkpoint, dead>>
  BY DEF SaveIndexes, NextInLine
<1>3. save'[v] = r /\ \A u \in Save : u # v => save'[u] = save[u]
  BY <1>1 DEF StoreType
<1>4. /\ vector' \in [CheckpointId -> Save \cup {Nothing}] /\ \A i \in CheckpointId : i # IdOf[v] => vector'[i] = vector[i]
      /\ \A i \in CheckpointId : vector'[i] # Nothing => vector[i] # Nothing
  BY <1>2 DEF IndexInv
<1>5. \A u \in Save : ProcessOf[u] = ProcessOf[v] => save[u].pc \notin {"delete", "insert"}
  BY <1>2 DEF Free, Busy
<1>6. ASSUME NEW w \in Save, FinalWriter(w), NEW i \in CheckpointId, checkpoint[i] # Nothing, checkpoint[i].by = w PROVE FinalWriter(w)'
  <2>0. IdOf[w] \in CheckpointId
    BY DEF CheckpointId
  <2>1. CASE v = w
    <3>1. \A u \in Save : ~ Rival(u, w)
      <4>1. ASSUME NEW u \in Save, Rival(u, w) PROVE FALSE
        <5>1. ProcessOf[u] = ProcessOf[w] /\ save[u].pc \in Halfway
          BY <1>6, <4>1 DEF FinalWriter, Rival
        <5>2. save[u].pc = "index"
          BY <1>5, <2>1, <5>1 DEF Halfway
        <5> QED
          BY <1>1, <1>2, <1>6, <2>1, <4>1, <5>2 DEF FinalWriter
      <4> QED
        BY <4>1
    <3>2. \A u \in Save : ~ Rival(u, w)'
      BY <1>2, <1>3, <2>1, <3>1 DEF Rival, Runs
    <3> HIDE DEF r
    <3> QED
      BY <1>1, <1>3, <2>1, <3>2 DEF FinalWriter
  <2>2. CASE v # w
    <3>1. Rival(v, w) \/ IdOf[v] # IdOf[w]
      BY <1>1, <1>2, <2>2 DEF Rival, Halfway, Free
    <3>2. save[w].pc = "done" => vector'[IdOf[w]] = vector[IdOf[w]]
      BY <1>4, <1>6, <2>0, <3>1 DEF FinalWriter
    <3> HIDE DEF r
    <3> QED
      BY <1>1, <1>2, <1>3, <1>6, <2>2, <3>1, <3>2, OthersLast
  <2> QED
    BY <2>1, <2>2
<1> HIDE DEF r
<1>7. \A i \in CheckpointId : vector'[i] # Nothing => checkpoint[i] # Nothing
  BY <1>4 DEF IndexInv
<1> QED
  BY <1>1, <1>2, <1>4, <1>5, <1>6, <1>7, IndexKept DEF Halfway

\* A save ends: well, with its vector in place, or not.
LEMMA IndexEnds ==
  ASSUME StoreType, IndexInv, NEW v \in Save, SaveInserts(v) \/ SaveFails(v)
  PROVE  IndexInv'
<1>1. PICK r \in Saves :
        /\ r.pc \in {"done", "failed"} /\ r.over = save[v].over /\ save' = [save EXCEPT ![v] = r]
        /\ r.pc = "done" => save[v].pc = "insert" /\ vector' = [vector EXCEPT ![IdOf[v]] = v]
        /\ r.pc = "failed" => UNCHANGED vector
  <2> DEFINE t(pc) == [save[v] EXCEPT !.pc = pc, !.ahead = {}]
  <2>1. save[v] \in Saves
    BY DEF StoreType
  <2>2. \A pc \in {"done", "failed"} : t(pc) \in Saves /\ t(pc).pc = pc /\ t(pc).over = save[v].over
    BY <2>1 DEF Saves
  <2>3. \/ save' = [save EXCEPT ![v] = t("failed")] /\ UNCHANGED vector
        \/ save' = [save EXCEPT ![v] = t("done")] /\ save[v].pc = "insert" /\ vector' = [vector EXCEPT ![IdOf[v]] = v]
    BY DEF SaveInserts, SaveFails
  <2> HIDE DEF t
  <2>4. CASE save' = [save EXCEPT ![v] = t("failed")] /\ UNCHANGED vector
    BY <2>2, <2>4
  <2>5. CASE save' = [save EXCEPT ![v] = t("done")] /\ save[v].pc = "insert" /\ vector' = [vector EXCEPT ![IdOf[v]] = v]
    BY <2>2, <2>5
  <2> QED
    BY <2>3, <2>4, <2>5
<1>2. UNCHANGED <<checkpoint, dead>> /\ Runs(ProcessOf[v]) /\ save[v].pc # "idle"
  BY DEF SaveInserts, SaveFails, NextInLine, Free
<1>3. save'[v] = r /\ \A u \in Save : u # v => save'[u] = save[u]
  BY <1>1 DEF StoreType
<1>4. IdOf[v] \in CheckpointId
  BY DEF CheckpointId
<1>5. /\ vector' \in [CheckpointId -> Save \cup {Nothing}]
      /\ \A i \in CheckpointId : i # IdOf[v] => vector'[i] = vector[i]
      /\ r.pc = "done" => vector'[IdOf[v]] = v
  BY <1>1, <1>4 DEF IndexInv
<1>6. \A i \in CheckpointId : vector'[i] # Nothing => checkpoint[i] # Nothing
  <2>1. CASE r.pc = "failed"
    BY <1>1, <2>1 DEF IndexInv
  <2>2. CASE r.pc = "done"
    <3>1. checkpoint[IdOf[v]] # Nothing
      BY <1>1, <2>2 DEF IndexInv, Halfway
    <3> QED
      BY <1>5, <3>1 DEF IndexInv
  <2> QED
    BY <1>1, <2>1, <2>2
<1>7. ASSUME NEW w \in Save, FinalWriter(w), NEW i \in CheckpointId, checkpoint[i] # Nothing, checkpoint[i].by = w PROVE FinalWriter(w)'
  <2>0. IdOf[w] \in CheckpointId
    BY DEF CheckpointId
  <2>1. CASE v = w
    <3>1. \A u \in Save : Rival(u, w)' => Rival(u, w)
      BY <1>1, <1>2, <1>3 DEF Rival, Runs, Halfway
    <3>2. r.pc = "done" => \A u \in Save : ~ Rival(u, w)
      BY <1>1, <1>7, <2>1 DEF FinalWriter
    <3> QED
      BY <1>1, <1>3, <1>5, <1>7, <2>1, <3>1, <3>2 DEF FinalWriter
  <2>2. CASE v # w
    <3>1. r.pc = "done" => Rival(v, w) \/ IdOf[v] # IdOf[w]
      BY <1>1, <1>2, <2>2 DEF Rival, Halfway
    <3>2. save[w].pc = "done" => vector'[IdOf[w]] = vector[IdOf[w]]
      BY <1>1, <1>5, <1>7, <2>0, <3>1 DEF FinalWriter
    <3> QED
      BY <1>1, <1>2, <1>3, <1>7, <2>2, <3>2, OthersLast DEF Halfway
  <2> QED
    BY <2>1, <2>2
<1> QED
  BY <1>1, <1>2, <1>5, <1>6, <1>7, IndexKept DEF Halfway

\* A save that commits has the row, and knows whether another process is half-way.
LEMMA IndexPersists == ASSUME StoreType, IndexInv, NEW v \in Save, SavePersists(v) PROVE IndexInv'
<1> DEFINE c == [session |-> save[v].session, used |-> save[v].used, level |-> save[v].level, by |-> v]
           i == IdOf[v]
<1>1. /\ Free(ProcessOf[v]) /\ save[v].pc = "embed" /\ checkpoint' = [checkpoint EXCEPT ![i] = c] /\ UNCHANGED <<vector, dead>>
      /\ save' = [save EXCEPT ![v] = [@ EXCEPT !.pc = "delete", !.over = Contended(v)]]
  BY DEF SavePersists
<1>2. i \in CheckpointId /\ c \in CheckpointRow /\ c.by = v /\ c # Nothing
  BY NothingAssumption DEF StoreType, Saves, CheckpointRow, CheckpointId
<1>3. /\ save'[v].pc = "delete" /\ save'[v].over = Contended(v)
      /\ \A u \in Save : u # v => save'[u] = save[u]
  <2>1. save[v] \in Saves /\ DOMAIN save = Save
    BY DEF StoreType
  <2>2. \A x : LET r == [save[v] EXCEPT !.pc = "delete", !.over = x] IN r.pc = "delete" /\ r.over = x
    BY <2>1 DEF Saves
  <2> QED
    BY <1>1, <2>1, <2>2
<1>4. checkpoint'[i] = c /\ \A n \in CheckpointId : n # i => checkpoint'[n] = checkpoint[n]
  BY <1>1, <1>2 DEF StoreType
<1> HIDE DEF c
<1>5. \A u \in Save : ProcessOf[u] = ProcessOf[v] => save[u].pc \notin {"delete", "insert"}
  BY <1>1 DEF Free, Busy
<1>6. \A u, w \in Save : ProcessOf[u] = ProcessOf[w] /\ save'[u].pc \in {"delete", "insert"} /\ save'[w].pc \in {"delete", "insert"} => u = w
  BY <1>3, <1>5 DEF IndexInv
<1>7. \A n \in CheckpointId : vector'[n] # Nothing => checkpoint'[n] # Nothing
  BY <1>1, <1>2, <1>4 DEF IndexInv
<1>8. \A u \in Save : save'[u].pc \in Halfway => checkpoint'[IdOf[u]] # Nothing
  <2>1. \A u \in Save : IdOf[u] \in CheckpointId
    BY DEF CheckpointId
  <2> QED
    BY <1>2, <1>3, <1>4, <2>1 DEF IndexInv
<1>9. ~ save'[v].over => FinalWriter(v)'
  <2> SUFFICES ASSUME ~ Contended(v) PROVE FinalWriter(v)'
    BY <1>3
  <2>1. \A u \in Save : Rival(u, v)' => Rival(u, v)
    BY <1>1, <1>3 DEF Rival, Runs
  <2>2. \A u \in Save : Rival(u, v) => ProcessOf[u] = ProcessOf[v]
    BY DEF Contended, Rival
  <2>3. \A u \in Save : Rival(u, v)' => save'[u].pc # "delete"
    BY <1>3, <1>5, <2>1, <2>2 DEF Rival
  <2> QED
    BY <1>3, <2>1, <2>2, <2>3 DEF FinalWriter
<1>10. ASSUME NEW n \in CheckpointId, checkpoint'[n] # Nothing
       PROVE  \E w \in Save : /\ checkpoint'[n].by = w /\ IdOf[w] = n /\ save'[w].pc \in Halfway \cup {"done", "failed"}
                              /\ ~ save'[w].over => FinalWriter(w)'
  <2>1. CASE n = i
    <3>1. checkpoint'[n].by = v /\ IdOf[v] = n
      BY <1>2, <1>4, <2>1
    <3>2. save'[v].pc \in Halfway
      BY <1>3 DEF Halfway
    <3> QED
      BY <1>9, <3>1, <3>2
  <2>2. CASE n # i
    <3>1. PICK w \in Save : /\ checkpoint[n].by = w /\ IdOf[w] = n /\ save[w].pc \in Halfway \cup {"done", "failed"}
                            /\ ~ save[w].over => FinalWriter(w)
      BY <1>4, <1>10, <2>2 DEF IndexInv
    <3>2. v # w /\ save'[w] = save[w] /\ checkpoint'[n].by = w
      BY <1>3, <1>4, <2>2, <3>1
    <3>3. FinalWriter(w) => FinalWriter(w)'
      <4>1. UNCHANGED <<vector, dead>> /\ IdOf[v] # IdOf[w]
        BY <1>1, <2>2, <3>1
      <4>2. \A u \in Save : u # v => save'[u] = save[u]
        BY <1>3
      <4> QED
        BY <3>1, <3>2, <4>1, <4>2, OthersLast
    <3> QED
      BY <3>1, <3>2, <3>3
  <2> QED
    BY <2>1, <2>2
<1> QED
  BY <1>1, <1>6, <1>7, <1>8, <1>10 DEF IndexInv

\* Every step keeps what the index says of the checkpoints.
LEMMA IndexNext == ASSUME StoreType, IndexInv, UNCHANGED storeVars \/ StoreNext PROVE IndexInv'
<1>1. ASSUME UNCHANGED <<checkpoint, vector, save>>, dead \subseteq dead' PROVE IndexInv'
  <2>1. \A u, w \in Save : Rival(u, w)' => Rival(u, w)
    BY <1>1 DEF Rival, Runs
  <2>2. \A w \in Save : FinalWriter(w) => FinalWriter(w)'
    BY <1>1, <2>1 DEF FinalWriter
  <2> QED
    BY <1>1, <2>2 DEF IndexInv
<1>2. ASSUME NEW p \in Process, StoreDies(p) PROVE IndexInv'
  BY <1>1, <1>2 DEF StoreDies
<1>3. UNCHANGED storeVars => UNCHANGED <<checkpoint, vector, save, dead>>
  BY DEF storeVars
<1>4. ASSUME NEW v \in Save, NEW m \in Measure, m[1] # Nothing, SaveBegins(v, m[1], m[2]) PROVE IndexInv'
  <2>1. m[1] \in Nat /\ m[2] \in Level
    BY <1>4, StoreAssumption
  <2> QED
    BY <1>4, <2>1, IndexBegins
<1> QED
  BY <1>1, <1>2, <1>3, <1>4, IndexPersists, IndexDeletes, IndexIndexes, IndexEnds DEF StoreNext, ReadsRow, Samples, Upserts, Touches

\* The property from its invariants.
LEMMA SessionsFollow == StoreType /\ MarksInv /\ IndexInv => SessionsHold
<1> SUFFICES ASSUME StoreType, MarksInv, IndexInv PROVE SessionsHold
  OBVIOUS
<1>1. MarksHold
  BY DEF MarksInv, MarksHold, AtLeast
<1>2. Indexed
  BY DEF Indexed, IndexInv, FinalWriter
<1> QED
  BY <1>1, <1>2 DEF SessionsHold

\* Whatever samples, touches and saves of checkpoints there are, in however many
\* processes and wherever they die: the marks of a session are never below what is
\* stored for it, and a save that ended well, and whose row is the stored one, has its
\* vector beside it, unless another process was half-way with the id when it wrote.
THEOREM SessionsAreKept == Spec => []SessionsHold
<1>1. Init => StoreType /\ MarksInv /\ IndexInv
  BY StoreStarts DEF Init
<1>2. StoreType /\ MarksInv /\ IndexInv /\ [Next]_vars => (StoreType /\ MarksInv /\ IndexInv)'
  BY Separate, StoreTypeNext, MarksNext, IndexNext
<1>3. StoreType /\ MarksInv /\ IndexInv => SessionsHold
  BY SessionsFollow
<1> QED
  BY <1>1, <1>2, <1>3, PTL DEF Spec

(***************************************************************************)
(* The work monitor.                                                       *)
(***************************************************************************)
Kinds == {"session-resumed", "stalled-session", "inbox-changed", "inbox-nonempty", "context-warning", "context-critical", "compaction-observed"}
Monitors == [active : BOOLEAN, lastEvent : Nat \cup {None}, count : Nat, recovered : BOOLEAN,
             pressure : {None, "nominal", "warning", "critical", "overflow"}, findings : Seq(Kinds)]
Refreshes == [pc : {"idle", "stack", "scan", "found"}, at : Nat, previous : Nat, count : Nat]

In(s, kind) == \E i \in DOMAIN s.findings : s.findings[i] = kind

\* One entry of a kind.
Single(s) == s \in Monitors /\ \A i, j \in DOMAIN s.findings : s.findings[i] = s.findings[j] => i = j

Agree(s) ==
  /\ In(s, "inbox-nonempty") <=> s.count > 0
  /\ ~ (In(s, "context-warning") /\ In(s, "context-critical"))
  /\ In(s, "compaction-observed") \/
       /\ In(s, "context-critical") <=> s.pressure \in {"critical", "overflow"}
       /\ In(s, "context-warning") <=> s.pressure = "warning"

MonitorInv == Single(monitor) /\ Agree(monitor)
MonitorType == time \in Nat /\ refresh \in [Refresh -> Refreshes]

\* The same but for the findings.
Beside(s, t) == /\ t.active = s.active /\ t.lastEvent = s.lastEvent /\ t.count = s.count
                /\ t.recovered = s.recovered /\ t.pressure = s.pressure

\* A finding that is recorded is there once.
LEMMA RecordedOne ==
  ASSUME NEW s, Single(s), NEW kind \in Kinds
  PROVE  /\ Single(Recorded(s, kind)) /\ Beside(s, Recorded(s, kind))
         /\ \A k \in Kinds : In(Recorded(s, kind), k) <=> In(s, k) \/ k = kind
<1> DEFINE f == s.findings
           g == Append(f, kind)
<1>1. f \in Seq(Kinds) /\ s \in Monitors
  BY DEF Single, Monitors
<1>2. CASE \E i \in DOMAIN f : f[i] = kind
  BY <1>2 DEF Recorded, Beside, In
<1>3. CASE ~ \E i \in DOMAIN f : f[i] = kind
  <2>1. /\ g \in Seq(Kinds) /\ Len(f) \in Nat /\ DOMAIN f = 1..Len(f) /\ DOMAIN g = 1..(Len(f) + 1)
        /\ g[Len(f) + 1] = kind /\ \A i \in 1..Len(f) : g[i] = f[i]
    BY <1>1, AppendProperties
  <2> HIDE DEF g
  <2>2. Recorded(s, kind) = [s EXCEPT !.findings = g]
    BY <1>3 DEF Recorded, g
  <2> DEFINE t == [s EXCEPT !.findings = g]
  <2>3. t \in Monitors /\ t.findings = g /\ Beside(s, t)
    BY <1>1, <2>1 DEF Monitors, Beside
  <2> HIDE DEF t
  <2>4. Single(t)
    <3>1. \A i, j \in DOMAIN f : f[i] = f[j] => i = j
      BY DEF Single
    <3> QED
      BY <1>3, <2>1, <2>3, <3>1 DEF Single
  <2>5. ASSUME NEW k \in Kinds PROVE In(t, k) <=> In(s, k) \/ k = kind
    <3>1. ASSUME In(t, k) PROVE In(s, k) \/ k = kind
      BY <2>1, <2>3, <3>1 DEF In
    <3>2. ASSUME In(s, k) PROVE In(t, k)
      BY <2>1, <2>3, <3>2 DEF In
    <3>3. ASSUME k = kind PROVE In(t, k)
      <4>1. Len(f) + 1 \in DOMAIN g /\ g[Len(f) + 1] = k
        BY <2>1, <3>3
      <4> QED
        BY <2>3, <4>1 DEF In
    <3> QED
      BY <3>1, <3>2, <3>3
  <2> QED
    BY <2>2, <2>3, <2>4, <2>5 DEF t
<1> QED
  BY <1>2, <1>3

\* What is left of a sequence without its n-th element.
LEMMA RemovedAt ==
  ASSUME NEW f \in Seq(Kinds), NEW n \in DOMAIN f
  PROVE  /\ RemoveAt(f, n) \in Seq(Kinds) /\ DOMAIN RemoveAt(f, n) = 1..(Len(f) - 1)
         /\ \A i \in 1..(Len(f) - 1) : RemoveAt(f, n)[i] = IF i < n THEN f[i] ELSE f[i + 1]
<1> DEFINE a == SubSeq(f, 1, n - 1)
           b == SubSeq(f, n + 1, Len(f))
<1>1. n \in 1..Len(f) /\ Len(f) \in Nat
  OBVIOUS
<1>2. a \in Seq(Kinds) /\ Len(a) = n - 1 /\ \A i \in 1..(n - 1) : a[i] = f[i]
  <2>1. \A i \in 1..(n - 1) : f[i] \in Kinds
    BY <1>1
  <2> QED
    BY <1>1, <2>1
<1>3. b \in Seq(Kinds) /\ Len(b) = Len(f) - n /\ \A i \in 1..(Len(f) - n) : b[i] = f[n + i]
  <2>1. \A i \in (n + 1)..Len(f) : f[i] \in Kinds
    BY <1>1
  <2> QED
    BY <1>1, <2>1
<1> HIDE DEF a, b
<1> DEFINE c == a \o b
<1>4. c \in Seq(Kinds) /\ Len(c) = Len(f) - 1 /\ \A i \in 1..(Len(f) - 1) : c[i] = IF i <= n - 1 THEN a[i] ELSE b[i - (n - 1)]
  BY <1>1, <1>2, <1>3
<1>5. RemoveAt(f, n) = c
  BY DEF RemoveAt, a, b
<1> HIDE DEF c
<1>6. ASSUME NEW i \in 1..(Len(f) - 1) PROVE c[i] = IF i < n THEN f[i] ELSE f[i + 1]
  <2>1. CASE i < n
    BY <1>1, <1>2, <1>4, <2>1
  <2>2. CASE i >= n
    <3>1. c[i] = b[i - (n - 1)] /\ i - (n - 1) \in 1..(Len(f) - n) /\ n + (i - (n - 1)) = i + 1
      BY <1>1, <1>4, <2>2
    <3> QED
      BY <1>1, <1>3, <2>2, <3>1
  <2> QED
    BY <1>1, <2>1, <2>2
<1>7. DOMAIN c = 1..(Len(f) - 1)
  BY <1>4
<1> QED
  BY <1>4, <1>5, <1>6, <1>7

\* A finding that is removed is there no more, and the others are.
LEMMA WithoutOne ==
  ASSUME NEW s, Single(s), NEW kind \in Kinds
  PROVE  /\ Single(Without(s, kind)) /\ Beside(s, Without(s, kind))
         /\ \A k \in Kinds : In(Without(s, kind), k) <=> In(s, k) /\ k # kind
<1> DEFINE f == s.findings
           at == {i \in DOMAIN f : f[i] = kind}
<1>1. f \in Seq(Kinds) /\ s \in Monitors /\ Len(f) \in Nat /\ DOMAIN f = 1..Len(f) /\ \A i, j \in DOMAIN f : f[i] = f[j] => i = j
  BY DEF Single, Monitors
<1>2. CASE at = {}
  BY <1>2 DEF Without, Beside, In
<1>3. CASE at # {}
  <2> DEFINE n == CHOOSE i \in at : \A j \in at : i <= j
  <2>1. n \in DOMAIN f /\ f[n] = kind
    <3>1. PICK i \in at : TRUE
      BY <1>3
    <3>2. \A j \in at : i <= j
      BY <1>1, <3>1
    <3> QED
      BY <3>1, <3>2
  <2> HIDE DEF n
  <2> DEFINE g == RemoveAt(f, n)
  <2>2. g \in Seq(Kinds) /\ DOMAIN g = 1..(Len(f) - 1) /\ \A i \in 1..(Len(f) - 1) : g[i] = IF i < n THEN f[i] ELSE f[i + 1]
    BY <1>1, <2>1, RemovedAt
  <2>3. Without(s, kind) = [s EXCEPT !.findings = g]
    BY <1>3 DEF Without, n
  <2> HIDE DEF g
  <2> DEFINE t == [s EXCEPT !.findings = g]
  <2>4. t \in Monitors /\ t.findings = g /\ Beside(s, t)
    BY <1>1, <2>2 DEF Monitors, Beside
  <2> HIDE DEF t
  <2>5. Single(t)
    <3>1. ASSUME NEW i \in DOMAIN g, NEW j \in DOMAIN g, g[i] = g[j] PROVE i = j
      <4> DEFINE q(k) == IF k < n THEN k ELSE k + 1
      <4>1. ASSUME NEW k \in DOMAIN g PROVE q(k) \in DOMAIN f /\ g[k] = f[q(k)]
        <5> DEFINE m == Len(f)
        <5>1. m \in Nat /\ DOMAIN f = 1..m /\ n \in 1..m /\ k \in 1..(m - 1)
          BY <1>1, <2>1, <2>2
        <5>2. g[k] = IF k < n THEN f[k] ELSE f[k + 1]
          BY <2>2, <5>1
        <5> HIDE DEF m, g, f
        <5> QED
          BY <5>1, <5>2
      <4>2. i \in Nat /\ j \in Nat /\ n \in Nat
        BY <1>1, <2>1, <2>2
      <4>3. q(i) = q(j)
        <5> HIDE DEF q
        <5> QED
          BY <1>1, <3>1, <4>1
      <4> QED
        BY <4>2, <4>3
    <3> QED
      BY <2>4, <3>1 DEF Single
  <2>6. ASSUME NEW k \in Kinds PROVE In(t, k) <=> In(s, k) /\ k # kind
    <3>1. ASSUME NEW i \in DOMAIN g PROVE g[i] # kind /\ In(s, g[i])
      <4>1. CASE i < n
        BY <1>1, <2>1, <2>2, <4>1 DEF In
      <4>2. CASE i >= n
        <5>1. i + 1 \in DOMAIN f /\ g[i] = f[i + 1] /\ i + 1 # n
          BY <1>1, <2>1, <2>2, <4>2
        <5> QED
          BY <1>1, <2>1, <5>1 DEF In
      <4> QED
        BY <1>1, <2>1, <2>2, <4>1, <4>2
    <3>2. ASSUME NEW i \in DOMAIN f, f[i] = k, k # kind PROVE \E j \in DOMAIN g : g[j] = k
      <4>1. CASE i < n
        BY <1>1, <2>1, <2>2, <3>2, <4>1
      <4>2. CASE i > n
        <5>1. i - 1 \in DOMAIN g /\ g[i - 1] = f[i]
          BY <1>1, <2>1, <2>2, <4>2
        <5> QED
          BY <3>2, <5>1
      <4>3. i # n
        BY <2>1, <3>2
      <4> QED
        BY <1>1, <2>1, <4>1, <4>2, <4>3
    <3> QED
      BY <2>4, <3>1, <3>2 DEF In
  <2> QED
    BY <2>3, <2>4, <2>5, <2>6 DEF t
<1> QED
  BY <1>2, <1>3

\* A finding is due from 90 percent on.
LEMMA PressureIs ==
  ASSUME NEW percent \in Nat
  PROVE  /\ Pressure(percent) \in {"nominal", "warning", "critical", "overflow"}
         /\ Pressure(percent) \in {"critical", "overflow"} <=> percent >= 90
         /\ Pressure(percent) = "warning" <=> percent \in 70..89
<1> QED
  BY DEF Pressure

\* A measure changes the pressure and no finding.
LEMMA MeasuredOne ==
  ASSUME NEW s, Single(s), NEW percent \in Nat, time \in Nat
  PROVE  LET t == Measured(s, percent) IN
         /\ Single(t) /\ t.findings = s.findings /\ t.count = s.count /\ t.pressure = Pressure(percent)
<1> DEFINE t == [s EXCEPT !.lastEvent = time, !.pressure = Pressure(percent),
                          !.recovered = s.recovered \/ (s.pressure \notin {None, "nominal"} /\ Pressure(percent) = "nominal")]
<1>1. s \in Monitors /\ \A i, j \in DOMAIN s.findings : s.findings[i] = s.findings[j] => i = j
  BY DEF Single
<1>2. Pressure(percent) \in {None, "nominal", "warning", "critical", "overflow"}
  BY PressureIs
<1>3. t \in Monitors /\ t.findings = s.findings /\ t.count = s.count /\ t.pressure = Pressure(percent)
  <2> DEFINE b == s.recovered \/ (s.pressure \notin {None, "nominal"} /\ Pressure(percent) = "nominal")
  <2>1. b \in BOOLEAN
    BY <1>1 DEF Monitors
  <2> HIDE DEF b
  <2> QED
    BY <1>1, <1>2, <2>1 DEF Monitors
<1> QED
  BY <1>1, <1>3 DEF Single, Measured

\* A measure brings findings and pressure into agreement.
LEMMA SyncedAgrees ==
  ASSUME NEW s, Single(s), Agree(s), NEW percent \in Nat, time \in Nat
  PROVE  Single(Synced(s, percent)) /\ Agree(Synced(s, percent))
<1> DEFINE t == [Measured(s, percent) EXCEPT !.active = TRUE]
<1>1. Single(t) /\ t.findings = s.findings /\ t.count = s.count /\ t.pressure = Pressure(percent)
  <2> DEFINE m == Measured(s, percent)
  <2>1. Single(m) /\ m.findings = s.findings /\ m.count = s.count /\ m.pressure = Pressure(percent)
    BY MeasuredOne
  <2> HIDE DEF m
  <2> DEFINE u == [m EXCEPT !.active = TRUE]
  <2>2. u \in Monitors /\ u.findings = m.findings /\ u.count = m.count /\ u.pressure = m.pressure
    BY <2>1 DEF Single, Monitors
  <2>3. Single(u)
    BY <2>1, <2>2 DEF Single
  <2> QED
    BY <2>1, <2>2, <2>3 DEF m
<1> HIDE DEF t
<1>2. \A k \in Kinds : In(t, k) <=> In(s, k)
  BY <1>1 DEF In
<1> DEFINE w == "context-warning"
           c == "context-critical"
           a == Without(t, w)
           b == Without(t, c)
<1>3. w \in Kinds /\ c \in Kinds
  BY DEF Kinds
<1>4. CASE percent >= 90
  <2>1. Synced(s, percent) = Recorded(a, c)
    BY <1>4 DEF Synced, t
  <2>2. Single(a) /\ Beside(t, a) /\ \A k \in Kinds : In(a, k) <=> In(t, k) /\ k # w
    BY <1>1, <1>3, WithoutOne
  <2> HIDE DEF a
  <2> DEFINE z == Recorded(a, c)
  <2>3. Single(z) /\ Beside(a, z) /\ \A k \in Kinds : In(z, k) <=> In(a, k) \/ k = c
    BY <1>3, <2>2, RecordedOne
  <2> HIDE DEF z
  <2>4. Agree(z)
    BY <1>1, <1>2, <1>4, <2>2, <2>3, PressureIs DEF Agree, Beside, Kinds
  <2> QED
    BY <2>1, <2>3, <2>4 DEF z
<1>5. CASE percent \in 70..89
  <2>1. Synced(s, percent) = Recorded(b, w)
    BY <1>5 DEF Synced, t
  <2>2. Single(b) /\ Beside(t, b) /\ \A k \in Kinds : In(b, k) <=> In(t, k) /\ k # c
    BY <1>1, <1>3, WithoutOne
  <2> HIDE DEF b
  <2> DEFINE z == Recorded(b, w)
  <2>3. Single(z) /\ Beside(b, z) /\ \A k \in Kinds : In(z, k) <=> In(b, k) \/ k = w
    BY <1>3, <2>2, RecordedOne
  <2> HIDE DEF z
  <2>4. Agree(z)
    BY <1>1, <1>2, <1>5, <2>2, <2>3, PressureIs DEF Agree, Beside, Kinds
  <2> QED
    BY <2>1, <2>3, <2>4 DEF z
<1>6. CASE ~ (percent >= 90) /\ percent \notin 70..89
  <2>1. Synced(s, percent) = Without(a, c)
    BY <1>6 DEF Synced, t
  <2>2. Single(a) /\ Beside(t, a) /\ \A k \in Kinds : In(a, k) <=> In(t, k) /\ k # w
    BY <1>1, <1>3, WithoutOne
  <2> HIDE DEF a
  <2> DEFINE z == Without(a, c)
  <2>3. Single(z) /\ Beside(a, z) /\ \A k \in Kinds : In(z, k) <=> In(a, k) /\ k # c
    BY <1>3, <2>2, WithoutOne
  <2> HIDE DEF z
  <2>4. Agree(z)
    BY <1>1, <1>2, <1>6, <2>2, <2>3, PressureIs DEF Agree, Beside, Kinds
  <2> QED
    BY <2>1, <2>3, <2>4 DEF z
<1> QED
  BY <1>4, <1>5, <1>6

\* Kinds that say nothing of the count or of the pressure.
LEMMA RecordedAgrees ==
  ASSUME NEW s, Single(s), Agree(s), NEW kind \in {"session-resumed", "stalled-session", "inbox-changed", "compaction-observed"}
  PROVE  Single(Recorded(s, kind)) /\ Agree(Recorded(s, kind))
<1> DEFINE z == Recorded(s, kind)
<1>1. kind \in Kinds
  BY DEF Kinds
<1>2. Single(z) /\ Beside(s, z) /\ \A k \in Kinds : In(z, k) <=> In(s, k) \/ k = kind
  BY <1>1, RecordedOne
<1> HIDE DEF z
<1>3. Agree(z)
  BY <1>2 DEF Agree, Beside, Kinds
<1> QED
  BY <1>2, <1>3 DEF z

\* A stall adds a finding that nothing is shown beside.
LEMMA StalledAgrees == ASSUME NEW s, Single(s), Agree(s) PROVE Single(Stalled(s)) /\ Agree(Stalled(s))
<1> QED
  BY RecordedAgrees DEF Stalled

\* A count brings findings and inbox into agreement.
LEMMA CountedAgrees ==
  ASSUME NEW s, Single(s), Agree(s), NEW w \in Refreshes
  PROVE  Single(Counted(s, w)) /\ Agree(Counted(s, w))
<1> DEFINE changed == IF w.previous # w.count THEN Recorded(s, "inbox-changed") ELSE s
           t == [changed EXCEPT !.count = w.count, !.active = TRUE, !.lastEvent = w.at]
           full == "inbox-nonempty"
<1>1. Single(changed) /\ Agree(changed)
  BY RecordedAgrees
<1> HIDE DEF changed
<1>2. t \in Monitors /\ t.findings = changed.findings /\ t.pressure = changed.pressure /\ t.count = w.count /\ w.count \in Nat
  BY <1>1 DEF Single, Monitors, Refreshes
<1>3. Single(t) /\ \A k \in Kinds : In(t, k) <=> In(changed, k)
  BY <1>1, <1>2 DEF Single, In
<1> HIDE DEF t
<1>4. full \in Kinds
  BY DEF Kinds
<1>5. CASE w.count > 0
  <2> DEFINE z == Recorded(t, full)
  <2>1. Single(z) /\ Beside(t, z) /\ \A k \in Kinds : In(z, k) <=> In(t, k) \/ k = full
    BY <1>3, <1>4, RecordedOne
  <2> HIDE DEF z
  <2>2. Agree(z)
    BY <1>1, <1>2, <1>3, <1>5, <2>1 DEF Agree, Beside, Kinds
  <2> QED
    BY <1>5, <2>1, <2>2 DEF Counted, z, t, changed
<1>6. CASE ~ (w.count > 0)
  <2> DEFINE z == Without(t, full)
  <2>1. Single(z) /\ Beside(t, z) /\ \A k \in Kinds : In(z, k) <=> In(t, k) /\ k # full
    BY <1>3, <1>4, WithoutOne
  <2> HIDE DEF z
  <2>2. Agree(z)
    BY <1>1, <1>2, <1>3, <1>6, <2>1 DEF Agree, Beside, Kinds
  <2> QED
    BY <1>6, <2>1, <2>2 DEF Counted, z, t, changed
<1> QED
  BY <1>5, <1>6

\* A change of the monitor that is not about its findings, its count or its pressure.
LEMMA BesideAgrees ==
  ASSUME NEW s, Single(s), Agree(s), NEW t \in Monitors, t.findings = s.findings, t.count = s.count, t.pressure = s.pressure
  PROVE  Single(t) /\ Agree(t)
<1> QED
  BY DEF Single, Agree, In

\* A fresh monitor has nothing to agree about.
LEMMA FreshAgrees == ASSUME NEW t \in Monitors, t.findings = <<>>, t.count = 0, t.pressure = None PROVE Single(t) /\ Agree(t)
<1> QED
  BY RalphAssumption DEF Single, Agree, In

\* A monitor that begins.
LEMMA FreshMonitor ==
  ASSUME NEW n \in Nat
  PROVE  Fresh(n) \in Monitors /\ Fresh(n).findings = <<>> /\ Fresh(n).count = 0 /\ Fresh(n).pressure = None
<1> DEFINE none == <<>>
           yes == TRUE
           no == FALSE
           s == [active |-> yes, lastEvent |-> n, count |-> 0, pressure |-> None, recovered |-> no, findings |-> none]
<1>1. none \in Seq(Kinds) /\ yes \in BOOLEAN /\ no \in BOOLEAN
  OBVIOUS
<1>2. Fresh(n) = s
  BY DEF Fresh
<1> HIDE DEF none, yes, no
<1>3. s \in Monitors /\ s.findings = none /\ s.count = 0 /\ s.pressure = None
  BY <1>1 DEF Monitors
<1> HIDE DEF s
<1> QED
  BY <1>2, <1>3 DEF none

RalphInv == MonitorType /\ MonitorInv /\ IsFiniteSet(DOMAIN inbox)

\* The invariants of the monitor hold at first.
LEMMA RalphStarts == ScribeInit /\ RalphInit => RalphInv
<1> SUFFICES ASSUME ScribeInit, RalphInit PROVE RalphInv
  OBVIOUS
<1>1. MonitorType
  BY DEF RalphInit, MonitorType, Refreshes, NoRefresh
<1>2. DOMAIN inbox = {}
  BY DEF ScribeInit
<1>3. monitor \in Monitors /\ monitor.findings = <<>> /\ monitor.count = 0 /\ monitor.pressure = None
  BY FreshMonitor DEF RalphInit
<1>4. Single(monitor) /\ Agree(monitor)
  BY <1>3, FreshAgrees, Zenon
<1>5. MonitorInv
  BY <1>4, Zenon DEF MonitorInv
<1> QED
  BY <1>1, <1>2, <1>5, FS_EmptySet DEF RalphInv

\* The inbox stays finite, so it has a count.
LEMMA InboxFinite == ASSUME IsFiniteSet(DOMAIN inbox), UNCHANGED scribeVars \/ ScribeNext PROVE IsFiniteSet((DOMAIN inbox)')
<1>1. ASSUME NEW d \in Decision, OpenDraft(d) PROVE IsFiniteSet((DOMAIN inbox)')
  <2>1. (DOMAIN inbox)' = DOMAIN inbox \cup {FileOf[d]}
    BY <1>1 DEF OpenDraft
  <2> QED
    BY <2>1, FS_AddElement
<1>2. ASSUME (DOMAIN inbox)' \subseteq DOMAIN inbox PROVE IsFiniteSet((DOMAIN inbox)')
  BY <1>2, FS_Subset
<1>3. ASSUME NEW d \in Decision, WriteDraft(d) PROVE (DOMAIN inbox)' \subseteq DOMAIN inbox
  BY <1>3 DEF WriteDraft
<1>4. ASSUME NEW m \in Merge, Unlink(m) PROVE (DOMAIN inbox)' \subseteq DOMAIN inbox
  BY <1>4 DEF Unlink
<1>5. UNCHANGED inbox => (DOMAIN inbox)' \subseteq DOMAIN inbox
  OBVIOUS
<1>6. UNCHANGED scribeVars => UNCHANGED inbox
  BY DEF scribeVars
<1> QED
  BY <1>1, <1>2, <1>3, <1>4, <1>5, <1>6 DEF ScribeNext, ListInbox, FindTarget, CreateTarget, Read, AppendText, EndMerge, MergeDies

\* A refresh that begins changes no finding.
LEMMA BeginsAgrees ==
  ASSUME MonitorType, NEW r \in Refresh, NEW s, Single(s), Agree(s), Begins(r, s), UNCHANGED time
  PROVE  MonitorType' /\ MonitorInv'
<1>1. MonitorInv'
  BY StalledAgrees DEF Begins, MonitorInv
<1>2. MonitorType'
  BY DEF Begins, MonitorType, Refreshes, NoRefresh
<1> QED
  BY <1>1, <1>2

\* Every step keeps findings, count and pressure in agreement.
LEMMA RalphSteps == ASSUME RalphInv, RalphNext PROVE MonitorType' /\ MonitorInv'
<1>1. MonitorType /\ MonitorInv /\ Single(monitor) /\ Agree(monitor) /\ time \in Nat
  BY DEF RalphInv, MonitorInv, MonitorType
<1>2. monitor \in Monitors
  BY <1>1 DEF Single
<1>3. ASSUME NEW r \in Refresh, NEW resumed \in BOOLEAN, SessionStarts(r, resumed) PROVE MonitorType' /\ MonitorInv'
  <2> DEFINE s == Fresh(time)
  <2>1. s \in Monitors /\ s.findings = <<>> /\ s.count = 0 /\ s.pressure = None
    BY <1>1, FreshMonitor
  <2>2. Single(s) /\ Agree(s)
    BY <2>1, FreshAgrees
  <2>3. Begins(r, IF resumed THEN Recorded(s, "session-resumed") ELSE s) /\ UNCHANGED time
    BY <1>3 DEF SessionStarts
  <2> HIDE DEF s
  <2>4. CASE resumed
    BY <1>1, <2>2, <2>3, <2>4, RecordedAgrees, BeginsAgrees
  <2>5. CASE ~ resumed
    BY <1>1, <2>2, <2>3, <2>5, BeginsAgrees
  <2> QED
    BY <2>4, <2>5
<1>4. ASSUME NEW r \in Refresh, AgentHook(r) PROVE MonitorType' /\ MonitorInv'
  BY <1>1, <1>4, BeginsAgrees DEF AgentHook
<1>5. ASSUME NEW r \in Refresh, GotStack(r) PROVE MonitorType' /\ MonitorInv'
  <2>1. monitor.count \in Nat
    BY <1>2 DEF Monitors
  <2>2. MonitorType'
    BY <1>1, <1>5, <2>1 DEF GotStack, MonitorType, Refreshes
  <2> QED
    BY <1>1, <1>5, <2>2 DEF GotStack, MonitorInv
<1>6. ASSUME NEW r \in Refresh, Scans(r) PROVE MonitorType' /\ MonitorInv'
  <2>1. Cardinality(DOMAIN inbox) \in Nat
    BY FS_CardinalityType DEF RalphInv
  <2>2. MonitorType'
    BY <1>1, <1>6, <2>1 DEF Scans, MonitorType, Refreshes
  <2> QED
    BY <1>1, <1>6, <2>2 DEF Scans, MonitorInv
<1>7. ASSUME NEW r \in Refresh, RefreshEnds(r) PROVE MonitorType' /\ MonitorInv'
  <2>1. refresh[r] \in Refreshes /\ NoRefresh \in Refreshes
    BY <1>1 DEF MonitorType, NoRefresh, Refreshes
  <2>2. MonitorInv'
    BY <1>1, <1>7, <2>1, CountedAgrees DEF RefreshEnds, MonitorInv
  <2>3. MonitorType'
    BY <1>1, <1>7, <2>1 DEF RefreshEnds, Ended, MonitorType
  <2> QED
    BY <2>2, <2>3
<1>8. ASSUME NEW r \in Refresh, RefreshFails(r) PROVE MonitorType' /\ MonitorInv'
  <2>1. NoRefresh \in Refreshes
    BY DEF NoRefresh, Refreshes
  <2>2. MonitorType'
    BY <1>1, <1>8, <2>1 DEF RefreshFails, Ended, MonitorType
  <2> QED
    BY <1>1, <1>8, <2>2 DEF RefreshFails, MonitorInv
<1>9. CASE HookTimesOut
  BY <1>1, <1>9 DEF HookTimesOut, MonitorType, MonitorInv
<1>10. CASE TimePasses
  BY <1>1, <1>10 DEF TimePasses, MonitorType, MonitorInv
<1>11. CASE Stops
  <2> DEFINE t == [monitor EXCEPT !.active = FALSE, !.lastEvent = time]
  <2>1. t \in Monitors /\ t.findings = monitor.findings /\ t.count = monitor.count /\ t.pressure = monitor.pressure
    BY <1>1, <1>2 DEF Monitors
  <2>2. Single(t) /\ Agree(t)
    BY <1>1, <2>1, BesideAgrees
  <2> QED
    BY <1>1, <1>11, <2>2 DEF Stops, MonitorType, MonitorInv
<1>12. ASSUME NEW p \in Percent \cup {None}, TurnEnds(p) PROVE MonitorType' /\ MonitorInv'
  <2>1. CASE p = None
    <3> DEFINE t == [monitor EXCEPT !.active = TRUE, !.lastEvent = time]
    <3>1. t \in Monitors /\ t.findings = monitor.findings /\ t.count = monitor.count /\ t.pressure = monitor.pressure
      BY <1>1, <1>2 DEF Monitors
    <3>2. Single(t) /\ Agree(t)
      BY <1>1, <3>1, BesideAgrees
    <3> QED
      BY <1>1, <1>12, <2>1, <3>2 DEF TurnEnds, MonitorType, MonitorInv
  <2>2. CASE p # None
    <3>1. p \in Nat
      BY <2>2, RalphAssumption
    <3>2. Single(Synced(monitor, p)) /\ Agree(Synced(monitor, p))
      BY <1>1, <3>1, SyncedAgrees
    <3> QED
      BY <1>1, <1>12, <2>2, <3>2 DEF TurnEnds, MonitorType, MonitorInv
  <2> QED
    BY <2>1, <2>2
<1>13. ASSUME NEW p \in Percent, Assessed(p) PROVE MonitorType' /\ MonitorInv'
  <2>1. p \in Nat
    BY RalphAssumption
  <2>2. Single(Synced(monitor, p)) /\ Agree(Synced(monitor, p))
    BY <1>1, <2>1, SyncedAgrees
  <2> QED
    BY <1>1, <1>13, <2>2 DEF Assessed, MonitorType, MonitorInv
<1>14. ASSUME NEW p \in Percent \cup {None}, Compacts(p) PROVE MonitorType' /\ MonitorInv'
  <2> DEFINE s == [monitor EXCEPT !.active = TRUE, !.lastEvent = time]
             t == IF p = None THEN s ELSE Measured(s, p)
             kind == "compaction-observed"
             z == Recorded(t, kind)
  <2>1. Single(s) /\ Agree(s) /\ s.count = monitor.count /\ s.findings = monitor.findings
    <3>1. s \in Monitors /\ s.findings = monitor.findings /\ s.count = monitor.count /\ s.pressure = monitor.pressure
      BY <1>1, <1>2 DEF Monitors
    <3> QED
      BY <1>1, <3>1, BesideAgrees
  <2>2. Single(t) /\ t.findings = s.findings /\ t.count = s.count
    <3>1. p # None => p \in Nat
      BY RalphAssumption
    <3> HIDE DEF s
    <3> QED
      BY <1>1, <2>1, <3>1, MeasuredOne
  <2> HIDE DEF s, t
  <2>3. kind \in Kinds
    BY DEF Kinds
  <2>4. Single(z) /\ Beside(t, z) /\ \A k \in Kinds : In(z, k) <=> In(t, k) \/ k = kind
    BY <2>2, <2>3, RecordedOne
  <2> HIDE DEF z
  <2>5. Agree(z)
    <3>1. \A k \in Kinds : In(t, k) <=> In(s, k)
      BY <2>2 DEF In
    <3> QED
      BY <2>1, <2>2, <2>4, <3>1 DEF Agree, Beside, Kinds
  <2>6. monitor' = z /\ UNCHANGED <<time, refresh>>
    BY <1>14 DEF Compacts, z, t, s
  <2> QED
    BY <1>1, <2>4, <2>5, <2>6 DEF MonitorType, MonitorInv
<1> QED
  BY <1>3, <1>4, <1>5, <1>6, <1>7, <1>8, <1>9, <1>10, <1>11, <1>12, <1>13, <1>14 DEF RalphNext

\* The property from its invariants.
LEMMA FindingsFollow == RalphInv => FindingsAgree
<1> QED
  BY DEF RalphInv, MonitorInv, Single, Agree, In, Has, FindingsAgree

\* However refreshes, hooks, measures and stops follow or overlap each other, and
\* whatever the scribe does to the inbox meanwhile: the monitor keeps one finding
\* of a kind, says that the inbox is not empty exactly while the count beside it is
\* not 0, and of the pressure what it shows, until a compaction is observed.
THEOREM FindingsAreRight == Spec => []FindingsAgree
<1>1. Init => RalphInv
  BY RalphStarts DEF Init
<1>2. RalphInv /\ [Next]_vars => RalphInv'
  <2> SUFFICES ASSUME RalphInv, [Next]_vars PROVE RalphInv'
    OBVIOUS
  <2>1. IsFiniteSet((DOMAIN inbox)')
    BY Separate, InboxFinite DEF RalphInv
  <2>2. MonitorType' /\ MonitorInv'
    <3>1. UNCHANGED ralphVars => MonitorType' /\ MonitorInv'
      BY DEF RalphInv, ralphVars, MonitorType, MonitorInv
    <3> QED
      BY <3>1, Separate, RalphSteps
  <2> QED
    BY <2>1, <2>2 DEF RalphInv
<1>3. RalphInv => FindingsAgree
  BY FindingsFollow
<1> QED
  BY <1>1, <1>2, <1>3, PTL DEF Spec

(***************************************************************************)
(* Routing.  The rows of a table have an order, so that every one of them  *)
(* has a place of its own and every place is that of one row.              *)
(***************************************************************************)
Rows(rules) == Len(rules) \in Nat /\ DOMAIN rules = 1..Len(rules) /\ \A i \in DOMAIN rules : rules[i].priority \in Int
Ahead(rules, i) == {j \in DOMAIN rules : Before(rules, j, i)}

\* Before orders the rows of a table, any two of them.
LEMMA RowsOrdered ==
  ASSUME NEW rules, Rows(rules)
  PROVE  /\ \A i \in DOMAIN rules : ~ Before(rules, i, i)
         /\ \A i, j \in DOMAIN rules : i # j => Before(rules, i, j) \/ Before(rules, j, i)
         /\ \A i, j, k \in DOMAIN rules : Before(rules, i, j) /\ Before(rules, j, k) => Before(rules, i, k)
<1>1. \A i \in DOMAIN rules : i \in Int /\ rules[i].priority \in Int
  BY DEF Rows
<1> QED
  BY <1>1 DEF Before

\* A row has a place in the table, behind those of the rows before it.
LEMMA PlaceRises ==
  ASSUME NEW rules, Rows(rules)
  PROVE  /\ \A i \in DOMAIN rules : Place(rules, i) \in DOMAIN rules
         /\ \A i, j \in DOMAIN rules : Before(rules, i, j) => Place(rules, i) < Place(rules, j)
<1> DEFINE D == DOMAIN rules
<1>1. IsFiniteSet(D) /\ Cardinality(D) = Len(rules) /\ D = 1..Len(rules) /\ Len(rules) \in Nat
  <2> DEFINE n == Len(rules)
  <2>1. n \in Nat /\ D = 1..n
    BY DEF Rows
  <2> HIDE DEF n, D
  <2>2. IsFiniteSet(1..n) /\ Cardinality(1..n) = IF 1 > n THEN 0 ELSE n - 1 + 1
    BY <2>1, FS_Interval
  <2>3. Cardinality(1..n) = n
    BY <2>1, <2>2
  <2> QED
    BY <2>1, <2>2, <2>3 DEF n
<1>2. \A i \in D : Ahead(rules, i) \in SUBSET (D \ {i}) /\ Place(rules, i) = Cardinality(Ahead(rules, i)) + 1
  BY RowsOrdered DEF Ahead, Place
<1> HIDE DEF D
<1>3. ASSUME NEW i \in D PROVE IsFiniteSet(Ahead(rules, i)) /\ Cardinality(Ahead(rules, i)) \in Nat /\ Cardinality(Ahead(rules, i)) <= Len(rules) - 1
  <2>1. IsFiniteSet(D \ {i}) /\ Cardinality(D \ {i}) = Len(rules) - 1
    BY <1>1, FS_RemoveElement
  <2> QED
    BY <1>2, <2>1, FS_Subset, FS_CardinalityType
<1>4. ASSUME NEW i \in D PROVE Place(rules, i) \in D
  BY <1>1, <1>2, <1>3
<1>5. ASSUME NEW i \in D, NEW j \in D, Before(rules, i, j) PROVE Place(rules, i) < Place(rules, j)
  <2>1. Ahead(rules, i) \in SUBSET Ahead(rules, j)
    BY <1>5, RowsOrdered DEF Ahead, D
  <2>2. i \in Ahead(rules, j) /\ i \notin Ahead(rules, i)
    BY <1>5, RowsOrdered DEF Ahead, D
  <2>3. Cardinality(Ahead(rules, i)) <= Cardinality(Ahead(rules, j)) /\ Cardinality(Ahead(rules, i)) # Cardinality(Ahead(rules, j))
    BY <1>3, <2>1, <2>2, FS_Subset
  <2> QED
    BY <1>2, <1>3, <2>3
<1> QED
  BY <1>4, <1>5 DEF D

\* Every place is that of one row.
LEMMA OrderIsRight ==
  ASSUME NEW rules, Rows(rules)
  PROVE  /\ DOMAIN Order(rules) = DOMAIN rules
         /\ \A k \in DOMAIN rules : Order(rules)[k] \in DOMAIN rules /\ Place(rules, Order(rules)[k]) = k
         /\ \A i \in DOMAIN rules : Order(rules)[Place(rules, i)] = i
<1> DEFINE D == DOMAIN rules
           f == [i \in D |-> Place(rules, i)]
<1>1. IsFiniteSet(D)
  BY FS_Interval DEF Rows
<1>2. f \in [D -> D] /\ \A i, j \in D : f[i] = f[j] => i = j
  <2>1. \A i \in D : Place(rules, i) \in Int
    <3>1. D = 1..Len(rules) /\ Len(rules) \in Nat
      BY DEF Rows
    <3>2. \A i \in D : Place(rules, i) \in D
      BY PlaceRises
    <3> HIDE DEF D
    <3> QED
      BY <3>1, <3>2
  <2>2. ASSUME NEW i \in D, NEW j \in D, i # j PROVE Place(rules, i) # Place(rules, j)
    BY <2>1, <2>2, PlaceRises, RowsOrdered
  <2> QED
    BY <2>2, PlaceRises
<1> HIDE DEF D
<1>3. f \in Injection(D, D)
  BY <1>2 DEF Injection, IsInjective
<1>4. f \in Surjection(D, D)
  BY <1>1, <1>3, FS_Injection
<1>5. \A k \in D : \E i \in D : Place(rules, i) = k
  BY <1>4 DEF Surjection
<1>6. DOMAIN Order(rules) = D /\ \A k \in D : Order(rules)[k] = CHOOSE i \in D : Place(rules, i) = k
  BY DEF Order, D
<1>7. \A k \in D : Order(rules)[k] \in D /\ Place(rules, Order(rules)[k]) = k
  BY <1>5, <1>6
<1>8. ASSUME NEW i \in D PROVE Order(rules)[Place(rules, i)] = i
  <2>1. Place(rules, i) \in D
    BY <1>2
  <2> QED
    BY <1>2, <1>7, <2>1
<1> QED
  BY <1>6, <1>7, <1>8 DEF D

\* If a row of a team answers, one is found, and none that answers stands before it.
LEMMA FoundFirst ==
  ASSUME NEW team \in Team, NEW s, Rows(table[team].rules)
  PROVE  /\ Answering(team, s) # {} =>
              /\ First(team, s) \in DOMAIN table[team].rules
              /\ Answers(team, First(team, s), s)
              /\ \A i \in DOMAIN table[team].rules : Answers(team, i, s) => ~ Before(table[team].rules, i, First(team, s))
         /\ Answering(team, s) = {} => \A i \in DOMAIN table[team].rules : ~ Answers(team, i, s)
<1> DEFINE rules == table[team].rules
           D == DOMAIN rules
           o == Order(rules)
<1>1. Rows(rules) /\ D = 1..Len(rules) /\ Len(rules) \in Nat
  BY DEF Rows
<1>2. Answering(team, s) = {k \in D : Answers(team, o[k], s) /\ \A n \in 1..(k - 1) : ~ Answers(team, o[n], s)}
  BY DEF Answering
<1>3. First(team, s) = o[CHOOSE n \in Answering(team, s) : TRUE]
  BY DEF First
<1>4. /\ \A k \in D : o[k] \in D /\ Place(rules, o[k]) = k
      /\ \A i \in D : Place(rules, i) \in D /\ o[Place(rules, i)] = i
      /\ \A i, j \in D : Before(rules, i, j) => Place(rules, i) < Place(rules, j)
  BY <1>1, OrderIsRight, PlaceRises
<1> HIDE DEF rules, o, D
<1>5. ASSUME NEW k \in Answering(team, s)
      PROVE  o[k] \in D /\ Answers(team, o[k], s) /\ \A i \in D : Answers(team, i, s) => ~ Before(rules, i, o[k])
  <2>1. k \in D /\ Answers(team, o[k], s) /\ \A n \in 1..(k - 1) : ~ Answers(team, o[n], s)
    BY <1>2
  <2>2. ASSUME NEW i \in D, Answers(team, i, s), Before(rules, i, o[k]) PROVE FALSE
    <3>1. Place(rules, i) \in 1..(k - 1)
      BY <1>1, <1>4, <2>1, <2>2
    <3> QED
      BY <1>4, <2>1, <2>2, <3>1
  <2> QED
    BY <1>4, <2>1, <2>2
<1>6. ASSUME NEW i \in D, Answers(team, i, s) PROVE Answering(team, s) # {}
  <2> DEFINE S == {k \in D : Answers(team, o[k], s)}
  <2>1. S \subseteq Nat /\ S # {} /\ \A k \in D : k \in S <=> Answers(team, o[k], s)
    BY <1>1, <1>4, <1>6
  <2> HIDE DEF S
  <2>2. PICK n \in S : \A m \in S : n <= m
    BY <2>1, LeastNat
  <2>3. n \in D /\ Answers(team, o[n], s)
    BY <2>1 DEF S
  <2>4. ASSUME NEW m \in 1..(n - 1) PROVE ~ Answers(team, o[m], s)
    <3>1. m \in D /\ ~ (n <= m)
      BY <1>1, <2>3
    <3> QED
      BY <2>1, <2>2, <3>1
  <2> QED
    BY <1>2, <2>3, <2>4
<1>7. Answering(team, s) # {} => (CHOOSE n \in Answering(team, s) : TRUE) \in Answering(team, s)
  OBVIOUS
<1> QED
  BY <1>3, <1>5, <1>6, <1>7 DEF rules, D, o

Past(h) == {h[n].text : n \in 1..Len(h)}

\* A lastIndex is 0 or the end of an occurrence in a text that was routed.
Remembers(r, at, past) == at = 0 \/ \E t \in past : \E p \in DOMAIN r.found[t] : at = r.found[t][p]

RoutingInv ==
  /\ table \in Table /\ routed \in Seq(Signal) /\ DOMAIN lastIndex = Team
  /\ \A team \in Team : \A i \in DOMAIN table[team].rules : Remembers(table[team].rules[i], lastIndex[team][i], Past(routed))

\* What was routed, and the text routed now.
LEMMA PastGrows ==
  ASSUME NEW h \in Seq(Signal), NEW s \in Signal
  PROVE  /\ Append(h, s) \in Seq(Signal) /\ Append(h, s)[Len(Append(h, s))] = s
         /\ Past(Append(h, s)) = Past(h) \cup {s.text}
         /\ {Append(h, s)[n].text : n \in 1..(Len(Append(h, s)) - 1)} = Past(h)
<1> DEFINE g == Append(h, s)
<1>1. g \in Seq(Signal) /\ Len(g) = Len(h) + 1 /\ Len(h) \in Nat /\ g[Len(h) + 1] = s /\ \A n \in 1..Len(h) : g[n] = h[n]
  BY AppendProperties
<1> HIDE DEF g
<1>2. 1..Len(g) = 1..Len(h) \cup {Len(g)} /\ 1..(Len(g) - 1) = 1..Len(h) /\ g[Len(g)] = s
  BY <1>1
<1> QED
  BY <1>1, <1>2 DEF g, Past

\* A row that is tested remembers where the text at hand ended.
LEMMA MovedRemembers ==
  ASSUME table \in Table, NEW s \in Signal, NEW team \in Team, NEW i \in DOMAIN table[team].rules, NEW past,
         Remembers(table[team].rules[i], lastIndex[team][i], past)
  PROVE  Remembers(table[team].rules[i], Scanned(team, s)[i], past \cup {s.text})
<1> DEFINE r == table[team].rules[i]
           at == FoundAt(team, i, s)
           m == CHOOSE p \in at : \A q \in at : p <= q
<1>1. DOMAIN r.found[s.text] \subseteq Nat
  BY RoutingAssumption
<1>2. at \subseteq DOMAIN r.found[s.text]
  BY DEF FoundAt
<1>3. Moved(team, i, s) = IF r.flag = "none" \/ at = {} THEN 0 ELSE r.found[s.text][m]
  BY DEF Moved
<1>4. at # {} => m \in at
  <2> HIDE DEF at, m
  <2>1. at \subseteq Nat
    BY <1>1, <1>2
  <2>2. at # {} => \E p \in at : \A q \in at : p <= q
    BY <2>1, LeastNat
  <2> QED
    BY <2>2 DEF m
<1> HIDE DEF r, at, m
<1>5. Remembers(r, Moved(team, i, s), past \cup {s.text})
  BY <1>2, <1>3, <1>4 DEF Remembers
<1>6. Scanned(team, s)[i] = Moved(team, i, s) \/ Scanned(team, s)[i] = lastIndex[team][i]
  BY DEF Scanned
<1>7. Remembers(r, lastIndex[team][i], past \cup {s.text})
  BY DEF Remembers, r
<1> QED
  BY <1>5, <1>6, <1>7 DEF r

\* A row whose pattern occurs, and that does not match, passes the text over.
LEMMA Overlooked ==
  ASSUME table \in Table, routed \in Seq(Signal), NEW s \in Signal, NEW team \in Team, NEW i \in DOMAIN table[team].rules,
         Remembers(table[team].rules[i], lastIndex[team][i], Past(routed)),
         Occurs(table[team].rules[i], s.text), ~ Matches(team, i, s)
  PROVE  PassesOver(table[team].rules[i], s.text, Past(routed))
<1> DEFINE r == table[team].rules[i]
           at == lastIndex[team][i]
<1>1. DOMAIN r.found[s.text] \subseteq Nat
  BY RoutingAssumption
<1>2. \A t \in Past(routed) : \A p \in DOMAIN r.found[t] : r.found[t][p] \in Nat
  <2> TAKE t \in Past(routed)
  <2>1. PICK q \in Signal : t = q.text
    BY DEF Past
  <2>2. \A p \in DOMAIN r.found[q.text] : r.found[q.text][p] \in Nat
    BY RoutingAssumption
  <2> HIDE DEF r
  <2> QED
    BY <2>1, <2>2
<1>3. \A p \in DOMAIN r.found[s.text] : ~ CASE r.flag = "g" -> p >= at [] r.flag = "y" -> p = at [] OTHER -> TRUE
  BY DEF Matches, FoundAt
<1>4. /\ Remembers(r, at, Past(routed))
      /\ IF r.flag = "y" THEN 0 \in DOMAIN r.found[s.text] ELSE DOMAIN r.found[s.text] # {}
  BY DEF Occurs
<1> HIDE DEF r, at
<1>5. at \in Nat
  BY <1>2, <1>4 DEF Remembers
<1>6. CASE r.flag = "y"
  <2>1. \A q \in DOMAIN r.found[s.text] : q # at
    BY <1>3, <1>6
  <2>2. at # 0
    BY <1>4, <1>6, <2>1
  <2>6. PICK t \in Past(routed) : \E p \in DOMAIN r.found[t] : at = r.found[t][p]
    BY <1>4, <2>2 DEF Remembers
  <2>3. PICK p \in DOMAIN r.found[t] : at = r.found[t][p]
    BY <2>6
  <2>4. \A q \in DOMAIN r.found[s.text] : q # r.found[t][p]
    BY <2>1, <2>3
  <2>5. PassesOver(r, s.text, Past(routed))
    BY <1>6, <2>3, <2>4 DEF PassesOver
  <2> QED
    BY <2>5 DEF r
<1>7. CASE r.flag = "g"
  <2>1. \A q \in DOMAIN r.found[s.text] : q < at
    BY <1>1, <1>3, <1>5, <1>7
  <2>2. at # 0
    BY <1>1, <1>4, <1>7, <2>1
  <2>6. PICK t \in Past(routed) : \E p \in DOMAIN r.found[t] : at = r.found[t][p]
    BY <1>4, <2>2 DEF Remembers
  <2>3. PICK p \in DOMAIN r.found[t] : at = r.found[t][p]
    BY <2>6
  <2>4. \A q \in DOMAIN r.found[s.text] : q < r.found[t][p]
    BY <2>1, <2>3
  <2>5. PassesOver(r, s.text, Past(routed))
    BY <1>7, <2>3, <2>4 DEF PassesOver
  <2> QED
    BY <2>5 DEF r
<1>8. r.flag \in {"g", "y"}
  <2> SUFFICES ASSUME r.flag \notin {"g", "y"} PROVE FALSE
    OBVIOUS
  <2>1. DOMAIN r.found[s.text] # {}
    BY <1>4
  <2> QED
    BY <1>3, <2>1
<1> QED
  BY <1>6, <1>7, <1>8

\* A route answers with the best row, but for those that pass the text over.
LEMMA RoutingSteps ==
  ASSUME RoutingInv, RoutingNext
  PROVE  RoutingInv' /\ RoutedBest'
<1> PICK s \in Signal : routed' = Append(routed, s) /\ (RoutesLocally(s) \/ Escalates(s))
  BY DEF RoutingNext
<1>1. table' = table /\ table \in Table /\ routed \in Seq(Signal) /\ DOMAIN lastIndex = Team
  BY DEF RoutingNext, RoutingInv
<1>2. Rows(table["local"].rules) /\ Rows(table["parent"].rules) /\ Team = {"local", "parent"}
  BY <1>1, RoutingAssumption DEF Rows, Team
<1>3. /\ routed' \in Seq(Signal) /\ routed'[Len(routed')] = s /\ Past(routed') = Past(routed) \cup {s.text}
      /\ {routed'[n].text : n \in 1..(Len(routed') - 1)} = Past(routed)
  BY <1>1, PastGrows
<1>4. RoutingInv'
  <2>1. ASSUME NEW team \in Team, NEW i \in DOMAIN table[team].rules
        PROVE  Remembers(table[team].rules[i], lastIndex'[team][i], Past(routed) \cup {s.text})
    <3>1. Remembers(table[team].rules[i], lastIndex[team][i], Past(routed))
      BY DEF RoutingInv
    <3>2. Remembers(table[team].rules[i], Scanned(team, s)[i], Past(routed) \cup {s.text})
      BY <1>1, <3>1, MovedRemembers
    <3>3. Remembers(table[team].rules[i], lastIndex[team][i], Past(routed) \cup {s.text})
      BY <3>1 DEF Remembers
    <3>4. lastIndex'[team] = Scanned(team, s) \/ lastIndex'[team] = lastIndex[team]
      BY <1>1, <1>2 DEF RoutesLocally, Escalates
    <3> QED
      BY <3>2, <3>3, <3>4
  <2>2. DOMAIN lastIndex' = Team
    BY <1>1 DEF RoutesLocally, Escalates
  <2> QED
    BY <1>1, <1>3, <2>1, <2>2 DEF RoutingInv
<1> DEFINE Can(team, i) == Eligible(team, i, s)
           Does(team, i) == Answers(team, i, s)
           Behind(team, i, best) == Before(table[team].rules, i, best)
           Excused(team, i) == PassesOver(table[team].rules[i], s.text, Past(routed))
           There(team, i) == Occurs(table[team].rules[i], s.text)
<1>5. ASSUME NEW team \in Team, NEW i \in DOMAIN table[team].rules, Can(team, i), There(team, i), ~ Does(team, i) PROVE Excused(team, i)
  <2>1. ~ Matches(team, i, s)
    BY <1>5 DEF Answers
  <2> QED
    BY <1>1, <1>5, <2>1, Overlooked DEF RoutingInv
<1>6. ASSUME NEW team \in Team, NEW i, Does(team, i) PROVE Can(team, i) /\ DOMAIN table[team].rules[i].found[s.text] # {}
  BY <1>6 DEF Answers, Matches, FoundAt
<1>8. RoutedBest' <=>
        (answer' # NoAnswer =>
           /\ answer'.team # "none" =>
                Can(answer'.team, answer'.row) /\ DOMAIN table[answer'.team].rules[answer'.row].found[s.text] # {}
           /\ \A team \in Team : \A i \in DOMAIN table[team].rules :
                Can(team, i) /\ There(team, i) /\
                ( \/ team = "local" /\ answer'.team # "local"
                  \/ answer'.team = "none"
                  \/ team = answer'.team /\ Behind(team, i, answer'.row) ) => Excused(team, i))
  <2>1. Latest' = s /\ Earlier' = Past(routed)
    BY <1>3 DEF Latest, Earlier
  <2>2. \A team, i : Eligible(team, i, Latest)' <=> Can(team, i)
    BY <1>1, <2>1 DEF Eligible, Conditions
  <2>3. \A team, i : Occurs(table[team].rules[i], Latest.text)' <=> There(team, i)
    BY <1>1, <2>1 DEF Occurs
  <2>4. \A team, i : PassesOver(table[team].rules[i], Latest.text, Earlier)' <=> Excused(team, i)
    BY <1>1, <2>1 DEF PassesOver
  <2>5. \A team, i : Better(team, i)' <=>
                ( \/ team = "local" /\ answer'.team # "local"
                  \/ answer'.team = "none"
                  \/ team = answer'.team /\ Behind(team, i, answer'.row) )
    BY <1>1 DEF Better, Before
  <2> HIDE DEF Can, Does, Behind, Excused, There
  <2> QED
    BY <1>1, <2>1, <2>2, <2>3, <2>4, <2>5 DEF RoutedBest
<1> HIDE DEF Can, Does, Behind, Excused, There
<1>9. CASE RoutesLocally(s)
  <2> DEFINE best == First("local", s)
  <2>1. answer'.team = "local" /\ answer'.row = best
    BY <1>9 DEF RoutesLocally, Answer
  <2>2. best \in DOMAIN table["local"].rules /\ Does("local", best) /\ \A i \in DOMAIN table["local"].rules : Does("local", i) => ~ Behind("local", i, best)
    BY <1>2, <1>9, FoundFirst DEF RoutesLocally, Does, Behind
  <2> HIDE DEF best
  <2> QED
    BY <1>2, <1>4, <1>5, <1>6, <1>8, <2>1, <2>2
<1>10. CASE Escalates(s)
  <2>1. \A i \in DOMAIN table["local"].rules : ~ Does("local", i)
    BY <1>2, <1>10, FoundFirst DEF Escalates, Does
  <2>2. CASE Answering("parent", s) # {}
    <3> DEFINE best == First("parent", s)
    <3>1. answer'.team = "parent" /\ answer'.row = best
      BY <1>10, <2>2 DEF Escalates, Answer
    <3>2. best \in DOMAIN table["parent"].rules /\ Does("parent", best) /\ \A i \in DOMAIN table["parent"].rules : Does("parent", i) => ~ Behind("parent", i, best)
      BY <1>2, <2>2, FoundFirst DEF Does, Behind
    <3> HIDE DEF best
    <3> QED
      BY <1>2, <1>4, <1>5, <1>6, <1>8, <2>1, <3>1, <3>2
  <2>3. CASE Answering("parent", s) = {}
    <3>1. answer'.team = "none"
      BY <1>10, <2>3 DEF Escalates, Unanswered
    <3>2. \A i \in DOMAIN table["parent"].rules : ~ Does("parent", i)
      BY <1>2, <2>3, FoundFirst DEF Does
    <3> QED
      BY <1>2, <1>4, <1>5, <1>8, <2>1, <3>1, <3>2
  <2> QED
    BY <2>2, <2>3
<1> QED
  BY <1>9, <1>10

\* Whatever the two tables hold and whatever is routed by them, in any order: an answer is
\* a row that does, and the better rows whose pattern occurs are those that a text routed
\* before makes pass this one over.
THEOREM RoutesAreBest == Spec => []RoutedBest
<1> DEFINE Inv == RoutingInv /\ RoutedBest
<1>1. Init => Inv
  <2> SUFFICES ASSUME RoutingInit PROVE Inv
    BY DEF Init
  <2>1. table \in Table /\ routed = <<>> /\ answer = NoAnswer /\ lastIndex = [team \in Team |-> [i \in DOMAIN table[team].rules |-> 0]]
    BY DEF RoutingInit
  <2> QED
    BY <2>1 DEF RoutingInv, RoutedBest, Remembers
<1>2. Inv /\ [Next]_vars => Inv'
  <2> SUFFICES ASSUME Inv, [Next]_vars PROVE Inv'
    OBVIOUS
  <2>1. CASE UNCHANGED routingVars
    <3>1. table' = table /\ lastIndex' = lastIndex /\ answer' = answer /\ routed' = routed
      BY <2>1 DEF routingVars
    <3>2. RoutingInv'
      BY <3>1 DEF RoutingInv
    <3>3. RoutedBest'
      <4>1. Latest' = Latest /\ Earlier' = Earlier
        BY <3>1 DEF Latest, Earlier
      <4>2. \A team, i : (Eligible(team, i, Latest)' <=> Eligible(team, i, Latest)) /\ (Better(team, i)' <=> Better(team, i))
        BY <3>1, <4>1 DEF Eligible, Conditions, Better
      <4>3. \A r : Occurs(r, Latest.text)' <=> Occurs(r, Latest.text)
        BY <4>1 DEF Occurs
      <4>4. \A r : PassesOver(r, Latest.text, Earlier)' <=> PassesOver(r, Latest.text, Earlier)
        BY <4>1 DEF PassesOver
      <4> QED
        BY <3>1, <4>1, <4>2, <4>3, <4>4 DEF RoutedBest
    <3> QED
      BY <3>2, <3>3
  <2>2. CASE RoutingNext
    BY <2>2, RoutingSteps
  <2> QED
    BY <2>1, <2>2, Separate
<1>3. Inv => RoutedBest
  OBVIOUS
<1> QED
  BY <1>1, <1>2, <1>3, PTL DEF Spec

(***************************************************************************)
(* Resume.  A finder's answer about runs of which none is a prefix of      *)
(* another, then what both finders answer, then the steps.                 *)
(***************************************************************************)

ChildSteps == [at : {"pending", "running", "ended", "detached"}, recorded : BOOLEAN, there : BOOLEAN]
RunsOf(r) == [over : BOOLEAN, known : SUBSET {"dir", "result", "memory"}, listed : Seq(0..resumePlan[r].children), session : BOOLEAN,
              steps : [1..resumePlan[r].children -> ChildSteps]]

ResumeType ==
  /\ resumePlan \in ResumePlan /\ runs = [r \in DOMAIN resumePlan |-> runs[r]]
  /\ \A r \in DOMAIN resumePlan : runs[r] \in RunsOf(r)

\* Of a run that is over no child runs, only a foreground run loses one to a talk, and a
\* background run that goes on has its directory.
ChildrenInv ==
  \A r \in DOMAIN resumePlan :
    /\ runs[r].over \/ resumePlan[r].kind # "async" \/ "dir" \in runs[r].known
    /\ \A i \in 1..resumePlan[r].children :
         /\ runs[r].over => runs[r].steps[i].at # "running"
         /\ resumePlan[r].kind # "foreground" => runs[r].steps[i].at # "detached"

\* What an advice was read from still leads to its child, by the index it names or as
\* the only one that is found; its session file is recorded there.
AdviceInv ==
  advice # NoAdvice =>
    /\ advice.run \in DOMAIN resumePlan /\ resumePlan[advice.run].kind = "async" /\ runs[advice.run].over
    /\ advice.index \in {NoIndex} \cup Nat /\ advice.by \in {"dir", "result"} /\ advice.child \in 1..resumePlan[advice.run].children
    /\ advice.by = "result" => "dir" \notin runs[advice.run].known
    /\ advice.by \in runs[advice.run].known =>
         /\ Meant(advice.run, advice.index) = {advice.child}
         /\ runs[advice.run].steps[advice.child].recorded \/ (Len(ChildrenFound(advice.run)) = 1 /\ runs[advice.run].session)

\* What the type says of one run.
LEMMA RunShape ==
  ASSUME ResumeType, NEW r \in DOMAIN resumePlan
  PROVE  /\ DOMAIN runs = DOMAIN resumePlan /\ runs[r] \in RunsOf(r) /\ resumePlan[r].children \in Nat \ {0}
         /\ Children(r) = 1..resumePlan[r].children /\ Len(runs[r].steps) = resumePlan[r].children
         /\ \A i \in Children(r) : runs[r].steps[i] \in ChildSteps
<1> DEFINE n == resumePlan[r].children
           f == runs[r].steps
<1>1. n \in Nat \ {0} /\ runs[r] \in RunsOf(r)
  BY ResumeAssumption DEF ResumeType
<1>2. f \in [1..n -> ChildSteps]
  BY <1>1 DEF RunsOf
<1>3. DOMAIN runs = DOMAIN resumePlan
  BY DEF ResumeType
<1> HIDE DEF n, f
<1>4. f \in Seq(ChildSteps)
  BY <1>1, <1>2, SeqDef
<1>5. Len(f) = n
  <2>1. DOMAIN f = 1..Len(f) /\ Len(f) \in Nat
    BY <1>4, LenProperties
  <2> QED
    BY <1>1, <1>2, <2>1
<1>6. Children(r) = 1..n
  BY <1>2 DEF Children, f
<1> QED
  BY <1>1, <1>2, <1>3, <1>5, <1>6 DEF n, f

\* No id begins another.
LEMMA IdsApart ==
  ASSUME ResumeType
  PROVE  /\ \A r, s \in DOMAIN runs : IsPrefix(r, s) <=> r = s
         /\ \A r \in DOMAIN runs : r # <<>>
         /\ IsFiniteSet(DOMAIN runs)
<1>1. resumePlan \in ResumePlan /\ DOMAIN runs = DOMAIN resumePlan
  BY DEF ResumeType
<1>2. \A r \in DOMAIN runs : Len(r) \in Nat \ {0}
  BY <1>1, ResumeAssumption
<1>3. \A r, s \in DOMAIN runs : r # s => ~ IsPrefix(r, s)
  BY <1>1, ResumeAssumption
<1>4. ASSUME NEW r \in DOMAIN runs PROVE IsPrefix(r, r)
  BY <1>2 DEF IsPrefix
<1>5. IsFiniteSet(DOMAIN runs)
  BY <1>1, ResumeAssumption
<1>6. ASSUME NEW r \in DOMAIN runs PROVE r # <<>>
  <2>1. Len(<<>>) = 0
    OBVIOUS
  <2> QED
    BY <1>2, <2>1
<1> QED
  BY <1>3, <1>4, <1>5, <1>6

\* An error names no child.
LEMMA NeitherAble == ~ Able(NotFound) /\ ~ Able(Ambiguous)
<1> QED
  BY DEF Able, NotFound, Refused, Ambiguous

\* A finder answers if one run fits, and only then.
LEMMA AmongIs ==
  ASSUME NEW S, IsFiniteSet(S), NEW f, DOMAIN f = S
  PROVE  /\ S = {} => Among(f) = NotFound
         /\ \A r : S = {r} => Among(f) = f[r]
         /\ S # {} /\ (\A r : S # {r}) => Among(f) = Ambiguous
<1>1. S = {} => Among(f) = NotFound
  BY DEF Among
<1>2. ASSUME NEW r, S = {r} PROVE Among(f) = f[r]
  <2>1. Cardinality(S) = 1
    BY <1>2, FS_Singleton
  <2>2. (CHOOSE q \in S : TRUE) = r
    BY <1>2
  <2> QED
    BY <1>2, <2>1, <2>2 DEF Among
<1>3. ASSUME S # {}, \A r : S # {r} PROVE Among(f) = Ambiguous
  <2>1. Cardinality(S) \in Nat /\ Cardinality(S) # 0 /\ Cardinality(S) # 1
    BY <1>3, FS_EmptySet, FS_Singleton, FS_CardinalityType
  <2>2. Cardinality(S) > 1
    BY <2>1
  <2> QED
    BY <1>3, <2>2 DEF Among
<1> QED
  BY <1>1, <1>2, <1>3

\* What children a reader finds: all of them, unless only a result is left.
Complete(r) == resumePlan[r].kind # "async" \/ "dir" \in runs[r].known
LEMMA ChildrenFoundAre ==
  ASSUME ResumeType, NEW r \in DOMAIN runs
  PROVE  /\ DOMAIN ChildrenFound(r) = 1..Len(ChildrenFound(r)) /\ Len(ChildrenFound(r)) \in Nat
         /\ Complete(r) => ChildrenFound(r) = [i \in 1..resumePlan[r].children |-> i] /\ Len(ChildrenFound(r)) = resumePlan[r].children
<1> DEFINE n == resumePlan[r].children
           id == [i \in 1..n |-> i]
           l == runs[r].listed
<1>1. n \in Nat \ {0} /\ Children(r) = 1..n /\ runs[r] \in RunsOf(r)
  BY RunShape DEF ResumeType
<1>2. l \in Seq(0..n)
  BY <1>1 DEF RunsOf
<1>3. ChildrenFound(r) = IF resumePlan[r].kind = "async" /\ "dir" \notin runs[r].known THEN l ELSE id
  BY <1>1 DEF ChildrenFound
<1> HIDE DEF n, l
<1>4. id \in Seq(0..n) /\ Len(id) = n
  <2>1. \A i \in 1..n : i \in 0..n
    BY <1>1
  <2> QED
    BY <1>1, <2>1, SeqDef, LenProperties
<1> HIDE DEF id
<1>5. ChildrenFound(r) \in Seq(0..n)
  BY <1>2, <1>3, <1>4
<1>6. DOMAIN ChildrenFound(r) = 1..Len(ChildrenFound(r)) /\ Len(ChildrenFound(r)) \in Nat
  BY <1>5, LenProperties
<1>7. Complete(r) => ChildrenFound(r) = id
  BY <1>3 DEF Complete
<1> QED
  BY <1>4, <1>6, <1>7 DEF id, n

\* They stay the same while the run does.
LEMMA ChildrenFoundStay ==
  ASSUME resumePlan' = resumePlan
  PROVE  \A s, y : runs'[s] = runs[s] => ChildrenFound(s)' = ChildrenFound(s) /\ Meant(s, y)' = Meant(s, y)
<1> TAKE s, y
<1> SUFFICES ASSUME runs'[s] = runs[s] PROVE ChildrenFound(s)' = ChildrenFound(s) /\ Meant(s, y)' = Meant(s, y)
  OBVIOUS
<1>1. ChildrenFound(s)' = ChildrenFound(s)
  BY DEF ChildrenFound, Children
<1> QED
  BY <1>1 DEF Meant

\* A call means at most one of them.
LEMMA MeantOne ==
  ASSUME ResumeType, NEW r \in DOMAIN runs, NEW index \in {NoIndex} \cup Nat
  PROVE  /\ \A i, j \in Meant(r, index) : i = j
         /\ Complete(r) =>
              Meant(r, index) \subseteq Children(r) /\ (index # NoIndex => Meant(r, index) \subseteq {index})
<1>1. r \in DOMAIN resumePlan
  BY DEF ResumeType
<1>2. Children(r) = 1..resumePlan[r].children /\ resumePlan[r].children \in Nat \ {0}
  BY <1>1, RunShape
<1> DEFINE f == ChildrenFound(r)
           n == resumePlan[r].children
<1>3. /\ DOMAIN f = 1..Len(f) /\ Len(f) \in Nat
      /\ Complete(r) => f = [i \in 1..n |-> i] /\ Len(f) = n
  BY ChildrenFoundAre
<1>4. Meant(r, index) = IF index = NoIndex THEN IF Len(f) = 1 THEN {f[1]} ELSE {} ELSE {f[i] : i \in {index} \cap DOMAIN f}
  BY DEF Meant
<1> HIDE DEF f
<1> QED
  BY <1>2, <1>3, <1>4

\* A child that an answer may name.
Apt(r, a) ==
  /\ a.run = r /\ a.child \in Children(r) /\ a.how \in {"live", "revive"}
  /\ a.how = "live" => runs[r].steps[a.child].at = "running"
  /\ a.how = "revive" => /\ runs[r].steps[a.child].at \notin {"running", "detached"}
                         /\ runs[r].over \/ runs[r].steps[a.child].at = "ended"

\* The child on its session file, or a refusal about its run.
LEMMA RevivedIs ==
  ASSUME NEW r, NEW i
  PROVE  /\ Revived(r, i).run = r /\ Revived(r, i).how \in {"revive", "refused"}
         /\ Able(Revived(r, i)) => Revived(r, i).how = "revive" /\ Revived(r, i).child = i /\ i \in Children(r)
<1> QED
  BY DEF Revived, HasSession, Able, Refused

\* A refusal names no child.
LEMMA RefusedIs == ASSUME NEW r PROVE Refused(r).run = r /\ ~ Able(Refused(r)) /\ Refused(r).how = "refused"
<1> QED
  BY DEF Refused, Able

\* The finder of foreground runs names a child that it may name.
LEMMA ForegroundChildIs ==
  ASSUME ResumeType, ChildrenInv, NEW r \in Remembered, NEW index \in {NoIndex} \cup Nat
  PROVE  /\ ForegroundChild(r, index).run = r
         /\ Able(ForegroundChild(r, index)) => Apt(r, ForegroundChild(r, index))
<1>1. r \in DOMAIN resumePlan /\ r \in DOMAIN runs /\ runs[r].over /\ Children(r) = 1..resumePlan[r].children
  BY RunShape DEF Remembered, Of, ResumeType
<1>2. CASE \E i \in Meant(r, index) : runs[r].steps[i].at # "detached"
  <2> DEFINE c == CHOOSE i \in Meant(r, index) : TRUE
  <2>1. c \in Meant(r, index) /\ c \in Children(r) /\ runs[r].steps[c].at # "detached"
    <3>1. Complete(r)
      BY DEF Remembered, Of, Complete
    <3> QED
      BY <1>1, <1>2, <3>1, MeantOne
  <2>2. ForegroundChild(r, index) = Revived(r, c)
    BY <1>2 DEF ForegroundChild
  <2> HIDE DEF c
  <2>3. runs[r].steps[c].at # "running"
    BY <1>1, <2>1 DEF ChildrenInv
  <2> QED
    BY <1>1, <2>1, <2>2, <2>3, RevivedIs DEF Apt
<1>3. CASE ~ \E i \in Meant(r, index) : runs[r].steps[i].at # "detached"
  BY <1>3, RefusedIs DEF ForegroundChild
<1> QED
  BY <1>2, <1>3

\* A child that is told runs.
LEMMA LiveIs ==
  ASSUME NEW r, NEW S, S # {}, S \subseteq Running(r)
  PROVE  Live(r, S).run = r /\ Live(r, S).how = "live" /\ Apt(r, Live(r, S))
<1>1. (CHOOSE i \in S : TRUE) \in S
  BY DEF Live
<1> QED
  BY <1>1 DEF Live, Apt, Running

\* So does the finder of background runs.
LEMMA AsyncChildIs ==
  ASSUME ResumeType, ChildrenInv, NEW r \in DOMAIN runs, resumePlan[r].kind = "async", NEW index \in {NoIndex} \cup Nat
  PROVE  /\ AsyncChild(r, index).run = r
         /\ Able(AsyncChild(r, index)) => Apt(r, AsyncChild(r, index))
<1>1. r \in DOMAIN resumePlan /\ Children(r) = 1..resumePlan[r].children /\ \A i \in Children(r) : runs[r].steps[i] \in ChildSteps
  BY RunShape DEF ResumeType
<1>2. CASE ~ runs[r].over /\ index = NoIndex
  <2>1. CASE Cardinality(Running(r)) = 1
    <3>1. Running(r) # {}
      BY <2>1, FS_EmptySet
    <3> QED
      BY <1>2, <2>1, <3>1, LiveIs DEF AsyncChild
  <2>2. CASE Cardinality(Running(r)) # 1
    BY <1>2, <2>2, RefusedIs DEF AsyncChild
  <2> QED
    BY <2>1, <2>2
<1>3. CASE ~ (~ runs[r].over /\ index = NoIndex)
  <2>1. CASE Meant(r, index) = {}
    BY <1>3, <2>1, RefusedIs DEF AsyncChild
  <2>2. CASE Meant(r, index) # {} /\ ~ runs[r].over /\ index \in Running(r)
    <3>1. AsyncChild(r, index) = Live(r, {index})
      BY <1>3, <2>2 DEF AsyncChild
    <3> QED
      BY <2>2, <3>1, LiveIs
  <2>3. CASE Meant(r, index) # {} /\ ~ (~ runs[r].over /\ index \in Running(r)) /\ ~ runs[r].over /\ runs[r].steps[index].at = "pending"
    <3>1. AsyncChild(r, index) = Refused(r)
      BY <1>3, <2>3 DEF AsyncChild
    <3> QED
      BY <3>1, RefusedIs
  <2>4. CASE Meant(r, index) # {} /\ ~ (~ runs[r].over /\ index \in Running(r)) /\ ~ (~ runs[r].over /\ runs[r].steps[index].at = "pending")
    <3> DEFINE c == CHOOSE i \in Meant(r, index) : TRUE
    <3>1. AsyncChild(r, index) = Revived(r, c)
      BY <1>3, <2>4 DEF AsyncChild
    <3>2. c \in Meant(r, index) /\ (~ runs[r].over => index # NoIndex /\ c = index)
      <4>1. c \in Meant(r, index)
        BY <2>4
      <4>2. ~ runs[r].over => Complete(r) /\ index # NoIndex
        BY <1>1, <1>3 DEF ChildrenInv, Complete
      <4> QED
        BY <4>1, <4>2, MeantOne
    <3> HIDE DEF c
    <3>3. ASSUME Able(Revived(r, c)) PROVE Apt(r, Revived(r, c))
      <4>1. c \in Children(r)
        BY <3>3, RevivedIs
      <4>2. runs[r].steps[c].at \in {"pending", "running", "ended", "detached"} /\ runs[r].steps[c].at # "detached"
        BY <1>1, <4>1 DEF ChildrenInv, ChildSteps
      <4>3. runs[r].over => runs[r].steps[c].at # "running"
        BY <1>1, <4>1 DEF ChildrenInv
      <4>4. ~ runs[r].over => runs[r].steps[c].at = "ended"
        BY <2>4, <3>2, <4>1, <4>2 DEF Running
      <4> QED
        BY <3>3, <4>1, <4>2, <4>3, <4>4, RevivedIs DEF Apt
    <3> QED
      BY <3>1, <3>3, RevivedIs
  <2> QED
    BY <2>1, <2>2, <2>3, <2>4
<1> QED
  BY <1>2, <1>3

\* Each finder answers with a child of the only run that fits.
LEMMA ForegroundAnswerIs ==
  ASSUME ResumeType, ChildrenInv, NEW text, NEW index \in {NoIndex} \cup Nat
  PROVE  LET f == ForegroundAnswer(text, index) S == Fitting(Remembered, text)
         IN /\ S = {} => f = NotFound
            /\ \A r : S = {r} => f = ForegroundChild(r, index)
            /\ S # {} /\ (\A r : S # {r}) => f = Ambiguous
            /\ Able(f) => S = {f.run} /\ Apt(f.run, f)
<1> DEFINE S == Fitting(Remembered, text)
           g == [r \in S |-> ForegroundChild(r, index)]
           f == ForegroundAnswer(text, index)
<1>1. f = Among(g) /\ DOMAIN g = S /\ \A r \in S : g[r] = ForegroundChild(r, index)
  BY DEF ForegroundAnswer
<1>2. IsFiniteSet(S)
  BY IdsApart, FS_Subset DEF Fitting, Remembered, Of
<1>3. \A r \in S : r \in Remembered
  BY DEF Fitting
<1> HIDE DEF S, g, f
<1>4. S = {} => f = NotFound
  BY <1>1, <1>2, AmongIs
<1>5. \A r : S = {r} => f = ForegroundChild(r, index)
  BY <1>1, <1>2, AmongIs
<1>6. S # {} /\ (\A r : S # {r}) => f = Ambiguous
  BY <1>1, <1>2, AmongIs
<1>7. Able(f) => S = {f.run} /\ Apt(f.run, f)
  <2> SUFFICES ASSUME Able(f) PROVE S = {f.run} /\ Apt(f.run, f)
    OBVIOUS
  <2>1. PICK r : S = {r}
    BY <1>4, <1>6, NeitherAble
  <2>2. f = ForegroundChild(r, index) /\ r \in Remembered
    BY <1>3, <1>5, <2>1
  <2> QED
    BY <2>1, <2>2, ForegroundChildIs
<1> QED
  BY <1>4, <1>5, <1>6, <1>7 DEF S, f

\* The same of the finder of background runs.
LEMMA AsyncAnswerIs ==
  ASSUME ResumeType, ChildrenInv, NEW text, NEW index \in {NoIndex} \cup Nat
  PROVE  LET a == AsyncAnswer(text, index) S == Fitting(Of("async"), text)
         IN /\ S = {} => a = NotFound
            /\ \A r : S = {r} => a = AsyncChild(r, index)
            /\ S # {} /\ (\A r : S # {r}) => a = Ambiguous
            /\ Able(a) => S = {a.run} /\ Apt(a.run, a)
<1> DEFINE S == Fitting(Of("async"), text)
           g == [r \in S |-> AsyncChild(r, index)]
           a == AsyncAnswer(text, index)
<1>1. a = Among(g) /\ DOMAIN g = S /\ \A r \in S : g[r] = AsyncChild(r, index)
  BY DEF AsyncAnswer
<1>2. IsFiniteSet(S)
  BY IdsApart, FS_Subset DEF Fitting, Of
<1>3. \A r \in S : r \in DOMAIN runs /\ resumePlan[r].kind = "async"
  BY DEF Fitting, Of
<1> HIDE DEF S, g, a
<1>4. S = {} => a = NotFound
  BY <1>1, <1>2, AmongIs
<1>5. \A r : S = {r} => a = AsyncChild(r, index)
  BY <1>1, <1>2, AmongIs
<1>6. S # {} /\ (\A r : S # {r}) => a = Ambiguous
  BY <1>1, <1>2, AmongIs
<1>7. Able(a) => S = {a.run} /\ Apt(a.run, a)
  <2> SUFFICES ASSUME Able(a) PROVE S = {a.run} /\ Apt(a.run, a)
    OBVIOUS
  <2>1. PICK r : S = {r}
    BY <1>4, <1>6, NeitherAble
  <2>2. a = AsyncChild(r, index) /\ r \in DOMAIN runs /\ resumePlan[r].kind = "async"
    BY <1>3, <1>5, <2>1
  <2> QED
    BY <2>1, <2>2, AsyncChildIs
<1> QED
  BY <1>4, <1>5, <1>6, <1>7 DEF S, a

\* Of two answers the one of the complete id is taken.
LEMMA EitherIs ==
  ASSUME NEW text, NEW f, NEW a, Able(Either(text, f, a))
  PROVE  \/ /\ Able(f) /\ Either(text, f, a) = f
            /\ Able(a) => f.run = text
         \/ /\ Able(a) /\ Either(text, f, a) = a
            /\ Able(f) => a.run = text
            /\ ~ Able(f) => ~ Objects(f, a, text)
<1>1. CASE Able(f) /\ Able(a)
  BY <1>1, NeitherAble DEF Either
<1>2. CASE Able(f) /\ ~ Able(a)
  BY <1>2 DEF Either
<1>3. CASE ~ Able(f) /\ Able(a)
  BY <1>3 DEF Either
<1>4. CASE ~ Able(f) /\ ~ Able(a)
  BY <1>4 DEF Either
<1> QED
  BY <1>1, <1>2, <1>3, <1>4

\* Of how many runs a text is the beginning.
LEMMA SuitingIs ==
  ASSUME ResumeType, NEW text
  PROVE  /\ IsFiniteSet(Suiting(text)) /\ Suiting(text) \subseteq DOMAIN runs
         /\ \A r \in Suiting(text) : IsPrefix(text, r)
         /\ Cardinality(Suiting(text)) \in Nat
         /\ Cardinality(Suiting(text)) <= 1 <=> \A r, s \in Suiting(text) : r = s
<1> DEFINE S == Suiting(text)
<1>1. S \subseteq DOMAIN runs /\ \A r \in S : IsPrefix(text, r)
  BY DEF Suiting, Fitting, Active, Of
<1> HIDE DEF S
<1>2. IsFiniteSet(S) /\ Cardinality(S) \in Nat
  BY <1>1, IdsApart, FS_Subset, FS_CardinalityType
<1>3. ASSUME S = {} PROVE Cardinality(S) <= 1 <=> \A r, s \in S : r = s
  <2>1. Cardinality(S) = 0
    BY <1>3, FS_EmptySet
  <2>2. Cardinality(S) <= 1
    BY <2>1
  <2>3. \A r, s \in S : r = s
    BY <1>3
  <2> QED
    BY <2>2, <2>3
<1>4. ASSUME S # {} PROVE Cardinality(S) <= 1 <=> \A r, s \in S : r = s
  <2>1. Cardinality(S) # 0 /\ (Cardinality(S) = 1 <=> \E x : S = {x})
    BY <1>2, <1>4, FS_EmptySet, FS_Singleton
  <2>2. (\E x : S = {x}) <=> \A r, s \in S : r = s
    BY <1>4
  <2>3. Cardinality(S) <= 1 <=> Cardinality(S) = 1
    BY <1>2, <2>1
  <2> QED
    BY <2>1, <2>2, <2>3
<1> QED
  BY <1>1, <1>2, <1>3, <1>4 DEF S

\* A complete id fits its own run only.
LEMMA WholeId ==
  ASSUME ResumeType, NEW s \in DOMAIN runs, NEW X \in SUBSET DOMAIN runs
  PROVE  Fitting(X, s) = X \cap {s}
<1> QED
  BY IdsApart DEF Fitting

\* What a call of the complete id of a background run, or of one that is remembered, is answered.
LEMMA AsyncWhole ==
  ASSUME ResumeType, ChildrenInv, NEW s \in Of("async"), NEW index \in {NoIndex} \cup Nat
  PROVE  ResumeAnswer(s, index) = AsyncChild(s, index)
<1> DEFINE a == AsyncChild(s, index)
<1>1. s \in DOMAIN runs /\ s # <<>> /\ resumePlan[s].kind = "async" /\ s \notin Of("nested") /\ s \notin Remembered
  BY IdsApart DEF Of, Remembered
<1>2. Suiting(s) = {s}
  BY <1>1, WholeId DEF Suiting, Active, Of
<1>3. ~ (Cardinality(Suiting(s)) > 1) /\ Suiting(s) \cap Of("nested") = {}
  <2>1. Cardinality(Suiting(s)) = 1
    BY <1>2, FS_Singleton
  <2> QED
    BY <1>1, <1>2, <2>1
<1>4. ForegroundAnswer(s, index) = NotFound
  <2>1. Fitting(Remembered, s) = {}
    BY <1>1, WholeId DEF Remembered, Of
  <2> QED
    BY <2>1, ForegroundAnswerIs
<1>5. AsyncAnswer(s, index) = a
  <2>1. Fitting(Of("async"), s) = {s}
    BY <1>1, WholeId DEF Of
  <2> QED
    BY <2>1, AsyncAnswerIs
<1> HIDE DEF a
<1>6. Either(s, NotFound, a) = a
  <2>1. ~ Objects(NotFound, a, s)
    BY <1>1 DEF Objects, NotFound, Refused
  <2> QED
    BY <2>1, NeitherAble DEF Either
<1> QED
  BY <1>3, <1>4, <1>5, <1>6 DEF ResumeAnswer, a

\* So the complete id of a remembered run finds it.
LEMMA RememberedWhole ==
  ASSUME ResumeType, ChildrenInv, NEW s \in Remembered, NEW index \in {NoIndex} \cup Nat
  PROVE  ResumeAnswer(s, index) = ForegroundChild(s, index)
<1> DEFINE f == ForegroundChild(s, index)
<1>1. s \in DOMAIN runs /\ s # <<>> /\ resumePlan[s].kind = "foreground" /\ s \notin Of("nested") /\ s \notin Of("async") /\ runs[s].over
  BY IdsApart DEF Of, Remembered
<1>2. Suiting(s) = {}
  BY <1>1, WholeId DEF Suiting, Active, Of
<1>3. ~ (Cardinality(Suiting(s)) > 1) /\ Suiting(s) \cap Of("nested") = {}
  BY <1>1, <1>2, FS_EmptySet
<1>4. AsyncAnswer(s, index) = NotFound
  <2>1. Fitting(Of("async"), s) = {}
    BY <1>1, WholeId DEF Of
  <2> QED
    BY <2>1, AsyncAnswerIs
<1>5. ForegroundAnswer(s, index) = f
  <2>1. Fitting(Remembered, s) = {s}
    BY <1>1, WholeId DEF Remembered, Of
  <2> QED
    BY <2>1, ForegroundAnswerIs
<1> HIDE DEF f
<1>6. Either(s, f, NotFound) = f
  <2>1. ~ Objects(NotFound, f, s)
    BY <1>1 DEF Objects, NotFound, Refused
  <2> QED
    BY <2>1, NeitherAble DEF Either
<1> QED
  BY <1>3, <1>4, <1>5, <1>6 DEF ResumeAnswer, f

\* A nested run is told while it is at work and revived once it is not.
LEMMA NestedIs ==
  ASSUME ResumeType, NEW r \in Of("nested"), Able(NestedAnswer(r))
  PROVE  NestedAnswer(r).run = r /\ (NestedAnswer(r).how = "live" <=> ~ runs[r].over)
<1>1. CASE runs[r].over
  BY <1>1, RevivedIs DEF NestedAnswer
<1>2. CASE ~ runs[r].over
  BY <1>2 DEF NestedAnswer
<1> QED
  BY <1>1, <1>2

\* What an answer that resumes is.
LEMMA AnswerIs ==
  ASSUME ResumeType, ChildrenInv, NEW text, NEW index \in {NoIndex} \cup Nat, Able(ResumeAnswer(text, index))
  PROVE  LET q == ResumeAnswer(text, index)
             f == ForegroundAnswer(text, index)
             a == AsyncAnswer(text, index)
         IN /\ Cardinality(Suiting(text)) <= 1
            /\ IsPrefix(text, q.run) /\ q.run \in DOMAIN runs
            /\ \/ q.run \in Of("nested") /\ q = NestedAnswer(q.run)
               \/ /\ Suiting(text) \cap Of("nested") = {} /\ q = Either(text, f, a) /\ Apt(q.run, q)
                  /\ q.run \in Remembered \cup Of("async")
<1> DEFINE q == ResumeAnswer(text, index)
           f == ForegroundAnswer(text, index)
           a == AsyncAnswer(text, index)
<1>1. ~ (Cardinality(Suiting(text)) > 1)
  BY NeitherAble DEF ResumeAnswer
<1>2. Cardinality(Suiting(text)) <= 1
  BY <1>1, SuitingIs
<1>3. CASE Suiting(text) \cap Of("nested") # {}
  <2> DEFINE r == CHOOSE r \in Suiting(text) : TRUE
  <2>1. q = NestedAnswer(r)
    BY <1>1, <1>3 DEF ResumeAnswer
  <2>2. r \in Suiting(text) /\ r \in Of("nested")
    BY <1>2, <1>3, SuitingIs
  <2>3. r \in DOMAIN runs /\ IsPrefix(text, r)
    BY <2>2, SuitingIs
  <2> HIDE DEF r
  <2>4. q.run = r
    BY <2>1, <2>2, NestedIs
  <2> QED
    BY <1>2, <2>1, <2>2, <2>3, <2>4
<1>4. CASE Suiting(text) \cap Of("nested") = {}
  <2>1. q = Either(text, f, a)
    BY <1>1, <1>4 DEF ResumeAnswer
  <2>2. (Able(f) /\ q = f) \/ (Able(a) /\ q = a)
    BY <2>1, EitherIs
  <2>3. Able(f) => Fitting(Remembered, text) = {f.run} /\ Apt(f.run, f)
    BY ForegroundAnswerIs
  <2>4. Able(a) => Fitting(Of("async"), text) = {a.run} /\ Apt(a.run, a)
    BY AsyncAnswerIs
  <2>5. Able(f) => f.run \in Remembered /\ f.run \in DOMAIN runs /\ IsPrefix(text, f.run)
    BY <2>3 DEF Fitting, Remembered, Of
  <2>6. Able(a) => a.run \in Of("async") /\ a.run \in DOMAIN runs /\ IsPrefix(text, a.run)
    BY <2>4 DEF Fitting, Of
  <2> HIDE DEF q, f, a
  <2> QED
    BY <1>2, <1>4, <2>1, <2>2, <2>3, <2>4, <2>5, <2>6 DEF q, f, a
<1> QED
  BY <1>3, <1>4

\* No other run that is remembered or on disk could have been meant.
LEMMA NoOther ==
  ASSUME ResumeType, ChildrenInv, NEW text, NEW index \in {NoIndex} \cup Nat, Able(ResumeAnswer(text, index)),
         ResumeAnswer(text, index).run \notin Of("nested"),
         NEW s \in Fitting(Remembered \cup Of("async"), text), s # ResumeAnswer(text, index).run, Able(ResumeAnswer(s, index))
  PROVE  FALSE
<1> DEFINE q == ResumeAnswer(text, index)
           f == ForegroundAnswer(text, index)
           a == AsyncAnswer(text, index)
<1>1. q = Either(text, f, a) /\ q.run \in Remembered \cup Of("async") /\ q.run \in DOMAIN runs /\ Cardinality(Suiting(text)) <= 1
  BY AnswerIs
<1>2. \A r, t \in Suiting(text) : r = t
  BY <1>1, SuitingIs
<1>3. s \in DOMAIN runs /\ IsPrefix(text, s) /\ s \in Remembered \cup Of("async") /\ q.run # s
  BY DEF Fitting, Remembered, Of
<1>4. q.run # text
  BY <1>1, <1>3, IdsApart
<1>5. \/ Able(f) /\ q = f /\ ~ Able(a)
      \/ Able(a) /\ q = a /\ ~ Able(f) /\ ~ Objects(f, a, text)
  BY <1>1, <1>4, EitherIs
<1>6. CASE s \in Of("async")
  <2>1. s \in Suiting(text)
    BY <1>3, <1>6 DEF Suiting, Fitting
  <2>2. Fitting(Of("async"), text) = {s}
    BY <1>2, <1>3, <1>6, <2>1 DEF Suiting, Fitting
  <2>3. a = AsyncChild(s, index) /\ Able(a)
    BY <1>6, <2>2, AsyncAnswerIs, AsyncWhole
  <2>4. Fitting(Of("async"), text) = {a.run}
    BY <2>3, AsyncAnswerIs
  <2> QED
    BY <1>3, <1>5, <2>2, <2>3, <2>4
<1>7. CASE s \in Remembered
  <2>1. s \in Fitting(Remembered, text)
    BY <1>3, <1>7 DEF Fitting
  <2>2. CASE Fitting(Remembered, text) = {s}
    <3>1. f = ForegroundChild(s, index) /\ Able(f)
      BY <1>7, <2>2, ForegroundAnswerIs, RememberedWhole
    <3>2. Fitting(Remembered, text) = {f.run}
      BY <3>1, ForegroundAnswerIs
    <3> QED
      BY <1>3, <1>5, <2>2, <3>1, <3>2
  <2>3. CASE Fitting(Remembered, text) # {s}
    <3>1. f = Ambiguous
      BY <2>1, <2>3, ForegroundAnswerIs
    <3>2. Able(a) /\ q = a /\ ~ Objects(f, a, text)
      BY <1>5, <3>1, NeitherAble
    <3> QED
      BY <1>4, <3>1, <3>2 DEF Objects, Ambiguous
  <2> QED
    BY <2>2, <2>3
<1> QED
  BY <1>3, <1>6, <1>7

\* A call of resume answers as it should.
LEMMA AsksResumeRight ==
  ASSUME ResumeType, ChildrenInv, NEW text, NEW index \in {NoIndex} \cup Nat, AsksResume(text, index)
  PROVE  OneRunMeant' /\ LiveOrOver'
<1> DEFINE q == ResumeAnswer(text, index)
<1>1. /\ reply'.asked = text /\ reply'.index = index /\ reply'.how = q.how /\ reply'.run = q.run /\ reply'.child = q.child
      /\ runs' = runs /\ resumePlan' = resumePlan
  BY DEF AsksResume
<1>2. Able(reply') <=> Able(q)
  BY <1>1 DEF Able
<1>3. CASE ~ Able(q)
  BY <1>2, <1>3 DEF OneRunMeant, LiveOrOver
<1>4. CASE Able(q)
  <2>1. /\ Cardinality(Suiting(text)) <= 1 /\ IsPrefix(text, q.run) /\ q.run \in DOMAIN runs
        /\ \/ q.run \in Of("nested") /\ q = NestedAnswer(q.run)
           \/ Apt(q.run, q) /\ q.run \in Remembered \cup Of("async")
    BY <1>4, AnswerIs
  <2>2. q.run \notin Of("nested") => \A s \in Fitting(Remembered \cup Of("async"), text) \ {q.run} : ~ Able(ResumeAnswer(s, index))
    BY <1>4, NoOther
  <2>3. OneRunMeant'
    <3> HIDE DEF q
    <3>0. runs' = runs /\ resumePlan' = resumePlan
      BY <1>1
    <3>1. /\ Suiting(text)' = Suiting(text) /\ Of("nested")' = Of("nested")
          /\ Fitting(Remembered \cup Of("async"), text)' = Fitting(Remembered \cup Of("async"), text)
      BY <3>0 DEF Suiting, Of, Fitting, Remembered, Active
    <3>2. \A s : ResumeAnswer(s, index)' = ResumeAnswer(s, index)
      <4> TAKE s
      <4>1. Suiting(s)' = Suiting(s) /\ Of("nested")' = Of("nested")
        BY <3>0 DEF Suiting, Of, Fitting, Remembered, Active
      <4>2. \A r : NestedAnswer(r)' = NestedAnswer(r)
        BY <3>0 DEF NestedAnswer, Revived, HasSession, ChildrenFound, Children
      <4>3. ForegroundAnswer(s, index)' = ForegroundAnswer(s, index)
        BY <3>0 DEF ForegroundAnswer, Fitting, Of, Remembered, Active, ForegroundChild, Revived, HasSession, Meant, ChildrenFound, Children
      <4>4. AsyncAnswer(s, index)' = AsyncAnswer(s, index)
        BY <3>0 DEF AsyncAnswer, Fitting, Of, Active, AsyncChild, Running, Live, Revived, HasSession, Meant, ChildrenFound, Children
      <4> QED
        BY <4>1, <4>2, <4>3, <4>4 DEF ResumeAnswer, Either
    <3> QED
      BY <1>1, <2>1, <2>2, <3>1, <3>2 DEF OneRunMeant
  <2>4. LiveOrOver'
    <3>1. CASE q.run \in Of("nested") /\ q = NestedAnswer(q.run)
      <4>1. resumePlan[q.run].kind = "nested" /\ (q.how = "live" <=> ~ runs[q.run].over)
        BY <1>4, <3>1, NestedIs DEF Of
      <4>2. runs[q.run].over \in BOOLEAN
        BY <2>1 DEF ResumeType, RunsOf
      <4> HIDE DEF q
      <4> QED
        BY <1>1, <4>1, <4>2 DEF LiveOrOver
    <3>2. CASE Apt(q.run, q) /\ q.run \in Remembered \cup Of("async")
      <4>1. resumePlan[q.run].kind # "nested"
        BY <3>2 DEF Remembered, Of
      <4> HIDE DEF q
      <4> QED
        BY <1>1, <3>2, <4>1 DEF LiveOrOver, Apt
    <3> QED
      BY <2>1, <3>1, <3>2
  <2> QED
    BY <2>3, <2>4
<1> QED
  BY <1>3, <1>4

\* Without a reply there is nothing to show.
LEMMA NothingAsked == reply = NoReply => OneRunMeant /\ LiveOrOver
<1> QED
  BY DEF NoReply, OneRunMeant, LiveOrOver, Able

\* An advice goes on to work.
LEMMA AdviceHolds == ASSUME ResumeType, ChildrenInv, AdviceInv PROVE AdviceWorks
<1> SUFFICES ASSUME advice # NoAdvice, advice.by \in runs[advice.run].known, runs[advice.run].steps[advice.child].there
             PROVE  ResumeAnswer(advice.run, advice.index) = [how |-> "revive", run |-> advice.run, child |-> advice.child]
  BY DEF AdviceWorks
<1> DEFINE r == advice.run
           i == advice.index
           c == advice.child
<1>1. /\ r \in DOMAIN resumePlan /\ resumePlan[r].kind = "async" /\ runs[r].over
      /\ i \in {NoIndex} \cup Nat /\ c \in 1..resumePlan[r].children
      /\ runs[r].known # {} /\ Meant(r, i) = {c} /\ runs[r].steps[c].there
      /\ runs[r].steps[c].recorded \/ (Len(ChildrenFound(r)) = 1 /\ runs[r].session)
  BY DEF AdviceInv
<1>2. r \in Of("async")
  BY <1>1 DEF Of, ResumeType
<1>3. Children(r) = 1..resumePlan[r].children
  BY <1>1, RunShape
<1> HIDE DEF r, i, c
<1>4. AsyncChild(r, i) = Revived(r, c)
  <2>1. (CHOOSE d \in Meant(r, i) : TRUE) = c
    BY <1>1
  <2> QED
    BY <1>1, <2>1 DEF AsyncChild
<1>5. Revived(r, c) = [how |-> "revive", run |-> r, child |-> c]
  BY <1>1, <1>3 DEF Revived, HasSession
<1> QED
  BY <1>1, <1>2, <1>4, <1>5, AsyncWhole DEF r, i, c

\* What a call of status advises is possible at that moment.
LEMMA AsksStatusRight ==
  ASSUME ResumeType, NEW text, AsksStatus(text)
  PROVE  AdviceInv'
<1>1. resumePlan' = resumePlan /\ runs' = runs
  BY DEF AsksStatus
<1>2. CASE Guidance(text) = {}
  BY <1>2 DEF AsksStatus, AdviceInv
<1>3. CASE Guidance(text) # {}
  <2>1. advice' \in Guidance(text)
    BY <1>3 DEF AsksStatus
  <2>2. PICK r \in Suiting(text) \cap Of("async") : runs[r].over /\ Revivable(r) # {} /\ advice' = Advice(r)
    BY <2>1 DEF Guidance
  <2> DEFINE k == CHOOSE i \in Revivable(r) : \A j \in Revivable(r) : i <= j
             n == resumePlan[r].children
             f == ChildrenFound(r)
             x == IF Len(f) = 1 THEN NoIndex ELSE k
             by == IF "dir" \in runs[r].known THEN "dir" ELSE "result"
  <2>3. r \in DOMAIN runs /\ r \in DOMAIN resumePlan /\ resumePlan[r].kind = "async"
    BY <2>2 DEF Of, ResumeType
  <2>4. Children(r) = 1..n /\ n \in Nat \ {0} /\ DOMAIN f = 1..Len(f) /\ Len(f) \in Nat
    BY <2>3, RunShape, ChildrenFoundAre
  <2>5. k \in Revivable(r)
    <3>1. Revivable(r) \subseteq Nat
      BY <2>4 DEF Revivable
    <3> QED
      BY <2>2, <3>1, LeastNat
  <2>6. k \in 1..Len(f) /\ HasSession(r, f[k])
    BY <2>4, <2>5 DEF Revivable
  <2>7. advice' = [run |-> r, index |-> x, child |-> f[k], by |-> by]
    BY <2>2 DEF Advice
  <2> HIDE DEF k, f, n
  <2>8. f[k] \in 1..n /\ (runs[r].steps[f[k]].recorded \/ (Len(f) = 1 /\ runs[r].session))
    BY <2>4, <2>6 DEF HasSession, f
  <2>9. x \in {NoIndex} \cup Nat /\ Meant(r, x) = {f[k]}
    <3>1. k \in Nat /\ k # NoIndex
      BY <2>4, <2>6, ResumeAssumption
    <3>2. Len(f) = 1 => k = 1
      BY <2>4, <2>6
    <3>3. Meant(r, x) = IF x = NoIndex THEN IF Len(f) = 1 THEN {f[1]} ELSE {} ELSE {f[i] : i \in {x} \cap DOMAIN f}
      BY DEF Meant, f
    <3> QED
      BY <2>4, <2>6, <3>1, <3>2, <3>3
  <2> HIDE DEF x
  <2>10. by \in {"dir", "result"} /\ (by = "result" => "dir" \notin runs[r].known)
    OBVIOUS
  <2> HIDE DEF by
  <2>11. advice'.run = r /\ advice'.index = x /\ advice'.child = f[k] /\ advice'.by = by
    BY <2>7
  <2>12. \A s, y : ChildrenFound(s)' = ChildrenFound(s) /\ Meant(s, y)' = Meant(s, y)
    BY <1>1, ChildrenFoundStay
  <2> QED
    BY <1>1, <2>2, <2>3, <2>8, <2>9, <2>10, <2>11, <2>12 DEF AdviceInv, n, f
<1> QED
  BY <1>2, <1>3

\* Something happens to a run: what is over, and what is recorded, stays so.
LEMMA HappensRight ==
  ASSUME ResumeType, ChildrenInv, AdviceInv, NEW r \in DOMAIN runs, NEW run, Happens(r, run), run \in RunsOf(r),
         runs[r].over => run.over /\ run.known \subseteq runs[r].known /\ run.listed = runs[r].listed /\ run.session = runs[r].session,
         run.over \/ resumePlan[r].kind # "async" \/ "dir" \in run.known,
         \A i \in 1..resumePlan[r].children :
           /\ run.over => run.steps[i].at # "running"
           /\ resumePlan[r].kind # "foreground" => run.steps[i].at # "detached"
           /\ runs[r].over /\ runs[r].steps[i].recorded => run.steps[i].recorded
  PROVE  ResumeType' /\ ChildrenInv' /\ AdviceInv' /\ reply' = NoReply
<1>1. /\ resumePlan' = resumePlan /\ advice' = advice /\ reply' = NoReply /\ r \in DOMAIN resumePlan
      /\ runs' = [runs EXCEPT ![r] = run]
  BY DEF Happens, ResumeType
<1>2. runs' = [q \in DOMAIN resumePlan |-> runs'[q]] /\ runs'[r] = run /\ \A q \in DOMAIN resumePlan : q # r => runs'[q] = runs[q]
  BY <1>1 DEF ResumeType
<1>3. ResumeType'
  BY <1>1, <1>2 DEF ResumeType, RunsOf
<1>4. ChildrenInv'
  BY <1>1, <1>2 DEF ChildrenInv
<1>5. AdviceInv'
  <2> SUFFICES ASSUME advice # NoAdvice PROVE AdviceInv'
    BY <1>1 DEF AdviceInv
  <2> DEFINE q == advice.run
  <2>1. CASE q # r
    <3>1. q \in DOMAIN resumePlan /\ runs'[q] = runs[q]
      BY <1>2, <2>1 DEF AdviceInv
    <3>2. \A s, y : runs'[s] = runs[s] => ChildrenFound(s)' = ChildrenFound(s) /\ Meant(s, y)' = Meant(s, y)
      BY <1>1, ChildrenFoundStay
    <3> QED
      BY <1>1, <3>1, <3>2 DEF AdviceInv
  <2>2. CASE q = r
    <3> DEFINE n == resumePlan[r].children
    <3>1. runs[r].over /\ run.over /\ run.known \subseteq runs[r].known /\ run.listed = runs[r].listed /\ run.session = runs[r].session
      BY <2>2 DEF AdviceInv
    <3>2. DOMAIN run.steps = DOMAIN runs[r].steps
      BY <1>1, RunShape DEF RunsOf, Children
    <3>3. ASSUME advice.by \in run.known
          PROVE  Meant(r, advice.index)' = Meant(r, advice.index) /\ Len(ChildrenFound(r))' = Len(ChildrenFound(r))
      <4>1. "dir" \in run.known <=> "dir" \in runs[r].known
        BY <2>2, <3>1, <3>3 DEF AdviceInv
      <4>2. ChildrenFound(r)' = ChildrenFound(r)
        BY <1>1, <1>2, <3>1, <3>2, <4>1 DEF ChildrenFound, Children
      <4> QED
        BY <1>1, <4>2 DEF Meant
    <3>4. advice.child \in 1..n
      BY <2>2 DEF AdviceInv
    <3>5. runs[r].steps[advice.child].recorded => run.steps[advice.child].recorded
      BY <3>1, <3>4
    <3>6. runs'[r] = run
      BY <1>2
    <3> QED
      BY <1>1, <2>2, <3>1, <3>3, <3>4, <3>5, <3>6 DEF AdviceInv
  <2> QED
    BY <2>1, <2>2
<1> QED
  BY <1>1, <1>3, <1>4, <1>5

\* One child of a run changes.
LEMMA StepRight ==
  ASSUME ResumeType, ChildrenInv, AdviceInv, NEW r \in DOMAIN runs, NEW i \in Children(r), NEW step \in ChildSteps, StepIs(r, i, step),
         runs[r].over => step.at # "running" /\ step.recorded = runs[r].steps[i].recorded,
         resumePlan[r].kind # "foreground" => step.at # "detached"
  PROVE  ResumeType' /\ ChildrenInv' /\ AdviceInv' /\ reply' = NoReply
<1> DEFINE run == [runs[r] EXCEPT !.steps[i] = step]
<1>1. r \in DOMAIN resumePlan /\ runs[r] \in RunsOf(r) /\ Children(r) = 1..resumePlan[r].children /\ Happens(r, run)
  BY RunShape DEF StepIs, ResumeType
<1>2. run \in RunsOf(r) /\ run.over = runs[r].over /\ run.known = runs[r].known /\ run.listed = runs[r].listed /\ run.session = runs[r].session
      /\ run.steps[i] = step /\ \A j \in 1..resumePlan[r].children : j # i => run.steps[j] = runs[r].steps[j]
  BY <1>1 DEF RunsOf
<1> HIDE DEF run
<1>3. run.over \/ resumePlan[r].kind # "async" \/ "dir" \in run.known
  BY <1>1, <1>2 DEF ChildrenInv
<1>4. \A j \in 1..resumePlan[r].children :
        /\ run.over => run.steps[j].at # "running"
        /\ resumePlan[r].kind # "foreground" => run.steps[j].at # "detached"
        /\ runs[r].over /\ runs[r].steps[j].recorded => run.steps[j].recorded
  BY <1>1, <1>2 DEF ChildrenInv
<1> QED
  BY <1>1, <1>2, <1>3, <1>4, HappensRight

\* Whatever happens to a run.
LEMMA RunGoesOn ==
  ASSUME ResumeType, ChildrenInv, AdviceInv, NEW r \in DOMAIN runs,
         \/ RunIsOver(r) \/ \E trace \in {"dir", "result", "memory"} : TraceGoes(r, trace)
         \/ \E i \in Children(r) : ChildBegins(r, i) \/ ChildIsOver(r, i) \/ ChildDetaches(r, i) \/ SessionGoes(r, i)
  PROVE  ResumeType' /\ ChildrenInv' /\ AdviceInv' /\ reply' = NoReply
<1> DEFINE n == resumePlan[r].children
<1>1. /\ r \in DOMAIN resumePlan /\ runs[r] \in RunsOf(r) /\ Children(r) = 1..n /\ n \in Nat \ {0} /\ Len(runs[r].steps) = n
      /\ \A i \in Children(r) : runs[r].steps[i] \in ChildSteps
  BY RunShape DEF ResumeType
<1>2. /\ \A i \in Children(r) : runs[r].steps[i].at = "running" => ~ runs[r].over
      /\ \A i \in Children(r) : resumePlan[r].kind = "foreground" \/ runs[r].steps[i].at # "detached"
  BY <1>1 DEF ChildrenInv
<1>3. ASSUME NEW i \in Children(r), ChildBegins(r, i) PROVE ResumeType' /\ ChildrenInv' /\ AdviceInv' /\ reply' = NoReply
  <2> DEFINE step == [runs[r].steps[i] EXCEPT !.at = "running"]
  <2>1. StepIs(r, i, step) /\ ~ runs[r].over
    BY <1>3 DEF ChildBegins
  <2>2. step \in ChildSteps /\ step.at = "running"
    BY <1>1 DEF ChildSteps
  <2> HIDE DEF step
  <2> QED
    BY <2>1, <2>2, StepRight
<1>4. ASSUME NEW i \in Children(r), ChildIsOver(r, i) PROVE ResumeType' /\ ChildrenInv' /\ AdviceInv' /\ reply' = NoReply
  <2>1. PICK file \in {runs[r].steps[i].there, TRUE} : StepIs(r, i, [runs[r].steps[i] EXCEPT !.at = "ended", !.there = file])
    BY <1>4 DEF ChildIsOver
  <2> DEFINE step == [runs[r].steps[i] EXCEPT !.at = "ended", !.there = file]
  <2>2. file \in BOOLEAN
    BY <1>1 DEF ChildSteps
  <2>3. step \in ChildSteps /\ step.at = "ended" /\ step.recorded = runs[r].steps[i].recorded
    BY <1>1, <2>2 DEF ChildSteps
  <2> HIDE DEF step
  <2> QED
    BY <2>1, <2>3, StepRight DEF step
<1>5. ASSUME NEW i \in Children(r), ChildDetaches(r, i) PROVE ResumeType' /\ ChildrenInv' /\ AdviceInv' /\ reply' = NoReply
  <2> DEFINE step == [runs[r].steps[i] EXCEPT !.at = "detached"]
  <2>1. StepIs(r, i, step) /\ resumePlan[r].kind = "foreground" /\ ~ runs[r].over
    <3>1. runs[r].steps[i].at = "running" /\ StepIs(r, i, step) /\ resumePlan[r].kind = "foreground"
      BY <1>5 DEF ChildDetaches
    <3>2. runs[r].steps[i].at = "running" => ~ runs[r].over
      BY <1>2
    <3> QED
      BY <3>1, <3>2
  <2>2. step \in ChildSteps /\ step.at = "detached"
    BY <1>1 DEF ChildSteps
  <2> HIDE DEF step
  <2> QED
    BY <2>1, <2>2, StepRight
<1>6. ASSUME NEW i \in Children(r), SessionGoes(r, i) PROVE ResumeType' /\ ChildrenInv' /\ AdviceInv' /\ reply' = NoReply
  <2> DEFINE step == [runs[r].steps[i] EXCEPT !.there = FALSE]
  <2>1. StepIs(r, i, step)
    BY <1>6 DEF SessionGoes
  <2>2. step \in ChildSteps /\ step.at = runs[r].steps[i].at /\ step.recorded = runs[r].steps[i].recorded
    BY <1>1 DEF ChildSteps
  <2> HIDE DEF step
  <2> DEFINE at == runs[r].steps[i].at
  <2>5. (at = "running" => ~ runs[r].over) /\ (resumePlan[r].kind = "foreground" \/ at # "detached") /\ step.at = at
    BY <1>2, <2>2
  <2> HIDE DEF at
  <2>3. runs[r].over => step.at # "running" /\ step.recorded = runs[r].steps[i].recorded
    BY <2>2, <2>5
  <2>4. resumePlan[r].kind # "foreground" => step.at # "detached"
    BY <2>5
  <2> QED
    BY <2>1, <2>2, <2>3, <2>4, StepRight
<1>7. ASSUME NEW trace, TraceGoes(r, trace) PROVE ResumeType' /\ ChildrenInv' /\ AdviceInv' /\ reply' = NoReply
  <2> DEFINE run == [runs[r] EXCEPT !.known = @ \ {trace}]
  <2>1. Happens(r, run)
    BY <1>7 DEF TraceGoes
  <2>2. /\ run \in RunsOf(r) /\ run.over = runs[r].over /\ run.steps = runs[r].steps /\ run.known \subseteq runs[r].known
        /\ run.listed = runs[r].listed /\ run.session = runs[r].session
    BY <1>1 DEF RunsOf
  <2>5. run.over
    BY <1>7, <2>2 DEF TraceGoes
  <2> HIDE DEF run
  <2>4. ASSUME NEW i \in 1..resumePlan[r].children
        PROVE  /\ run.over => run.steps[i].at # "running"
               /\ resumePlan[r].kind # "foreground" => run.steps[i].at # "detached"
               /\ runs[r].over /\ runs[r].steps[i].recorded => run.steps[i].recorded
    <3>1. i \in Children(r) /\ run.steps[i] = runs[r].steps[i]
      BY <1>1, <2>2
    <3>2. (runs[r].steps[i].at = "running" => ~ runs[r].over) /\ (resumePlan[r].kind = "foreground" \/ runs[r].steps[i].at # "detached")
      BY <1>2, <3>1
    <3> QED
      BY <2>2, <3>1, <3>2
  <2> QED
    BY <2>1, <2>2, <2>4, <2>5, HappensRight
<1>8. CASE RunIsOver(r)
  <2>1. ~ runs[r].over /\ Running(r) = {}
    BY <1>8 DEF RunIsOver
  <2>2. \A i \in 1..n : runs[r].steps[i].at # "running" /\ (resumePlan[r].kind # "foreground" => runs[r].steps[i].at # "detached")
    BY <1>1, <1>2, <2>1 DEF Running
  <2>3. CASE resumePlan[r].kind = "async"
    <3>1. PICK q \in Listings(r), session \in {FALSE} \cup {runs[r].steps[i].there : i \in ThatBegan(r)} :
            Happens(r, [runs[r] EXCEPT !.over = TRUE, !.known = @ \cup {"result"}, !.listed = q, !.session = session])
      BY <1>8, <2>3 DEF RunIsOver
    <3> DEFINE run == [runs[r] EXCEPT !.over = TRUE, !.known = @ \cup {"result"}, !.listed = q, !.session = session]
    <3>2. q \in Seq(0..n)
      <4>1. PICK k \in 0..(n + 1) : q \in [1..k -> 0..n]
        BY <1>1, <3>1 DEF Listings
      <4> QED
        BY <1>1, <4>1, SeqDef
    <3>3. session \in BOOLEAN
      BY <1>1, <3>1 DEF ThatBegan, ChildSteps
    <3>4. run \in RunsOf(r) /\ run.over = TRUE /\ run.steps = runs[r].steps
      BY <1>1, <3>2, <3>3 DEF RunsOf
    <3> HIDE DEF run
    <3> QED
      BY <2>1, <2>2, <3>1, <3>4, HappensRight DEF run
  <2>4. CASE resumePlan[r].kind # "async"
    <3> DEFINE AtEnd(step) == [step EXCEPT !.recorded = @ \/ step.there]
               f == [i \in Children(r) |-> AtEnd(runs[r].steps[i])]
               run == [runs[r] EXCEPT !.over = TRUE, !.steps = f]
    <3>1. Happens(r, run)
      BY <1>8, <2>4 DEF RunIsOver
    <3>2. ASSUME NEW i \in Children(r) PROVE AtEnd(runs[r].steps[i]) \in ChildSteps /\ AtEnd(runs[r].steps[i]).at = runs[r].steps[i].at
      BY <1>1 DEF ChildSteps
    <3>3. f \in [1..n -> ChildSteps] /\ \A i \in 1..n : f[i].at = runs[r].steps[i].at
      BY <1>1, <3>2
    <3> HIDE DEF f
    <3>4. run \in RunsOf(r) /\ run.over = TRUE /\ run.steps = f
      BY <1>1, <3>3 DEF RunsOf
    <3> HIDE DEF run
    <3> QED
      BY <2>1, <2>2, <2>4, <3>1, <3>3, <3>4, HappensRight
  <2> QED
    BY <2>3, <2>4
<1> QED
  BY <1>3, <1>4, <1>5, <1>6, <1>7, <1>8

ResumeInv == ResumeType /\ ChildrenInv /\ AdviceInv /\ OneRunMeant /\ LiveOrOver

\* The invariants of resuming hold at first.
LEMMA ResumeStarts == ResumeInit => ResumeInv
<1> SUFFICES ASSUME ResumeInit PROVE ResumeInv
  OBVIOUS
<1> DEFINE run(r) == [over |-> FALSE, known |-> {IF resumePlan[r].kind = "async" THEN "dir" ELSE "memory"},
                      listed |-> <<>>, session |-> FALSE, steps |-> [i \in 1..resumePlan[r].children |-> Waiting(r)]]
<1>1. resumePlan \in ResumePlan /\ runs = [r \in DOMAIN resumePlan |-> run(r)] /\ reply = NoReply /\ advice = NoAdvice
  BY DEF ResumeInit
<1>2. ASSUME NEW r \in DOMAIN resumePlan 
      PROVE  /\ runs[r] \in RunsOf(r) /\ (resumePlan[r].kind # "async" \/ "dir" \in runs[r].known)
             /\ \A i \in 1..resumePlan[r].children : runs[r].steps[i].at = "pending"
  <2> DEFINE w == Waiting(r)
             f == [i \in 1..resumePlan[r].children |-> w]
             no == FALSE
             kn == {IF resumePlan[r].kind = "async" THEN "dir" ELSE "memory"}
             nil == <<>>
             q == [over |-> no, known |-> kn, listed |-> nil, session |-> no, steps |-> f]
  <2>1. w \in ChildSteps /\ w.at = "pending"
    BY <1>1, ResumeAssumption DEF Waiting, ChildSteps
  <2>2. no \in BOOLEAN /\ kn \in SUBSET {"dir", "result", "memory"} /\ runs[r] = q
    BY <1>1
  <2>5. nil \in Seq(0..resumePlan[r].children) /\ (resumePlan[r].kind # "async" \/ "dir" \in kn)
    OBVIOUS
  <2> HIDE DEF w, no, kn, nil
  <2>3. f \in [1..resumePlan[r].children -> ChildSteps] /\ \A i \in 1..resumePlan[r].children : f[i].at = "pending"
    BY <2>1
  <2> HIDE DEF f
  <2>4. q \in RunsOf(r) /\ q.steps = f /\ q.known = kn
    BY <2>2, <2>3, <2>5 DEF RunsOf
  <2> QED
    BY <2>2, <2>3, <2>4, <2>5
<1> HIDE DEF run
<1>3. runs = [r \in DOMAIN resumePlan |-> runs[r]]
  BY <1>1
<1> QED
  BY <1>1, <1>2, <1>3, NothingAsked DEF ResumeInv, ResumeType, ChildrenInv, AdviceInv

\* Every step keeps them.
LEMMA ResumeSteps == ASSUME ResumeInv, ResumeNext PROVE ResumeInv'
<1>1. ResumeType /\ ChildrenInv /\ AdviceInv
  BY DEF ResumeInv
<1>2. ASSUME runs' = runs, resumePlan' = resumePlan PROVE ResumeType' /\ ChildrenInv'
  BY <1>1, <1>2 DEF ResumeType, ChildrenInv, RunsOf
<1>3. ASSUME NEW text, AsksStatus(text) PROVE ResumeInv'
  <2>1. AdviceInv'
    BY <1>1, <1>3, AsksStatusRight
  <2>2. OneRunMeant' /\ LiveOrOver'
    BY <1>3 DEF AsksStatus, NoReply, OneRunMeant, LiveOrOver, Able
  <2> QED
    BY <1>2, <1>3, <2>1, <2>2 DEF AsksStatus, ResumeInv
<1>4. ASSUME NEW text, NEW index \in {NoIndex} \cup 1..2, AsksResume(text, index) PROVE ResumeInv'
  <2>1. OneRunMeant' /\ LiveOrOver'
    BY <1>1, <1>4, AsksResumeRight
  <2>2. AdviceInv'
    BY <1>1, <1>4 DEF AsksResume, AdviceInv, Meant, ChildrenFound, Children
  <2> QED
    BY <1>2, <1>4, <2>1, <2>2 DEF AsksResume, ResumeInv
<1>5. ASSUME NEW r \in DOMAIN runs,
             \/ RunIsOver(r) \/ \E trace \in {"dir", "result", "memory"} : TraceGoes(r, trace)
             \/ \E i \in Children(r) : ChildBegins(r, i) \/ ChildIsOver(r, i) \/ ChildDetaches(r, i) \/ SessionGoes(r, i)
      PROVE  ResumeInv'
  <2>1. ResumeType' /\ ChildrenInv' /\ AdviceInv' /\ reply' = NoReply
    BY <1>1, <1>5, RunGoesOn
  <2>2. OneRunMeant' /\ LiveOrOver'
    BY <2>1 DEF NoReply, OneRunMeant, LiveOrOver, Able
  <2> QED
    BY <2>1, <2>2 DEF ResumeInv
<1> QED
  BY <1>3, <1>4, <1>5 DEF ResumeNext

\* However long ids are and however they begin, whatever runs there are and however
\* calls, the end of runs and the loss of files follow each other: a call resumes the
\* run and the child it means or none, and what status advised goes on to work.
THEOREM CallsReachTheirRun == Spec => []ResumesRight
<1>1. Init => ResumeInv
  BY ResumeStarts DEF Init
<1>2. ResumeInv /\ [Next]_vars => ResumeInv'
  <2> SUFFICES ASSUME ResumeInv, [Next]_vars PROVE ResumeInv'
    OBVIOUS
  <2>1. CASE UNCHANGED resumeVars
    <3>1. resumePlan' = resumePlan /\ runs' = runs /\ reply' = reply /\ advice' = advice
      BY <2>1 DEF resumeVars
    <3>0. \A s, y : ChildrenFound(s)' = ChildrenFound(s) /\ Meant(s, y)' = Meant(s, y)
      BY <3>1, ChildrenFoundStay
    <3>2. ResumeType' /\ ChildrenInv' /\ AdviceInv'
      BY <3>1, <3>0 DEF ResumeInv, ResumeType, RunsOf, ChildrenInv, AdviceInv
    <3>3. OneRunMeant' <=> OneRunMeant
      BY <3>1 DEF OneRunMeant, Suiting, Fitting, Active, Remembered, Of, ResumeAnswer, NestedAnswer, Revived, ForegroundAnswer,
                  ForegroundChild, AsyncAnswer, AsyncChild, Meant, HasSession, ChildrenFound, Children, Running
    <3>4. LiveOrOver' <=> LiveOrOver
      BY <3>1 DEF LiveOrOver
    <3> QED
      BY <3>2, <3>3, <3>4 DEF ResumeInv
  <2>2. CASE ResumeNext
    BY <2>2, ResumeSteps
  <2> QED
    BY <2>1, <2>2, Separate
<1>3. ResumeInv => ResumesRight
  BY AdviceHolds DEF ResumeInv, ResumesRight
<1> QED
  BY <1>1, <1>2, <1>3, PTL DEF Spec

\* Whatever settings there are and whatever any number of calls save or remove, one after
\* another, at once or dying half-way: where calls do not meet on a file, what was saved
\* is what agents are discovered with, and everything else in the file is kept.
THEOREM SettingsAreKept == Spec => []OverridesHold
<1>1. Init => OverrideInv
  BY OverridesStart DEF Init
<1>2. OverrideInv /\ [Next]_vars => OverrideInv'
  <2> SUFFICES ASSUME OverrideInv, [Next]_vars PROVE OverrideInv'
    OBVIOUS
  <2>1. CASE UNCHANGED overrideVars
    <3>1. overridePlan' = overridePlan /\ settings' = settings /\ saver' = saver /\ saved' = saved
      BY <2>1 DEF overrideVars
    <3> QED
      BY <3>1 DEF OverrideInv, OverrideType, OneAtATime, Saving, FilesInv, Undisturbed, Wants
  <2>2. CASE OverridesNext
    BY <2>2, OverridesSteps
  <2> QED
    BY <2>1, <2>2, Separate
<1>3. OverrideInv => OverridesHold
  BY OverridesFollow
<1> QED
  BY <1>1, <1>2, <1>3, PTL DEF Spec

\* Whatever files there are and however many calls create, update, rename and delete
\* definitions, one after another, at once or dying half-way (agent-management.ts): calls
\* that follow one another give no two definitions of a scope one name, answer the truth
\* and lose no text but that of the file they took, and a file that no call asks for stays.
THEOREM DefinitionsAreKept == Spec => []DefinitionsHold
<1>1. Init => DefinitionInv
  BY DefinitionsStart DEF Init
<1>2. DefinitionInv /\ [Next]_vars => DefinitionInv'
  BY DefinitionsSteps, Separate
<1>3. DefinitionInv => DefinitionsHold
  BY DefinitionsFollow
<1> QED
  BY <1>1, <1>2, <1>3, PTL DEF Spec

(***************************************************************************)
(* Skills, the dialog with its text fields, and chunks.                    *)
(***************************************************************************)

\* The service of skills starts with some files and without an answer.
LEMMA SkillsAtFirst == Init => SkillsInv /\ given = NoAnswerYet
<1> SUFFICES ASSUME Init PROVE SkillsInv /\ given = NoAnswerYet
  OBVIOUS
<1>1. SkillsInit /\ skillFile \in Chosen("skills", SkillFiles)
  BY DEF Init
<1>2. SkillFiles # {}
  <2> DEFINE absent == [there |-> FALSE, mtime |-> 0, text |-> 0, blurred |-> FALSE]
  <2>1. [path \in SkillFile |-> absent] \in SkillFiles
    BY DEF SkillFiles
  <2> QED
    BY <2>1
<1> HIDE DEF SkillFiles
<1>3. One(SkillFiles) \in SkillFiles
  BY <1>2 DEF One
<1>4. skillFile \in SkillFiles
  BY <1>1, <1>3 DEF Chosen
<1> QED
  BY <1>1, <1>4, SkillsStart

\* However the skill files change between and during the calls, whichever directories are
\* asked for and whatever the caches hold (agents/skills.ts): a call accounts for each name
\* as often as it was asked, gives each found one the text of a file that is there, of the
\* highest priority if the list was made anew, and the caches keep their bounds.
THEOREM SkillsAreRight == Spec => []SkillsHold
<1>1. Init => SkillsInv /\ (given = NoAnswerYet \/ SkillsHold)
  BY SkillsAtFirst
<1>2. SkillsInv /\ (given = NoAnswerYet \/ SkillsHold) /\ [Next]_vars
        => SkillsInv' /\ (given = NoAnswerYet \/ SkillsHold)'
  BY SkillsStep, Separate
<1>3. SkillsInv /\ (given = NoAnswerYet \/ SkillsHold) => SkillsHold
  BY NothingAnswered
<1> QED
  BY <1>1, <1>2, <1>3, PTL DEF Spec

\* Whatever is typed, pasted and chosen in the dialog and its text fields, on screens of
\* any size (chain-clarify.ts, text-editor.ts): cursor, wrapped lines and shown part agree,
\* what is launched is what was shown, readers follow a renamed output, and a level of
\* thinking is one the model supports.
THEOREM DialogsHold == Spec => []DialogHolds
<1>1. Init => ClarifyInv /\ EditorInv
  BY ClarifyStart, EditorStart DEF Init
<1>2. ClarifyInv /\ EditorInv /\ [Next]_vars => ClarifyInv' /\ EditorInv'
  BY ClarifyStep, EditorStep, Separate
<1>3. ClarifyInv /\ EditorInv => DialogHolds
  BY ClarifyHolds, EditorRight DEF DialogHolds
<1> QED
  BY <1>1, <1>2, <1>3, PTL DEF Spec

\* Whatever the sections, paragraphs and sentences of a document and their sizes, and for
\* any target, overlap and minimum (chunker.ts): the chunks hold its sentences, each once
\* and in order, within the target as far as sentences allow, and none but the first is
\* below the minimum.
THEOREM ChunksAreRight == Spec => []ChunksHold
<1>1. Init => ChunkerInv
  BY ChunkerStart DEF Init
<1>2. ChunkerInv /\ [Next]_vars => ChunkerInv'
  BY ChunkerStep, Separate
<1>3. ChunkerInv => ChunksHold
  BY ChunkerRight
<1> QED
  BY <1>1, <1>2, <1>3, PTL DEF Spec
=============================================================================
