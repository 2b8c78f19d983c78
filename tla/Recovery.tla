------------------------------- MODULE Recovery -------------------------------
(***************************************************************************)
(* Recovery from context pressure: a prompt is measured, the session stores *)
(* are opened, and the orchestrator tries its four strategies in order.     *)
(***************************************************************************)
EXTENDS Integers, Sequences, TLC

CONSTANTS
  Total,        \* the context window, in tokens
  RecoveryInput \* what a recovery finds: see Beginning

ASSUME RecoveryAssumption ==
  /\ Total \in Nat \ {0}
  /\ \A i \in RecoveryInput :
       i \in [used : Nat, decisions : Nat, digest : Nat, history : Seq(Nat), latest : Seq({"none", "whole", "torn"}), writable : BOOLEAN]

Min2(x, y) == IF x <= y THEN x ELSE y
Positive(x) == IF x > 0 THEN x ELSE 0
CeilHalf(x) == (x + 1) \div 2

VARIABLE recovery \* what was found, where the recovery stands, its attempts and its end

Beginning(i) ==
    [used |-> i.used,            \* the tokens of the prompt and the history
     decisions |-> i.decisions,  \* the tokens of the recent decisions
     digest |-> i.digest,        \* the tokens of the routing digest
     history |-> i.history,      \* the tokens of each history summary, oldest first
     latest |-> i.latest,        \* latest.json of each team, "none", "whole" or "torn"; <<>> if recover is called directly
     writable |-> i.writable,    \* can the checkpoint be written
     pc |-> IF i.latest = <<>> THEN "try" ELSE "open", opened |-> 0, next |-> 1, attempts |-> <<>>, end |-> "none", freed |-> 0, level |-> 0]

RecoveryInit == recovery \in {Beginning(i) : i \in RecoveryInput}

\* assess and classifyPressure: 0 nominal, 1 warning, 2 critical, 3 overflow.
PressureOf(used) ==
  IF used * 100 >= 100 * Total THEN 3
  ELSE IF used * 100 >= 90 * Total THEN 2
  ELSE IF used * 100 >= 70 * Total THEN 1 ELSE 0

Trigger == PressureOf(recovery.used)
\* The strategies are 1 graceful-degrade, 2 summarize, 3 checkpoint, 4 escalate.
LevelOf == <<1, 1, 2, 3>>  \* the minimumLevel of each

\* The sections that may be dropped, in DROP_ORDER: decisions, then routing, each
\* an upper and a lower half.
Droppable(r) == LET d == CeilHalf(r.decisions) g == CeilHalf(r.digest) IN
  <<d, r.decisions - d, g, r.digest - g>>

Tokens(s) == LET first[n \in 0..Len(s)] == IF n = 0 THEN 0 ELSE first[n - 1] + s[n] IN first[Len(s)]

\* Sections are dropped until 60 % of the window would be used.
Dropped(r) ==
  LET needed == Positive(r.used - Min2(Total - 1, (Total * 60) \div 100))
      Enough(n) == Tokens(SubSeq(Droppable(r), 1, n)) >= needed /\ Droppable(r)[n] > 0
      all == {n \in 1..4 : Enough(n)}
  IN IF all = {} THEN Tokens(Droppable(r))
     ELSE Tokens(SubSeq(Droppable(r), 1, CHOOSE n \in all : \A m \in all : n <= m))

\* The summaries older than the newest five, of which a quarter remains.
Summarizable(r) == SubSeq(r.history, 1, Positive(Len(r.history) - 5))
Summarized(r) == (Tokens(Summarizable(r)) * 3) \div 4

CanAct(r, i) ==
  CASE i = 1 -> Tokens(Droppable(r)) > 0 [] i = 2 -> Summarizable(r) # <<>> [] OTHER -> TRUE

\* Mutant: a strategy is for the levels above its minimum.
SupportsAbove(level, i) == level > LevelOf[i]

Supports(level, i) == level >= LevelOf[i]

Ends(r, end, freed, level) == [r EXCEPT !.pc = "done", !.end = end, !.freed = freed, !.level = level]

\* A critical or overflowing prompt needs recovery (assessContext).
Assesses ==
  /\ recovery.pc = "open" /\ Trigger < 2
  /\ recovery' = Ends(recovery, "unneeded", 0, 0)

\* The stores of the root and of the local team are opened one after the other, and
\* bootstrapped from their latest.json.
OpensStore ==
  /\ recovery.pc = "open" /\ Trigger >= 2 /\ recovery.latest[recovery.opened + 1] # "torn"
  /\ recovery' = [recovery EXCEPT !.opened = @ + 1, !.pc = IF recovery.opened + 1 = Len(recovery.latest) THEN "try" ELSE "open"]

\* A torn latest.json is refused, and anything may be: the stack of teams, the database, its
\* extension, a statement, the read.  The assessment rejects with it.
StoreRefused ==
  /\ recovery.pc = "open" /\ Trigger >= 2
  /\ recovery' = Ends(recovery, "rejected", 0, Trigger)

Attempted(r, i, success, freed) ==
  [r EXCEPT !.attempts = Append(@, [strategy |-> i, success |-> success, freed |-> freed]), !.next = i + 1]

Succeeds(i, freed, level) == recovery' = Ends(Attempted(recovery, i, TRUE, freed), "recovered", freed, level)

\* The first strategy that reports success ends the recovery, whatever the
\* pressure is then.
Turn(i) == recovery.pc = "try" /\ recovery.next = i /\ Supports(Trigger, i) /\ CanAct(recovery, i)

Degrades == LET freed == Dropped(recovery) IN
  Turn(1) /\ Succeeds(1, freed, PressureOf(Positive(recovery.used - freed)))

Summarizes == LET freed == Summarized(recovery) IN
  Turn(2) /\ Succeeds(2, freed, PressureOf(Positive(recovery.used - freed)))

\* The checkpoint is written, then latest.json; a failure is an attempt that failed.
WritesCheckpoint ==
  /\ Turn(3)
  /\ IF recovery.writable THEN Succeeds(3, recovery.used, 0) ELSE recovery' = Attempted(recovery, 3, FALSE, 0)

Escalated == Turn(4) /\ recovery' = Ends(recovery, "overflow", 0, Trigger)

Skips ==
  /\ recovery.pc = "try" /\ recovery.next <= 4 /\ ~ Turn(recovery.next)
  /\ recovery' = [recovery EXCEPT !.next = @ + 1]

Exhausted ==
  /\ recovery.pc = "try" /\ recovery.next > 4
  /\ recovery' = Ends(recovery, "overflow", 0, Trigger)

RecoveryNext == Assesses \/ OpensStore \/ StoreRefused \/ Degrades \/ Summarizes \/ WritesCheckpoint \/ Escalated \/ Skips \/ Exhausted

(***************************************************************************)
(* Properties                                                              *)
(***************************************************************************)

\* The stores of a recovery that tries strategies: none, or a prompt under pressure had
\* each of them opened, and none has a torn latest.json.
StoresOpened(r) ==
  /\ r.opened = Len(r.latest) /\ \A k \in DOMAIN r.latest : r.latest[k] # "torn"
  /\ r.latest # <<>> => PressureOf(r.used) >= 2

\* A recovery that ends well names a level its freed tokens account for, and one
\* that ends in a ContextOverflowError has tried every strategy meant for the
\* pressure that has something to do, each of them in vain; an assessment has had
\* every store opened then, and with one that is refused, as with any whose
\* latest.json is torn, no strategy is tried. A strategy freeing too little still
\* ends the recovery: recover does not measure the pressure again.
RecoveryEnds ==
  recovery.pc = "done" =>
    LET r == recovery
        tried == {r.attempts[k].strategy : k \in DOMAIN r.attempts}
    IN CASE r.end = "recovered" ->
              /\ StoresOpened(r)
              /\ r.level = PressureOf(Positive(r.used - r.freed))
              /\ \E k \in DOMAIN r.attempts : r.attempts[k].success
              /\ r.freed >= (IF 3 \in tried THEN r.used ELSE 0)
         [] r.end = "overflow" ->
              /\ StoresOpened(r)
              /\ \A k \in DOMAIN r.attempts : ~ r.attempts[k].success
              /\ tried = {i \in 1..3 : PressureOf(r.used) >= LevelOf[i] /\ CanAct(r, i)}
              /\ tried \subseteq {3}
         [] r.end = "rejected" -> tried = {} /\ r.opened < Len(r.latest) /\ PressureOf(r.used) >= 2
         [] OTHER -> PressureOf(r.used) \in {0, 1} /\ tried = {}
=============================================================================
