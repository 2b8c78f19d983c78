------------------------------- MODULE Outbox -------------------------------
(***************************************************************************)
(* What the delivery of results promises, without watchers, timers, loads, *)
(* sessions, dedupe maps and the intercom.  A result that is written is    *)
(* owed to its session.  Telling the session settles the debt, unless the  *)
(* file of the result could not be removed: then it may be told again.  An *)
(* untold debt is only lost with a host that dies.                         *)
(*                                                                         *)
(* ResultDelivery implements this specification.                           *)
(***************************************************************************)
EXTENDS Naturals

CONSTANT Run  \* async runs, one result each

VARIABLES
  written,  \* how often each result was written
  owed,     \* runs whose completion is still to be told
  told,     \* how often the completion of each run was told
  kept,     \* how often each result could not be removed
  lost      \* runs whose completion a host had in its hands when it died

outboxVars == <<written, owed, told, kept, lost>>

OutboxInit ==
  /\ owed = {} /\ lost = {}
  /\ written = [r \in Run |-> 0] /\ told = [r \in Run |-> 0] /\ kept = [r \in Run |-> 0]

\* Only a written result is ever owed.
Post(r) ==
  /\ written' = [written EXCEPT ![r] = @ + 1] /\ owed' = owed \cup {r}
  /\ UNCHANGED <<told, kept, lost>>

\* What is told is owed no longer.
Tell(r) ==
  /\ r \in owed /\ owed' = owed \ {r}
  /\ told' = [told EXCEPT ![r] = @ + 1]
  /\ UNCHANGED <<written, kept, lost>>

\* It is told, but its file stays.
TellAndKeep(r) ==
  /\ r \in owed
  /\ told' = [told EXCEPT ![r] = @ + 1] /\ kept' = [kept EXCEPT ![r] = @ + 1]
  /\ UNCHANGED <<written, owed, lost>>

\* A result written again goes as a duplicate of what was told before.
Settle(r) ==
  /\ r \in owed /\ told[r] > 0 /\ owed' = owed \ {r}
  /\ UNCHANGED <<written, told, kept, lost>>

\* A duplicate is to go, but its file stays.
Keep(r) ==
  /\ r \in owed
  /\ kept' = [kept EXCEPT ![r] = @ + 1]
  /\ UNCHANGED <<written, owed, told, lost>>

\* The host dies with results in its hands.
Lose ==
  /\ \E hands \in SUBSET Run : lost' = lost \cup hands /\ owed' = owed \ hands
  /\ UNCHANGED <<written, told, kept>>

OutboxNext == Lose \/ \E r \in Run : Post(r) \/ Tell(r) \/ TellAndKeep(r) \/ Settle(r) \/ Keep(r)

OutboxSpec == OutboxInit /\ [][OutboxNext]_outboxVars
=============================================================================
