-------------------------------- MODULE Update --------------------------------
(***************************************************************************)
(* The /squad-update command: it checks the submodule of Squad out at its   *)
(* latest tag, writes that version into the package.json of the extension   *)
(* and reloads it, or puts both back. At a start the extension may also     *)
(* update itself, which replaces the same package.json.                     *)
(***************************************************************************)
EXTENDS Integers, TLC

CONSTANTS
  Old, New,    \* the tag checked out at first, and the latest one
  UpdatePlan   \* is New newer; does it fit; does the extension update itself meanwhile

ASSUME UpdateAssumption == Old # New

VARIABLES
  updatePlan,
  head,      \* the tag the submodule is at
  package,   \* package.json: the extension's own version and squad.version
  update,    \* where the command stands, and what it read
  mishap     \* what went wrong that the command cannot mend

updateVars == <<updatePlan, head, package, update, mishap>>

UpdateInit ==
  /\ updatePlan \in UpdatePlan
  /\ head = Old
  /\ package = [own |-> 1, squad |-> Old]
  /\ update = [pc |-> "read", previous |-> [own |-> 1, squad |-> Old], checkedOut |-> FALSE,
               written |-> FALSE, inCatch |-> FALSE, reloaded |-> FALSE]
  /\ mishap = {}

Now(pc) == update' = [update EXCEPT !.pc = pc]

\* Mutant: only a written package.json makes the handler put things back.
ThrowsUnlessWritten ==
  update' = [update EXCEPT
    !.pc = IF ~ update.inCatch /\ update.written THEN "putBackPackage" ELSE "done", !.inCatch = TRUE]

\* What a step that throws comes to: a restore, unless nothing was changed yet.
\* A restore that throws outside the handler is tried again inside it.
Throws ==
  update' = [update EXCEPT
    !.pc = IF ~ update.inCatch /\ (update.checkedOut \/ update.written) THEN "putBackPackage" ELSE "done",
    !.inCatch = TRUE]

ReadsPackage ==
  /\ update.pc = "read"
  /\ \/ update' = [update EXCEPT !.pc = "latest", !.previous = package]
     \/ Now("done")
  /\ UNCHANGED <<updatePlan, head, package, mishap>>

\* The current ref, git fetch, the latest tag, and the comparison with it.
FindsLatest ==
  /\ update.pc = "latest"
  /\ Now(IF updatePlan.newer THEN "checkout" ELSE "done") \/ Now("done")
  /\ UNCHANGED <<updatePlan, head, package, mishap>>

ChecksOut ==
  /\ update.pc = "checkout"
  /\ \/ head' = New /\ update' = [update EXCEPT !.pc = "write", !.checkedOut = TRUE] /\ UNCHANGED mishap
     \/ UNCHANGED <<head, mishap>> /\ Throws
     \/ head' = New /\ mishap' = mishap \cup {"checkout took effect but reported failure"} /\ Throws
  /\ UNCHANGED <<updatePlan, package>>

\* The package.json that was read is written back with the new version.
WritesPackage ==
  /\ update.pc = "write"
  /\ \/ /\ package' = [update.previous EXCEPT !.squad = head]
        /\ update' = [update EXCEPT !.pc = "fits", !.written = TRUE]
     \/ UNCHANGED package /\ Throws
  /\ UNCHANGED <<updatePlan, head, mishap>>

\* checkCompatibility, and the reload.
Fits ==
  /\ update.pc = "fits"
  /\ \/ updatePlan.fits /\ update' = [update EXCEPT !.pc = "done", !.reloaded = TRUE]
     \/ updatePlan.fits /\ Throws
     \/ ~ updatePlan.fits /\ Now("putBackPackage")
  /\ UNCHANGED <<updatePlan, head, package, mishap>>

\* restoreSquadState: package.json, then the submodule.
PutsBackPackage ==
  /\ update.pc = "putBackPackage"
  /\ \/ package' = update.previous /\ Now("putBackHead") /\ UNCHANGED mishap
     \/ /\ UNCHANGED package /\ Throws
        /\ mishap' = IF update.inCatch THEN mishap \cup {"package.json not put back"} ELSE mishap
  /\ UNCHANGED <<updatePlan, head>>

PutsBackHead ==
  /\ update.pc = "putBackHead"
  /\ \/ head' = update.previous.squad /\ Now("done") /\ UNCHANGED mishap
     \/ /\ UNCHANGED head /\ Throws
        /\ mishap' = IF update.inCatch THEN mishap \cup {"tag not put back"} ELSE mishap
  /\ UNCHANGED <<updatePlan, package>>

\* checkCoordinatorUpdate of a start runs "pi update --extension".
ExtensionUpdates ==
  /\ updatePlan.self /\ package.own = 1
  /\ package' = [own |-> 2, squad |-> Old]
  /\ UNCHANGED <<updatePlan, head, update, mishap>>

UpdateNext ==
  \/ ReadsPackage \/ FindsLatest \/ ChecksOut \/ WritesPackage \/ Fits
  \/ PutsBackPackage \/ PutsBackHead \/ ExtensionUpdates

(***************************************************************************)
(* Properties                                                              *)
(***************************************************************************)

\* When /squad-update is over the submodule and the version in package.json agree,
\* both new only if the extension was reloaded and both old otherwise, whichever
\* step failed - unless putting one of the two back failed twice, a checkout took
\* effect and still reported failure, or the extension replaced its package.json.
BothOrNeither ==
  update.pc = "done" /\ mishap = {} /\ ~ updatePlan.self =>
    /\ head = package.squad
    /\ head = New <=> update.reloaded
=============================================================================
