-------------------------------- MODULE Scribe --------------------------------
(***************************************************************************)
(* The scribe's drop box: agents write decisions into files of              *)
(* .squad/decisions/inbox, a merge takes each file and appends it to        *)
(* .squad/decisions.md. Several agents and several merges may be at work,   *)
(* in one process or in more; a step is one file operation.                 *)
(***************************************************************************)
EXTENDS Integers, Sequences, FiniteSets, TLC

CONSTANTS
  Decision,   \* what agents write, each once
  FileOf,     \* FileOf[d]: the name {agent}-{slug}.md it is written under
  Merge,      \* calls of mergeDecisions
  ScribePlan, \* which decisions and merges there are; is there a decisions.md; may agents
              \* write during a merge; may a merge die
  Blank,      \* the text of a file that was opened and not written
  None

ASSUME ScribeAssumption ==
  \A p \in ScribePlan :
    p.drafts \subseteq Decision /\ p.merges \subseteq Merge /\ p.exists \in BOOLEAN /\ p.overlap \in BOOLEAN /\ p.dies \in BOOLEAN
ASSUME TextAssumption == Blank \notin Decision /\ None \notin Seq(Decision \cup {Blank})

VARIABLES
  scribePlan, \* what may happen in this behaviour
  inbox,      \* inbox[name]: the inode of that file (named by who created it) and its text
  draft,      \* draft[d]: where the writing of d stands, and the inode it holds
  decisions,  \* decisions.md: None, or the texts appended to it
  merge       \* merge[m]: where a merge stands, the files it listed, the text it holds

scribeVars == <<scribePlan, inbox, draft, decisions, merge>>

ScribeInit ==
  /\ scribePlan \in ScribePlan
  /\ inbox = <<>>
  /\ draft = [d \in Decision |-> [pc |-> "idle", inode |-> None]]
  /\ decisions = IF scribePlan.exists THEN <<>> ELSE None
  /\ merge = [m \in Merge |-> [pc |-> "idle", files |-> {}, file |-> None, text |-> None]]

Merging == \E m \in Merge : merge[m].pc \notin {"idle", "done", "failed", "dead"}
Writing == \E d \in Decision : draft[d].pc = "open"

\* writeFile opens and truncates the file, then writes it.
OpenDraft(d) == LET f == FileOf[d] IN
  /\ draft[d].pc = "idle" /\ d \in scribePlan.drafts /\ (Merging => scribePlan.overlap)
  /\ inbox' = [g \in DOMAIN inbox \cup {f} |->
       IF g = f THEN [inode |-> IF f \in DOMAIN inbox THEN inbox[f].inode ELSE d, text |-> Blank] ELSE inbox[g]]
  /\ draft' = [draft EXCEPT ![d] = [pc |-> "open", inode |-> inbox'[f].inode]]
  /\ UNCHANGED <<scribePlan, decisions, merge>>

WriteDraft(d) == LET f == FileOf[d] IN
  /\ draft[d].pc = "open"
  /\ draft' = [draft EXCEPT ![d].pc = "done"]
  /\ inbox' = IF f \in DOMAIN inbox /\ inbox[f].inode = draft[d].inode
              THEN [inbox EXCEPT ![f].text = d] ELSE inbox
  /\ UNCHANGED <<scribePlan, decisions, merge>>

Step(m, r) == merge' = [merge EXCEPT ![m] = r] /\ UNCHANGED <<scribePlan, draft>>

ListInbox(m) ==
  /\ merge[m].pc = "idle" /\ m \in scribePlan.merges /\ (Writing => scribePlan.overlap)
  /\ Step(m, [merge[m] EXCEPT !.pc = IF inbox = <<>> THEN "done" ELSE "ensure", !.files = DOMAIN inbox])
  /\ UNCHANGED <<inbox, decisions>>

\* ensureFile looks for decisions.md and writes an empty one if it found none.
FindTarget(m) ==
  /\ merge[m].pc = "ensure"
  /\ Step(m, [merge[m] EXCEPT !.pc = IF decisions = None THEN "create" ELSE "next"])
  /\ UNCHANGED <<inbox, decisions>>

CreateTarget(m) ==
  /\ merge[m].pc = "create"
  /\ Step(m, [merge[m] EXCEPT !.pc = "next"])
  /\ decisions' = <<>>
  /\ UNCHANGED inbox

\* Mutant: the file is to be read when it has been removed.
ReadsTooLate(m) ==
  /\ merge[m].pc = "next" /\ merge[m].files # {}
  /\ \E f \in merge[m].files :
       Step(m, IF f \in DOMAIN inbox
               THEN [merge[m] EXCEPT !.pc = "unlink", !.file = f]
               ELSE [merge[m] EXCEPT !.pc = "failed", !.files = {}])
  /\ UNCHANGED <<inbox, decisions>>

\* consumeInboxFile reads a file, and the merge fails if another has taken it.
Read(m) ==
  /\ merge[m].pc = "next" /\ merge[m].files # {}
  /\ \E f \in merge[m].files :
       Step(m, IF f \in DOMAIN inbox
               THEN [merge[m] EXCEPT !.pc = "unlink", !.file = f, !.text = inbox[f].text]
               ELSE [merge[m] EXCEPT !.pc = "failed", !.files = {}])
  /\ UNCHANGED <<inbox, decisions>>

Unlink(m) == LET f == merge[m].file IN
  /\ merge[m].pc = "unlink"
  /\ IF f \in DOMAIN inbox
     THEN /\ Step(m, [merge[m] EXCEPT !.pc = "append"])
          /\ inbox' = [g \in DOMAIN inbox \ {f} |-> inbox[g]]
     ELSE /\ Step(m, [merge[m] EXCEPT !.pc = "failed", !.files = {}, !.text = None])
          /\ UNCHANGED inbox
  /\ UNCHANGED decisions

AppendText(m) ==
  /\ merge[m].pc = "append"
  /\ decisions' = Append(decisions, merge[m].text)
  /\ Step(m, [merge[m] EXCEPT !.pc = "next", !.files = @ \ {merge[m].file}, !.file = None, !.text = None])
  /\ UNCHANGED inbox

EndMerge(m) ==
  /\ merge[m].pc = "next" /\ merge[m].files = {}
  /\ Step(m, [merge[m] EXCEPT !.pc = "done"])
  /\ UNCHANGED <<inbox, decisions>>

\* The process of a merge dies between two of its steps (external).
MergeDies(m) ==
  /\ scribePlan.dies /\ merge[m].pc \in {"create", "next", "unlink", "append"}
  /\ Step(m, [merge[m] EXCEPT !.pc = "dead", !.files = {}, !.file = None, !.text = None])
  /\ UNCHANGED <<inbox, decisions>>

ScribeNext ==
  \/ \E d \in Decision : OpenDraft(d) \/ WriteDraft(d)
  \/ \E m \in Merge : \/ ListInbox(m) \/ FindTarget(m) \/ CreateTarget(m) \/ Read(m)
                      \/ Unlink(m) \/ AppendText(m) \/ EndMerge(m) \/ MergeDies(m)

(***************************************************************************)
(* Properties                                                              *)
(***************************************************************************)

Alone(d) == \A e \in Decision : FileOf[e] = FileOf[d] => e = d

\* No decision is appended twice to decisions.md, however many merges run at
\* once and wherever one of them dies: a file is unlinked, by one merge alone,
\* before its text is appended. But a file of the same name that is written
\* between one merge's read and its unlink lets the text pass a second time.
MergedOnce ==
  decisions # None =>
    \A i, j \in DOMAIN decisions : decisions[i] = decisions[j] =>
      i = j \/ decisions[i] = Blank \/ (scribePlan.overlap /\ ~ Alone(decisions[i]))

\* A decision that was written stays in the inbox, in the hands of a merge or in
\* decisions.md - if that file existed, no merge dies, agents do not write during
\* a merge, and no other decision has its file name. The code guarantees none of
\* the four.
Kept ==
  scribePlan.exists /\ ~ scribePlan.overlap /\ ~ scribePlan.dies =>
    \A d \in Decision : draft[d].pc = "done" /\ Alone(d) =>
      \/ \E f \in DOMAIN inbox : inbox[f].text = d
      \/ \E m \in Merge : merge[m].text = d
      \/ \E i \in DOMAIN decisions : decisions[i] = d

\* The drop box neither loses a decision nor merges it twice: MergedOnce and Kept.
DropBox == MergedOnce /\ Kept
=============================================================================
