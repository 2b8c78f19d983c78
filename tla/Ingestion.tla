------------------------------ MODULE Ingestion -------------------------------
(***************************************************************************)
(* Ingestion of the documents of .squad/knowledge into a vector backend: a  *)
(* watcher that debounces the events of a file, an ingestion of a directory *)
(* one file after the other, and ingestions of single files, which convert, *)
(* embed and store chunk by chunk and may overlap.                          *)
(***************************************************************************)
EXTENDS Integers, Sequences, FiniteSets, TLC

CONSTANTS
  Doc,           \* the files
  Job,           \* ingestions, by name: the random part of the ids of their chunks
  ChunksOf,      \* ChunksOf[v]: how many chunks version v of a file has
  IngestionPlan, \* how often a file changes, how many ingestions fail, is there a directory run
  Nobody

ASSUME IngestionAssumption == \A v \in DOMAIN ChunksOf : ChunksOf[v] \in Nat

VARIABLES
  ingestionPlan, \* what may still happen
  doc,           \* doc[f]: the version of file f on disk, 0 for none
  event,         \* the files whose event the watcher has not been given
  timer,         \* the files whose debounce timer runs
  watching,      \* the watcher has not been stopped
  job,           \* job[j]: where an ingestion stands
  chunk,         \* the chunks in the backend: file, version, index, job
  batch          \* the directory run: the files left, the one in hand, what it counted

ingestionVars == <<ingestionPlan, doc, event, timer, watching, job, chunk, batch>>

NoJob == [pc |-> "idle", file |-> Nobody, version |-> 0, stored |-> 0]

IngestionInit ==
  /\ ingestionPlan \in IngestionPlan
  /\ doc = [f \in Doc |-> 0]
  /\ event = {} /\ timer = {} /\ watching = TRUE /\ chunk = {}
  /\ job = [j \in Job |-> NoJob]
  /\ batch = [pc |-> "idle", left |-> {}, job |-> Nobody, succeeded |-> 0, failed |-> 0, chunks |-> 0]

\* A user writes or removes a file (external); the watcher will be told.
Changes(f) ==
  /\ ingestionPlan.changes > 0 /\ ingestionPlan' = [ingestionPlan EXCEPT !.changes = @ - 1]
  /\ doc' = [doc EXCEPT ![f] = IF @ + 1 \in DOMAIN ChunksOf THEN @ + 1 ELSE 0]
  /\ event' = IF watching THEN event \cup {f} ELSE event
  /\ UNCHANGED <<timer, watching, job, chunk, batch>>

\* Mutant: no timer is set for a file that is being ingested.
DebouncesIdle(f) ==
  /\ watching /\ f \in event
  /\ event' = event \ {f}
  /\ timer' = IF \E j \in Job : job[j].file = f /\ job[j].pc \notin {"done", "failed"} THEN timer ELSE timer \cup {f}
  /\ UNCHANGED <<ingestionPlan, doc, watching, job, chunk, batch>>

\* A pending timer of the file is replaced.
Debounces(f) ==
  /\ watching /\ f \in event
  /\ event' = event \ {f} /\ timer' = timer \cup {f}
  /\ UNCHANGED <<ingestionPlan, doc, watching, job, chunk, batch>>

Starts(j, f) == job[j].pc = "idle" /\ job' = [job EXCEPT ![j] = [NoJob EXCEPT !.pc = "convert", !.file = f]]

\* The timer fires; a file that is gone by then is left alone.
Fires(f) ==
  /\ f \in timer /\ timer' = timer \ {f}
  /\ IF doc[f] = 0 THEN UNCHANGED job ELSE \E j \in Job : Starts(j, f)
  /\ UNCHANGED <<ingestionPlan, doc, event, watching, chunk, batch>>

\* The function watchKnowledgeDir returned: an ingestion under way goes on.
StopsWatching ==
  /\ watching /\ ingestionPlan.stops
  /\ watching' = FALSE /\ event' = {} /\ timer' = {}
  /\ UNCHANGED <<ingestionPlan, doc, job, chunk, batch>>

\* The document is read, converted, sanitized and cut into chunks.
Converts(j) == LET v == doc[job[j].file] IN
  /\ job[j].pc = "convert"
  /\ job' = [job EXCEPT ![j].pc = IF v = 0 THEN "failed" ELSE IF ChunksOf[v] = 0 THEN "done" ELSE "store", ![j].version = v]
  /\ UNCHANGED <<ingestionPlan, doc, event, timer, watching, chunk, batch>>

\* A chunk is embedded and saved.
Stores(j) == LET n == job[j].stored + 1 IN
  /\ job[j].pc = "store"
  /\ chunk' = chunk \cup {[file |-> job[j].file, version |-> job[j].version, index |-> n, job |-> j]}
  /\ job' = [job EXCEPT ![j].stored = n, ![j].pc = IF n = ChunksOf[job[j].version] THEN "done" ELSE "store"]
  /\ UNCHANGED <<ingestionPlan, doc, event, timer, watching, batch>>

\* Converting, embedding or saving fails: the chunks stored so far stay.
IngestionFails(j) ==
  /\ job[j].pc \in {"convert", "store"} /\ ingestionPlan.failures > 0
  /\ ingestionPlan' = [ingestionPlan EXCEPT !.failures = @ - 1]
  /\ job' = [job EXCEPT ![j].pc = "failed"]
  /\ UNCHANGED <<doc, event, timer, watching, chunk, batch>>

\* ingestDirectory lists the directory once, then takes file after file.
ListsDirectory ==
  /\ batch.pc = "idle" /\ ingestionPlan.batch
  /\ batch' = [batch EXCEPT !.pc = "next", !.left = {f \in Doc : doc[f] > 0}]
  /\ UNCHANGED <<ingestionPlan, doc, event, timer, watching, job, chunk>>

TakesNext ==
  /\ batch.pc = "next" /\ batch.left # {}
  /\ \E f \in batch.left, j \in Job :
       /\ Starts(j, f)
       /\ batch' = [batch EXCEPT !.pc = "wait", !.left = @ \ {f}, !.job = j]
  /\ UNCHANGED <<ingestionPlan, doc, event, timer, watching, chunk>>

\* A failed file counts no chunks, though some may be stored.
Counts == LET j == job[batch.job] IN
  /\ batch.pc = "wait" /\ j.pc \in {"done", "failed"}
  /\ batch' = [batch EXCEPT !.pc = "next",
       !.succeeded = IF j.pc = "done" THEN @ + 1 ELSE @, !.failed = IF j.pc = "failed" THEN @ + 1 ELSE @,
       !.chunks = IF j.pc = "done" THEN @ + j.stored ELSE @]
  /\ UNCHANGED <<ingestionPlan, doc, event, timer, watching, job, chunk>>

IngestionNext ==
  \/ \E f \in Doc : Changes(f) \/ Debounces(f) \/ Fires(f)
  \/ \E j \in Job : Converts(j) \/ Stores(j) \/ IngestionFails(j)
  \/ StopsWatching \/ ListsDirectory \/ TakesNext \/ Counts

(***************************************************************************)
(* Properties                                                              *)
(***************************************************************************)

\* While the watcher is on, a document in the directory is stored whole in the
\* version it has on disk, unless its event or its timer is still to come, an
\* ingestion that will read that version, or is storing it, is under way, or an
\* ingestion of it failed: a change during an ingestion gets one of its own.
\* (Chunks of the versions before it, and of a file removed, stay as well.)
Ingested ==
  watching => \A f \in Doc :
    \/ doc[f] = 0 \/ f \in event \cup timer
    \/ \E j \in Job : /\ job[j].file = f
                      /\ \/ job[j].pc \in {"convert", "failed"}
                         \/ job[j].pc = "store" /\ job[j].version = doc[f]
                         \/ /\ job[j].pc = "done" /\ job[j].version = doc[f]
                            /\ \A n \in 1..ChunksOf[doc[f]] :
                                 [file |-> f, version |-> doc[f], index |-> n, job |-> j] \in chunk
=============================================================================
