-------------------------------- MODULE Store ---------------------------------
(***************************************************************************)
(* SessionStore: the SQLite file of sessions, token samples and checkpoints *)
(* that several processes may have open, and its table of vectors. A       *)
(* statement, or a transaction, is one step; the synchronous methods of one *)
(* process do not interleave, but saveCheckpoint awaits, and processes do.  *)
(***************************************************************************)
EXTENDS Integers, Sequences, FiniteSets, FiniteSetsExt, TLC

CONSTANTS
  Process, Session,
  SessionOf,   \* SessionOf[p]: the session process p samples
  Save,        \* calls of saveCheckpoint
  ProcessOf,   \* ProcessOf[v]: the process that makes call v
  IdOf,        \* IdOf[v]: the id of its checkpoint, a timestamp in milliseconds
  Measure,     \* what may be measured: a size in tokens, or Nothing, and a level
  StorePlan,   \* does a checkpoint name its session; how many samples, upserts
               \* and failures; which saves; may a process die
  Nothing

Level == 0..3   \* PRESSURE_ORDER

ASSUME StoreAssumption ==
  /\ StorePlan \subseteq [named : BOOLEAN, samples : Nat, upserts : Nat, failures : Nat, saves : SUBSET Save, dies : BOOLEAN]
  /\ SessionOf \in [Process -> Session] /\ ProcessOf \in [Save -> Process]
  /\ \A m \in Measure : m[1] \in Nat \cup {Nothing} /\ m[2] \in Level

\* The rows of sessions and of checkpoints, and what a synchronous method holds between its statements.
SessionRow == [mark : Nat \cup {Nothing}, peak : Level]
CheckpointRow == [session : Session \cup {Nothing}, used : Nat, level : Level, by : Save]
MethodRow == [kind : {"sample", "touch"}, tokens : Nat \cup {Nothing}, level : Level, seen : SessionRow \cup {Nothing}]

ASSUME NothingAssumption == Nothing \notin Nat \cup Save \cup SessionRow \cup CheckpointRow \cup MethodRow
\* A pi session is open in one process.
ASSUME SessionAssumption == \A p, q \in Process : SessionOf[p] = SessionOf[q] => p = q

CheckpointId == {IdOf[v] : v \in Save}

VARIABLES
  storePlan,   \* what may happen in this behaviour
  row,         \* row[s]: the mark and the peak of a row of sessions, or Nothing
  recent,      \* the session that was active last
  sample,      \* token_samples: session, tokens, level
  checkpoint,  \* checkpoint[id]: its row, or Nothing
  vector,      \* vector[id]: the save whose embedding is indexed, or Nothing
  doing,       \* doing[p]: the synchronous method p is in, with the row it read, or Nothing
  save,        \* save[v]: where a save stands, the continuations queued before its own, and
               \* whether another process was saving its id when it committed
  dead         \* the processes that died

storeVars == <<storePlan, row, recent, sample, checkpoint, vector, doing, save, dead>>

StoreInit ==
  /\ storePlan \in StorePlan
  /\ row = [s \in Session |-> Nothing]
  /\ recent = Nothing /\ sample = {} /\ dead = {}
  /\ checkpoint = [i \in CheckpointId |-> Nothing]
  /\ vector = [i \in CheckpointId |-> Nothing]
  /\ doing = [p \in Process |-> Nothing]
  /\ save = [v \in Save |-> [pc |-> "idle", session |-> Nothing, used |-> 0, level |-> 0, ahead |-> {}, over |-> FALSE]]

\* Mutant: a measure overwrites the mark instead of raising it.
Overwritten(r, tokens, level) ==
  LET old == IF r = Nothing THEN [mark |-> Nothing, peak |-> 0] ELSE r IN
  [mark |-> IF tokens = Nothing THEN old.mark ELSE tokens, peak |-> Max({old.peak, level})]

\* The mark and the peak a row gets from a measure; no row, or no mark, counts as 0.
Raised(r, tokens, level) ==
  LET old == IF r = Nothing THEN [mark |-> Nothing, peak |-> 0] ELSE r IN
  [mark |-> IF tokens = Nothing THEN old.mark
            ELSE IF old.mark = Nothing THEN tokens ELSE Max({old.mark, tokens}),
   peak |-> Max({old.peak, level})]

Runs(p) == p \notin dead
\* A process is between two statements of one synchronous stretch of its code.
Busy(p) == \/ doing[p] # Nothing
           \/ \E v \in Save : ProcessOf[v] = p /\ save[v].pc \in {"delete", "insert"}
Free(p) == Runs(p) /\ ~ Busy(p)

\* recordTokenSample, or the touchSession of a bootstrap, reads the row ...
ReadsRow(p, kind, tokens, level) == LET s == SessionOf[p] IN
  /\ Free(p) /\ storePlan.samples > 0
  /\ storePlan' = [storePlan EXCEPT !.samples = @ - 1]
  /\ doing' = [doing EXCEPT ![p] = [kind |-> kind, tokens |-> tokens, level |-> level, seen |-> row[s]]]
  /\ UNCHANGED <<row, recent, sample, checkpoint, vector, save, dead>>

\* ... and a transaction inserts the sample and the row.
Samples(p) == LET d == doing[p] s == SessionOf[p] IN
  /\ Runs(p) /\ d # Nothing /\ d.kind = "sample"
  /\ row' = [row EXCEPT ![s] = Raised(d.seen, d.tokens, d.level)]
  /\ sample' = sample \cup {[session |-> s, tokens |-> d.tokens, level |-> d.level]}
  /\ recent' = s
  /\ doing' = [doing EXCEPT ![p] = Nothing]
  /\ UNCHANGED <<storePlan, checkpoint, vector, save, dead>>

\* upsertSession makes the row of a session, or only calls it active.
Upserts(p) == LET s == SessionOf[p] IN
  /\ Free(p) /\ storePlan.upserts > 0
  /\ storePlan' = [storePlan EXCEPT !.upserts = @ - 1]
  /\ row' = [row EXCEPT ![s] = IF @ = Nothing THEN [mark |-> Nothing, peak |-> 0] ELSE @]
  /\ recent' = s
  /\ UNCHANGED <<sample, checkpoint, vector, doing, save, dead>>

\* A touch sets the peak, and keeps the mark the row then has.
Touches(p) == LET d == doing[p] s == SessionOf[p] IN
  /\ Runs(p) /\ d # Nothing /\ d.kind = "touch"
  /\ row' = [row EXCEPT ![s] =
       [mark |-> IF @ = Nothing THEN Nothing ELSE @.mark, peak |-> Raised(d.seen, Nothing, d.level).peak]]
  /\ recent' = s
  /\ doing' = [doing EXCEPT ![p] = Nothing]
  /\ UNCHANGED <<storePlan, sample, checkpoint, vector, save, dead>>

\* The session of a checkpoint: the one it names, or the one active last.
SessionFor(p) == IF storePlan.named THEN SessionOf[p] ELSE recent

\* saveCheckpoint chooses the session before it awaits the embedding.
SaveBegins(v, used, level) == LET p == ProcessOf[v] IN
  /\ Free(p) /\ v \in storePlan.saves /\ save[v].pc = "idle"
  /\ save' = [save EXCEPT ![v] =
       [@ EXCEPT !.pc = "embed", !.used = used, !.level = level, !.session = SessionFor(p)]]
  /\ UNCHANGED <<storePlan, row, recent, sample, checkpoint, vector, doing, dead>>

\* A save has stored its row, and has still to put its vector beside it.
Halfway == {"delete", "index", "insert"}
Contended(v) ==
  \E w \in Save : IdOf[w] = IdOf[v] /\ ProcessOf[w] # ProcessOf[v] /\ Runs(ProcessOf[w]) /\ save[w].pc \in Halfway

\* The transaction. With no session at all the checkpoint's own id becomes one, which no
\* process samples.
SavePersists(v) == LET p == ProcessOf[v] r == save[v] i == IdOf[v] IN
  /\ Free(p) /\ r.pc = "embed"
  /\ checkpoint' = [checkpoint EXCEPT ![i] = [session |-> r.session, used |-> r.used, level |-> r.level, by |-> v]]
  /\ row' = IF r.session = Nothing THEN row
            ELSE [row EXCEPT ![r.session] = Raised(@, r.used, r.level)]
  /\ recent' = IF r.session = Nothing THEN recent ELSE r.session
  /\ save' = [save EXCEPT ![v] = [@ EXCEPT !.pc = "delete", !.over = Contended(v)]]
  /\ UNCHANGED <<storePlan, sample, vector, doing, dead>>

\* deleteEmbedding follows at once; the rest is a continuation, and those of promises that
\* are resolved run in the order they were queued.
SaveDeletes(v) == LET p == ProcessOf[v] IN
  /\ Runs(p) /\ save[v].pc = "delete"
  /\ vector' = [vector EXCEPT ![IdOf[v]] = Nothing]
  /\ save' = [save EXCEPT ![v] =
       [@ EXCEPT !.pc = "index", !.ahead = {w \in Save : ProcessOf[w] = p /\ save[w].pc = "index"}]]
  /\ UNCHANGED <<storePlan, row, recent, sample, checkpoint, doing, dead>>

NextInLine(v) == Free(ProcessOf[v]) /\ save[v].pc = "index" /\ \A w \in save[v].ahead : save[w].pc # "index"

\* saveEmbedding deletes once more ...
SaveIndexes(v) ==
  /\ NextInLine(v)
  /\ vector' = [vector EXCEPT ![IdOf[v]] = Nothing]
  /\ save' = [save EXCEPT ![v] = [@ EXCEPT !.pc = "insert", !.ahead = {}]]
  /\ UNCHANGED <<storePlan, row, recent, sample, checkpoint, doing, dead>>

\* ... and inserts, unless another process has inserted one meanwhile.
SaveInserts(v) ==
  /\ Runs(ProcessOf[v]) /\ save[v].pc = "insert"
  /\ IF vector[IdOf[v]] = Nothing
     THEN vector' = [vector EXCEPT ![IdOf[v]] = v] /\ save' = [save EXCEPT ![v] = [@ EXCEPT !.pc = "done", !.ahead = {}]]
     ELSE save' = [save EXCEPT ![v] = [@ EXCEPT !.pc = "failed", !.ahead = {}]] /\ UNCHANGED vector
  /\ UNCHANGED <<storePlan, row, recent, sample, checkpoint, doing, dead>>

\* Any statement may be refused: the database is locked, or the disk is full.  The save
\* rejects; a transaction is undone, what was committed before stays.
SaveFails(v) == LET p == ProcessOf[v] pc == save[v].pc IN
  /\ storePlan.failures > 0 /\ storePlan' = [storePlan EXCEPT !.failures = @ - 1]
  /\ \/ pc = "embed" /\ Free(p)
     \/ pc \in {"delete", "insert"} /\ Runs(p)
     \/ NextInLine(v)
  /\ save' = [save EXCEPT ![v] = [@ EXCEPT !.pc = "failed", !.ahead = {}]]
  /\ UNCHANGED <<row, recent, sample, checkpoint, vector, doing, dead>>

StoreDies(p) ==
  /\ storePlan.dies /\ Runs(p) /\ dead' = dead \cup {p}
  /\ UNCHANGED <<storePlan, row, recent, sample, checkpoint, vector, doing, save>>

StoreNext ==
  \/ \E p \in Process :
       \/ \E m \in Measure : ReadsRow(p, "sample", m[1], m[2]) \/ ReadsRow(p, "touch", Nothing, m[2])
       \/ Samples(p) \/ Upserts(p) \/ Touches(p) \/ StoreDies(p)
  \/ \E v \in Save : (\E m \in Measure : m[1] # Nothing /\ SaveBegins(v, m[1], m[2])) \/ SavePersists(v)
  \/ \E v \in Save : SaveDeletes(v) \/ SaveIndexes(v) \/ SaveInserts(v) \/ SaveFails(v)

(***************************************************************************)
(* Properties                                                              *)
(***************************************************************************)

\* The high-water mark and the peak of a session are never below a sample or a
\* checkpoint stored for it, if each checkpoint names the session of the process
\* that saves it. Without a name it counts for the session active last, which
\* another process may be sampling: one of the two updates is then lost.
MarksHold ==
  storePlan.named =>
    LET Below(m, s) == row[s].peak >= m.level /\ (m.tokens # Nothing => row[s].mark >= m.tokens)
    IN /\ \A m \in sample : Below(m, m.session)
       /\ \A i \in CheckpointId : checkpoint[i] # Nothing /\ checkpoint[i].session # Nothing =>
            Below([tokens |-> checkpoint[i].used, level |-> checkpoint[i].level], checkpoint[i].session)

\* Every vector belongs to a stored checkpoint, and a save that has ended well, and whose
\* row is the one stored, has its vector beside it: two saves of one millisecond share an
\* id, and in one process end in the order they wrote.  Not so if another process was
\* between its row and its vector of the same id: the two may end in either order.
Indexed ==
  \A i \in CheckpointId :
    /\ vector[i] # Nothing => checkpoint[i] # Nothing
    /\ checkpoint[i] # Nothing =>
         LET w == checkpoint[i].by IN
         vector[i] = w \/ save[w].pc \in Halfway \cup {"failed"} \/ save[w].over

\* What the sessions database says of a session and of its checkpoints is what was
\* measured and saved: MarksHold and Indexed.
SessionsHold == MarksHold /\ Indexed
=============================================================================
