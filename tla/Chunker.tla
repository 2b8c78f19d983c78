------------------------------- MODULE Chunker --------------------------------
(***************************************************************************)
(* chunkMarkdown, which cuts a document into chunks for embedding. A        *)
(* document is a sequence of sections (a heading starts one), a section of  *)
(* paragraphs, a paragraph of sentences, a sentence is its name and size    *)
(* in tokens.                                                              *)
(***************************************************************************)
EXTENDS Integers, Sequences, SequencesExt

CONSTANTS Document, Target, Overlap, MinTokens, Pending

Sentence == UNION {UNION {UNION {ToSet(p) : p \in ToSet(section)} : section \in ToSet(d)} : d \in Document}

ASSUME ChunkerAssumption ==
  /\ Document \subseteq Seq(Seq(Seq(Sentence))) /\ \A s \in Sentence : s.size \in Nat
  /\ Target \in Nat /\ Overlap \in Nat /\ MinTokens \in Nat

VARIABLES document, chunks   \* what is cut, and what it is cut into

chunkerVars == <<document, chunks>>

Size(sentences) ==
  LET to[i \in 0..Len(sentences)] == IF i = 0 THEN 0 ELSE to[i - 1] + sentences[i].size IN to[Len(sentences)]

\* Pieces one after the other.
Joined(pieces) ==
  LET to[i \in 0..Len(pieces)] == IF i = 0 THEN <<>> ELSE to[i - 1] \o pieces[i] IN to[Len(pieces)]

Least(m, n) == IF m <= n THEN m ELSE n

NonEmpty(a) == IF a = <<>> THEN <<>> ELSE <<a>>

\* Pieces are gathered until the next would exceed the target.
Gather(st, piece) ==
  IF st.accum # <<>> /\ Size(st.accum) + Size(piece) > Target
  THEN [done |-> Append(st.done, st.accum), accum |-> piece]
  ELSE [done |-> st.done, accum |-> st.accum \o piece]

Nothing0 == [done |-> <<>>, accum |-> <<>>]
Flushed(st) == st.done \o NonEmpty(st.accum)

\* chunkBySentences.
BySentences(paragraph) ==
  LET to[i \in 0..Len(paragraph)] == IF i = 0 THEN Nothing0 ELSE Gather(to[i - 1], <<paragraph[i]>>)
  IN Flushed(to[Len(paragraph)])

\* Mutant: what was gathered is not flushed before a large paragraph.
ParagraphUnflushed(st, p) ==
  IF Size(p) > Target THEN [st EXCEPT !.done = @ \o BySentences(p)] ELSE Gather(st, p)

\* chunkSection: a paragraph above the target is cut by its sentences, after what
\* was gathered before it.
Paragraph(st, p) ==
  IF Size(p) > Target THEN [done |-> Flushed(st) \o BySentences(p), accum |-> <<>>] ELSE Gather(st, p)

OfSection(section) ==
  LET to[i \in 0..Len(section)] == IF i = 0 THEN Nothing0 ELSE Paragraph(to[i - 1], section[i])
  IN Flushed(to[Len(section)])

Raw(doc) == Joined([k \in DOMAIN doc |-> OfSection(doc[k])])

\* applyOverlap: each chunk but the first gets the tail of the one before.
Overlapped(raw) ==
  [i \in DOMAIN raw |-> [text |-> raw[i],
     size |-> Size(raw[i]) + IF i = 1 THEN 0 ELSE Least(Overlap, Size(raw[i - 1]))]]

\* mergeTinyChunks: a chunk below the minimum, its overlap counted, goes to the one before.
WithChunk(all, c) ==
  IF all # <<>> /\ c.size < MinTokens
  THEN [all EXCEPT ![Len(all)] = [text |-> @.text \o c.text, size |-> @.size + c.size]]
  ELSE Append(all, c)

MergedTiny(cs) ==
  LET to[i \in 0..Len(cs)] == IF i = 0 THEN <<>> ELSE WithChunk(to[i - 1], cs[i]) IN to[Len(cs)]

ChunkerInit == document \in Document /\ chunks = Pending
ChunkMarkdown ==
  chunks = Pending /\ chunks' = MergedTiny(Overlapped(Raw(document))) /\ UNCHANGED document

(***************************************************************************)
(* Properties                                                              *)
(***************************************************************************)

\* The chunks hold the sentences of the document, each once and in order, and only
\* the first is below the minimum; before overlap and joining, a chunk above the
\* target is one long sentence, and none crosses a heading.
ChunksHold ==
  chunks # Pending =>
    /\ Joined([i \in DOMAIN chunks |-> chunks[i].text]) = Joined([k \in DOMAIN document |-> Joined(document[k])])
    /\ \A i \in DOMAIN chunks : i > 1 => chunks[i].size >= MinTokens
    /\ \A i \in DOMAIN Raw(document) : LET c == Raw(document)[i] IN
         /\ Size(c) <= Target \/ Len(c) = 1
         /\ \E k \in DOMAIN document : ToSet(c) \subseteq ToSet(Joined(document[k]))
=============================================================================
