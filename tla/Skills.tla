--------------------------------- MODULE Skills ---------------------------------
(***************************************************************************)
(* Skills: files found on the search paths of a working directory, the best *)
(* file for each name, and two caches - the list of one directory for five  *)
(* seconds, and the content of each file as long as its modification time   *)
(* stays. A call is one step, since it awaits nothing; between two calls    *)
(* files come, go and change, and time passes.                              *)
(***************************************************************************)
EXTENDS Integers, Sequences, SequencesExt, FiniteSets

CONSTANTS
  SkillFile,     \* the files that may be there
  SearchOf,      \* SearchOf[cwd]: what its search paths lead to, in order: path, name, source
  SkillRequest,  \* calls of resolveSkillsWithFallback: names, cwd, fallback (or no fallback)
  Reserved,      \* the orchestration skill, which no child gets
  MaxCached,     \* how many contents are kept
  MaxSkillTime,  \* bound of the clock
  MaxChanges,    \* bound of the changes to files
  NoFile

SkillSource ==
  {"project", "project-settings", "project-package", "user", "user-settings", "user-package", "extension", "builtin", "unknown"}

\* SOURCE_PRIORITY.
Priority ==
  [source \in SkillSource |->
    CASE source = "project" -> 700 [] source = "project-settings" -> 650 [] source = "project-package" -> 600
      [] source = "user" -> 300 [] source = "user-settings" -> 250 [] source = "user-package" -> 200
      [] source = "extension" -> 150 [] source = "builtin" -> 100 [] source = "unknown" -> 0]

\* The name of a skill follows from its path.
ASSUME SkillsAssumption ==
  /\ MaxCached \in Nat \ {0} /\ MaxSkillTime \in Nat /\ MaxChanges \in Nat
  /\ NoFile \notin DOMAIN SearchOf
  /\ \A w \in DOMAIN SearchOf :
       /\ SearchOf[w] \in Seq(ToSet(SearchOf[w]))
       /\ \A i \in DOMAIN SearchOf[w] : SearchOf[w][i].path \in SkillFile /\ SearchOf[w][i].source \in SkillSource
  /\ \A v, w \in DOMAIN SearchOf : \A i \in DOMAIN SearchOf[v], j \in DOMAIN SearchOf[w] :
       SearchOf[v][i].path = SearchOf[w][j].path => SearchOf[v][i].name = SearchOf[w][j].name
  /\ \A r \in SkillRequest :
       r.names \in Seq(ToSet(r.names)) /\ r.cwd \in DOMAIN SearchOf /\ r.fallback \in DOMAIN SearchOf \cup {NoFile}

VARIABLES
  skillFile,  \* skillFile[path]: is it there, its modification time and text, and whether the
              \* last change left the time as it was
  skillClock, \* milliseconds
  changes,    \* how often a file was changed
  listing,    \* the cached list: of which directory, its entries, whether younger than five seconds
  contents,   \* the cached contents, oldest first: path, time, text
  given       \* the last call and its answer

skillVars == <<skillFile, skillClock, changes, listing, contents, given>>

NoListing == [cwd |-> NoFile, entries |-> {}, young |-> FALSE]
NoAnswerYet == [request |-> [names |-> <<>>, cwd |-> NoFile, fallback |-> NoFile], resolved |-> <<>>, missing |-> <<>>, old |-> {}]

\* At first any of the files may be there.
SkillFiles == [SkillFile -> {[there |-> b, mtime |-> 0, text |-> 0, blurred |-> FALSE] : b \in BOOLEAN}]

SkillsInit ==
  /\ skillClock = 1
  /\ changes = 0
  /\ listing = NoListing
  /\ contents = <<>>
  /\ given = NoAnswerYet

\* collectFilesystemSkills: each file once, under the first path that leads to it.
Entries(cwd) == LET search == SearchOf[cwd] IN
  {[order |-> i, path |-> search[i].path, name |-> search[i].name, source |-> search[i].source] :
     i \in {j \in DOMAIN search : skillFile[search[j].path].there /\ \A h \in 1..(j - 1) : search[h].path # search[j].path}}

\* Mutant: the order of the search alone decides.
BeatsByOrder(e, f) == e.order < f.order

\* chooseHigherPrioritySkill.
Beats(e, f) ==
  \/ Priority[e.source] > Priority[f.source]
  \/ Priority[e.source] = Priority[f.source] /\ e.order < f.order

BestSkills(entries) == {e \in entries : \A f \in entries : f.name = e.name /\ f # e => Beats(e, f)}

\* getCachedSkills: the cache holds the list of one directory.
ListFor(cwd, held) ==
  IF held.cwd = cwd /\ held.young THEN held ELSE [cwd |-> cwd, entries |-> BestSkills(Entries(cwd)), young |-> TRUE]

Cached(path, held) == {i \in DOMAIN held : held[i].path = path}

\* readSkill: a content is read again if the file's time has changed; of an
\* overfull cache the content that came in first goes.
Refreshed(entry, held) ==
  LET file == skillFile[entry.path]
      new == [path |-> entry.path, mtime |-> file.mtime, text |-> file.text]
      at == Cached(entry.path, held)
  IN IF \E i \in at : held[i].mtime = file.mtime THEN held
     ELSE IF at # {} THEN [i \in DOMAIN held |-> IF i \in at THEN new ELSE held[i]]
     ELSE IF Len(held) = MaxCached THEN Append(Tail(held), new) ELSE Append(held, new)

\* resolveSkills for one name: the file its entry leads to, read through the cache.
WithSkill(s, name, cwd) ==
  LET list == ListFor(cwd, s.list)
      found == {e \in list.entries : e.name = name /\ skillFile[e.path].there}
      e == CHOOSE x \in found : TRUE
      held == Refreshed(e, s.held)
      at == CHOOSE i \in Cached(e.path, held) : TRUE
  IN IF name = Reserved THEN [s EXCEPT !.missing = Append(@, name)]
     ELSE IF found = {} THEN [s EXCEPT !.list = list, !.missing = Append(@, name)]
     ELSE [s EXCEPT !.list = list, !.held = held,
                    !.resolved = Append(@, [name |-> name, path |-> e.path, text |-> held[at].text, cwd |-> cwd])]

\* resolveSkills, one name after the other, for one directory.
ResolveIn(state, names, cwd) ==
  LET after[k \in 0..Len(names)] == IF k = 0 THEN state ELSE WithSkill(after[k - 1], names[k], cwd)
  IN after[Len(names)]

\* resolveSkillsWithFallback: what the child's directory lacks is looked for in the other.
ResolvesSkills(request) ==
  LET start == [list |-> listing, held |-> contents, resolved |-> <<>>, missing |-> <<>>]
      primary == ResolveIn(start, request.names, request.cwd)
      all == IF request.fallback \in {NoFile, request.cwd} \/ primary.missing = <<>> THEN primary
             ELSE ResolveIn([primary EXCEPT !.missing = <<>>], primary.missing, request.fallback)
  IN /\ listing' = all.list
     /\ contents' = all.held
     /\ given' = [request |-> request, resolved |-> all.resolved, missing |-> all.missing,
                  old |-> IF listing.young THEN {listing.cwd} ELSE {}]
     /\ UNCHANGED <<skillFile, skillClock, changes>>

\* Somebody writes, adds or removes a skill file (external).
Rewrites(path) ==
  /\ changes < MaxChanges /\ changes' = changes + 1
  /\ skillFile' = [skillFile EXCEPT ![path] =
       [there |-> TRUE, mtime |-> skillClock, text |-> changes + 1, blurred |-> @.mtime = skillClock]]
  /\ given' = NoAnswerYet
  /\ UNCHANGED <<skillClock, listing, contents>>

RemovesSkill(path) ==
  /\ skillFile[path].there /\ changes < MaxChanges /\ changes' = changes + 1
  /\ skillFile' = [skillFile EXCEPT ![path].there = FALSE]
  /\ given' = NoAnswerYet
  /\ UNCHANGED <<skillClock, listing, contents>>

\* A millisecond passes, or five seconds (external).
SkillTimePasses ==
  /\ skillClock < MaxSkillTime
  /\ skillClock' = skillClock + 1
  /\ \E young \in {FALSE, listing.young} : listing' = [listing EXCEPT !.young = young]
  /\ given' = NoAnswerYet
  /\ UNCHANGED <<skillFile, changes, contents>>

SkillsNext ==
  \/ \E r \in SkillRequest : ResolvesSkills(r)
  \/ \E path \in SkillFile : Rewrites(path) \/ RemovesSkill(path)
  \/ SkillTimePasses

(***************************************************************************)
(* Properties                                                              *)
(***************************************************************************)

\* Each name that was asked for is answered once: with a skill or as missing.
EachNameAnswered ==
  LET names == [i \in DOMAIN given.resolved |-> given.resolved[i].name] \o given.missing
  IN /\ \A n \in ToSet(given.request.names) \cup ToSet(names) :
          Cardinality({i \in DOMAIN names : names[i] = n}) = Cardinality({i \in DOMAIN given.request.names : given.request.names[i] = n})
     /\ \A i \in DOMAIN given.resolved : given.resolved[i].name # Reserved

\* A skill that is given has the text its file has at that moment, whoever read the
\* file before and however often it has changed - unless it was written twice in
\* one millisecond.
TextIsCurrent ==
  \A i \in DOMAIN given.resolved : LET r == given.resolved[i] IN
    skillFile[r.path].there /\ (skillFile[r.path].blurred \/ r.text = skillFile[r.path].text)

\* From a list that was made for the call, a name stands for the file of the
\* greatest priority in the child's directory, in the other one only if there is
\* none there, and is missing only if neither has it.
BestIsGiven ==
  LET q == given.request
      In(cwd, n) == {e \in Entries(cwd) : e.name = n}
      other == IF q.fallback = NoFile THEN {} ELSE {q.fallback}
  IN given.old \cap ({q.cwd} \cup other) = {} =>
       /\ \A i \in DOMAIN given.resolved : LET r == given.resolved[i] IN
            /\ \E e \in In(r.cwd, r.name) : e.path = r.path /\ \A f \in In(r.cwd, r.name) : Priority[f.source] <= Priority[e.source]
            /\ r.cwd # q.cwd => In(q.cwd, r.name) = {}
       /\ \A n \in ToSet(given.missing) : n = Reserved \/ \A cwd \in {q.cwd} \cup other : In(cwd, n) = {}

\* The cache of contents never grows beyond its bound and holds no file twice.
CacheBounded ==
  /\ Len(contents) <= MaxCached
  /\ \A i, j \in DOMAIN contents : contents[i].path = contents[j].path => i = j

\* Children get the skills that are there: EachNameAnswered, TextIsCurrent,
\* BestIsGiven and CacheBounded.
SkillsHold == EachNameAnswered /\ TextIsCurrent /\ BestIsGiven /\ CacheBounded
=============================================================================
