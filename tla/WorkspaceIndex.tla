--------------------------- MODULE WorkspaceIndex ---------------------------
(***************************************************************************)
(* The search index of a workspace (packages/engine/src/vector.js,         *)
(* apps/desktop/src/indexer.js, tools/vector.js): a shard of entries that  *)
(* every operation loads, changes in its own copy and saves whole, and     *)
(* beside it the metadata of what was indexed, which a run writes last.    *)
(*                                                                         *)
(* The text of a file is the set of its chunks; two chunks of one topic    *)
(* are near-duplicates (a cosine of 0.9 or more).                          *)
(***************************************************************************)
EXTENDS Naturals, Sequences, FiniteSets, SequencesExt, FiniteSetsExt, Filters

CONSTANTS
    File,       \* the files of the workspace: 1..n, in the order of a walk
    Texts,      \* the texts a file may have: sets of chunks, {} for one not indexed
    Topic,      \* chunk -> what it is about
    Run,        \* indexing runs: a task's start, a change of a file, the daemon's start
    MaxEntries, \* the entries a shard may have
    MaxFiles,   \* the files a run looks at
    MaxRewrites,   \* bound: changes of the files
    MaxNotes,   \* bound: calls of the vector tool
    MaxRuns     \* bound: runs of the index

ASSUME IndexAssumption ==
    /\ IsFiniteSet(File) /\ File = 1..Cardinality(File)
    /\ {} \in Texts /\ UNION Texts \subseteq DOMAIN Topic
    /\ \A t \in Texts : IsFiniteSet(t)
    /\ {MaxEntries, MaxFiles, MaxRewrites, MaxNotes, MaxRuns} \subseteq Nat

VARIABLES
    text,   \* file -> its text, or Gone
    mtime,  \* file -> when it was written
    shard,  \* the entries on disk, the oldest first
    meta,   \* vector-index-meta.json: file -> what was indexed of it
    ix,     \* run -> where it is, its copies, and what it is still to look at
    left,   \* the edits, calls and runs still to come
    held,   \* history: file -> the chunks it ever had
    noted,  \* history: the topics of the notes remembered
    calm,   \* history: no overlapping runs and calls, no crash, nothing dropped
    steady   \* history: nothing changed on disk since a run began its walk

indexVars == <<text, mtime, shard, meta, ix, left, held, noted, calm, steady>>

Gone == {"gone"}
Unindexed == [mtime |-> 0, text |-> Gone]
IdleRun == [at |-> "idle", copy |-> <<>>, meta |-> <<>>, todo |-> {}, seen |-> 0]
Note == 0 \* the source of an entry that is no file's

IndexInit ==
    /\ text \in [File -> {Gone} \cup Texts]
    /\ mtime = [f \in File |-> 1]
    /\ shard = <<>>
    /\ meta = [f \in File |-> Unindexed]
    /\ ix = [r \in Run |-> IdleRun]
    /\ left = [edits |-> MaxRewrites, notes |-> MaxNotes, runs |-> MaxRuns]
    /\ held = [f \in File |-> IF text[f] = Gone THEN {} ELSE text[f]]
    /\ noted = {} /\ calm = TRUE /\ steady = TRUE

Busy == \E r \in Run : ix[r].at # "idle"

-----------------------------------------------------------------------------
(* The store *)

\* embed and cosine: of two texts the model keeps whether they are near-duplicates.
Near(c, d) == Topic[c] = Topic[d]

\* The store is saved whole, over whatever is on disk.
SaveShard(s) == shard' = s

\* prune: the entries with the most hits stay, among them the oldest.
Prune(s) ==
    IF Len(s) <= MaxEntries THEN s
    ELSE LET least == Min({s[i].hits : i \in DOMAIN s})
         IN RemoveAt(s, Max({i \in DOMAIN s : s[i].hits = least}))

\* add: merged into a near-duplicate, or appended and pruned. A merge makes the
\* entry the newest; of its hits the model keeps whether there were several.
Add(s, c, f) ==
    LET same == {i \in DOMAIN s : Near(s[i].chunk, c)}
    IN IF same = {} THEN Prune(Append(s, [chunk |-> c, file |-> f, hits |-> 1]))
       ELSE Append(RemoveAt(s, Min(same)), [chunk |-> c, file |-> f, hits |-> 2])

\* The chunks of a file are added one by one, each with a save.
AddAll(s, cs, f) ==
    LET upTo[n \in 0..Cardinality(cs)] == IF n = 0 THEN s ELSE Add(upTo[n - 1], SetToSeq(cs)[n], f)
    IN upTo[Cardinality(cs)]

\* Nothing was dropped by a prune: every topic is still there.
KeepsAll(before, after) ==
    \A i \in DOMAIN before : \E j \in DOMAIN after : Near(after[j].chunk, before[i].chunk)

\* search: what is near the query is found.
Search(s, topic) == {s[i] : i \in {j \in DOMAIN s : Topic[s[j].chunk] = topic}}

-----------------------------------------------------------------------------
(* indexWorkspace *)

\* The shard is loaded first, the metadata after an await.
Open(r) ==
    /\ ix[r].at = "idle" /\ left.runs > 0
    /\ ix' = [ix EXCEPT ![r] = [IdleRun EXCEPT !.at = "meta", !.copy = shard]]
    /\ left' = [left EXCEPT !.runs = @ - 1]
    /\ calm' = (calm /\ ~Busy)
    /\ UNCHANGED <<text, mtime, shard, meta, held, noted, steady>>

ReadMeta(r) ==
    /\ ix[r].at = "meta"
    /\ ix' = [ix EXCEPT ![r].at = "walk", ![r].meta = meta]
    /\ UNCHANGED <<text, mtime, shard, meta, left, held, noted, calm, steady>>

(* mutant: a deleted file leaves the metadata only *)
MutWithoutFiles(s, gone) == s

\* removeFileFromStore: the entries of the files are taken out of the copy.
WithoutFiles(s, gone) == Picked(s, {i \in DOMAIN s : s[i].file \notin gone})

\* walkDir, sorted.
FilesOnDisk == {f \in File : text[f] # Gone}

Walk(r) ==
    LET there == FilesOnDisk
        gone == {f \in File \ there : ix[r].meta[f] # Unindexed}
        kept == WithoutFiles(ix[r].copy, gone)
    IN /\ ix[r].at = "walk"
       /\ ix' = [ix EXCEPT ![r] = [@ EXCEPT
                    !.at = "stat", !.copy = kept,
                    !.meta = [f \in File |-> IF f \in gone THEN Unindexed ELSE ix[r].meta[f]],
                    !.todo = {f \in there : Cardinality({g \in there : g <= f}) <= MaxFiles}]]
       /\ SaveShard(IF kept = ix[r].copy THEN shard ELSE kept)
       /\ steady' = TRUE
       /\ UNCHANGED <<text, mtime, meta, left, held, noted, calm>>

\* The first tier: nothing is read when the time of the file is the same.
Untouched(r, f) == ix[r].meta[f].mtime = mtime[f]

StatFile(r) ==
    /\ ix[r].at = "stat" /\ ix[r].todo # {}
    /\ LET f == Min(ix[r].todo)
       IN ix' = [ix EXCEPT ![r] =
                   IF text[f] = Gone \/ Untouched(r, f) THEN [@ EXCEPT !.todo = ix[r].todo \ {f}]
                   ELSE [@ EXCEPT !.at = "read", !.seen = mtime[f]]]
    /\ UNCHANGED <<text, mtime, shard, meta, left, held, noted, calm, steady>>

\* readFileForIndex passes over a file that is gone, empty, large or binary.
Indexable(t) == t \notin {Gone, {}}

\* The second tier and the chunks: a file with the text that was indexed gets its
\* time; of any other the chunks are added, those of the text before stay.
ReadFile(r) ==
    LET f == Min(ix[r].todo)
        unread == ~Indexable(text[f])
        same == ix[r].meta[f].text = text[f]
        added == AddAll(ix[r].copy, text[f], f)
    IN /\ ix[r].at = "read"
       /\ ix' = [ix EXCEPT ![r] = [@ EXCEPT
                   !.at = "stat", !.todo = ix[r].todo \ {f}, !.seen = 0,
                   !.copy = IF unread \/ same THEN ix[r].copy ELSE added,
                   !.meta = IF unread THEN ix[r].meta
                            ELSE [ix[r].meta EXCEPT ![f] = [mtime |-> ix[r].seen, text |-> text[f]]]]]
       /\ IF unread \/ same THEN UNCHANGED <<shard, calm>>
          ELSE SaveShard(added) /\ calm' = (calm /\ KeepsAll(ix[r].copy, added)
                                              /\ \A c \in text[f] : Search(added, Topic[c]) # {})
       /\ UNCHANGED <<text, mtime, meta, left, held, noted, steady>>

WriteMeta(r) ==
    /\ ix[r].at = "stat" /\ ix[r].todo = {}
    /\ meta' = ix[r].meta
    /\ ix' = [ix EXCEPT ![r] = IdleRun]
    /\ UNCHANGED <<text, mtime, shard, left, held, noted, calm, steady>>

\* The process ends: what was saved stays, the metadata is not written.
IndexCut ==
    /\ Busy
    /\ ix' = [r \in Run |-> IdleRun] /\ calm' = FALSE
    /\ UNCHANGED <<text, mtime, shard, meta, left, held, noted, steady>>

-----------------------------------------------------------------------------
(* The vector tool, and everybody else *)

\* remember: the store is opened anew, in one step.
RememberNote(c) ==
    /\ left.notes > 0
    /\ SaveShard(Add(shard, c, Note))
    /\ noted' = noted \cup {Topic[c]}
    /\ calm' = (calm /\ ~Busy /\ KeepsAll(shard, shard') /\ Search(shard', Topic[c]) # {})
    /\ left' = [left EXCEPT !.notes = @ - 1]
    /\ UNCHANGED <<text, mtime, meta, ix, held, steady>>

\* forget, by the id of the entry.
Forget(i) ==
    /\ left.notes > 0
    /\ SaveShard(RemoveAt(shard, i))
    /\ calm' = FALSE
    /\ left' = [left EXCEPT !.notes = @ - 1]
    /\ UNCHANGED <<text, mtime, meta, ix, held, noted, steady>>

\* index, of one file: there is no metadata of what it adds.
IndexFile(f) ==
    /\ left.notes > 0 /\ Indexable(text[f])
    /\ SaveShard(AddAll(shard, text[f], f))
    /\ calm' = FALSE
    /\ left' = [left EXCEPT !.notes = @ - 1]
    /\ UNCHANGED <<text, mtime, meta, ix, held, noted, steady>>

EditFile(f, t) ==
    /\ left.edits > 0 /\ t # text[f]
    /\ text' = [text EXCEPT ![f] = t]
    /\ mtime' = [mtime EXCEPT ![f] = @ + 1]
    /\ held' = [held EXCEPT ![f] = IF t = Gone THEN @ ELSE @ \cup t]
    /\ left' = [left EXCEPT !.edits = @ - 1]
    /\ steady' = FALSE
    /\ UNCHANGED <<shard, meta, ix, noted, calm>>

IndexNext ==
    \/ \E r \in Run : Open(r) \/ ReadMeta(r) \/ Walk(r) \/ StatFile(r) \/ ReadFile(r) \/ WriteMeta(r)
    \/ IndexCut
    \/ \E c \in DOMAIN Topic : RememberNote(c)
    \/ \E i \in DOMAIN shard : Forget(i)
    \/ \E f \in File : IndexFile(f) \/ \E t \in Texts \cup {Gone} : EditFile(f, t)

IndexSpec == IndexInit /\ [][IndexNext]_indexVars

-----------------------------------------------------------------------------
(* Properties *)

\* Safety. A search quotes a file: the text it shows was in that file at some
\* time, whatever was merged into it and however the runs overlapped.
EntriesComeFromTheirFile ==
    \A i \in DOMAIN shard : shard[i].file \in File => shard[i].chunk \in held[shard[i].file]

\* Rested: a run has ended after the last change of a file, and nothing that is
\* known to lose entries ever happened.
Rested == calm /\ steady /\ ~Busy /\ left.runs < MaxRuns

\* Safety. What a deleted file had is no longer found after the next run: the
\* metadata, written after the entries, never forgets a file that has some.
DeletedIsForgotten ==
    Rested => \A i \in DOMAIN shard : shard[i].file \in File => text[shard[i].file] # Gone

TopicsOf(f) == {Topic[c] : c \in held[f]}
AmongTheFirst(f) == Cardinality({g \in File : g <= f /\ text[g] # Gone}) <= MaxFiles

\* Safety. After a run the notes are found, and so is every file among the first
\* MaxFiles, in spite of the two tiers that pass over files and of the merges:
\* unless the text is shared with another file, which may take it with it.
IndexedIsFound ==
    Rested =>
        /\ \A t \in noted : (\A f \in File : t \notin TopicsOf(f)) => Search(shard, t) # {}
        /\ \A f \in File :
              (/\ text[f] # Gone /\ AmongTheFirst(f)
               /\ \A g \in File \ {f} : TopicsOf(f) \cap TopicsOf(g) = {})
              => \A c \in text[f] : Search(shard, Topic[c]) # {}

(* The index (indexer.js, vector.js) follows the files: entries come from  *)
(* the file they name, a deleted file is forgotten, an indexed one is      *)
(* found, while files change and runs fail in between.                     *)
IndexHolds == EntriesComeFromTheirFile /\ DeletedIsForgotten /\ IndexedIsFound
=============================================================================
