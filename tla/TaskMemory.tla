----------------------------- MODULE TaskMemory -----------------------------
(***************************************************************************)
(* What the daemon remembers beyond one prompt: memories of finished       *)
(* tasks, and the messages that a compaction took out of the prompt.       *)
(***************************************************************************)
EXTENDS Naturals, Sequences, SequencesExt, FiniteSetsExt, FiniteSets, Filters

(***************************************************************************)
(* The structured memory of the daemon (packages/engine/src/memory.js):    *)
(* every finished task is folded into it, near-duplicates of a workspace   *)
(* are merged, entries expire, can be revoked, and are pruned when they    *)
(* are too many; a task recalls what is near it.                           *)
(***************************************************************************)
CONSTANTS
    Text,        \* what may be remembered
    Theme,       \* text -> what it is about: texts of one theme are near-duplicates
    Space,       \* the workspaces
    MaxMemories, \* the entries the store may have
    TtlDays,     \* the days an entry is good for
    MaxDays,     \* bound: days that pass
    MaxLearned   \* bound: texts remembered

ASSUME MemoriesAssumption ==
    /\ DOMAIN Theme = Text /\ "" \notin Space
    /\ {MaxMemories, TtlDays, MaxDays, MaxLearned} \subseteq Nat

VARIABLES
    memories, \* the entries, the oldest first
    days,     \* days so far
    learned,  \* texts remembered so far
    full,     \* history: an entry good for use was dropped for want of room
    origin    \* history: what was remembered for which space, on which day last,
              \* and whether it was revoked since

memoryVars == <<memories, days, learned, full, origin>>

Global == "" \* the space of a task that has none
Spaces == Space \cup {Global}

MemoryInit == memories = <<>> /\ days = 0 /\ learned = 0 /\ full = FALSE /\ origin = {}

Expired(e) == days - e.day > TtlDays

(* mutant: the spaces are not told apart *)
MutDuplicates(t, w) == {i \in DOMAIN memories : Theme[memories[i].text] = Theme[t]}

\* An entry of the same space that is nearly the same.
Duplicates(t, w) == {i \in DOMAIN memories : memories[i].space = w /\ Theme[memories[i].text] = Theme[t]}

\* prune, of the entries good for use: those with the most hits stay, among them
\* the oldest. The one just appended has one hit and is the newest: it is dropped.
Good(s) == Picked(s, {i \in DOMAIN s : ~s[i].revoked /\ ~Expired(s[i])})
PruneMemories(s) ==
    LET good == Good(s)
        least == Min({good[i].hits : i \in DOMAIN good})
    IN IF Len(good) <= MaxMemories THEN good
       ELSE RemoveAt(good, Max({i \in DOMAIN good : good[i].hits = least}))

\* remember, by learnFromRun at the end of every task: a merge makes the entry
\* the newest, and good again if it was revoked or had expired.
Remember(t, w) ==
    LET entry(n) == [text |-> t, space |-> w, day |-> days, hits |-> n, revoked |-> FALSE]
        same == Duplicates(t, w)
        longer == Append(memories, entry(1))
    IN /\ learned < MaxLearned
       /\ learned' = learned + 1
       /\ memories' = IF same # {}
                      THEN Append(RemoveAt(memories, Min(same)), entry(2))
                      ELSE PruneMemories(longer)
       /\ full' = (full \/ (same = {} /\ Len(Good(longer)) > MaxMemories))
       /\ origin' = {o \in origin : o.space # w \/ Theme[o.text] # Theme[t]}
                        \cup {[text |-> t, space |-> w, day |-> days, revoked |-> FALSE]}
       /\ UNCHANGED days

\* revoke keeps the entry, for the next prune.
Revoke(i) ==
    /\ ~memories[i].revoked
    /\ memories' = [memories EXCEPT ![i].revoked = TRUE]
    /\ origin' = {IF o.text = memories[i].text /\ o.space = memories[i].space
                  THEN [o EXCEPT !.revoked = TRUE] ELSE o : o \in origin}
    /\ UNCHANGED <<days, learned, full>>

Forgotten(i) ==
    /\ memories' = RemoveAt(memories, i)
    /\ origin' = {o \in origin : o.text # memories[i].text \/ o.space # memories[i].space}
    /\ UNCHANGED <<days, learned, full>>

DayPasses ==
    /\ days < MaxDays
    /\ days' = days + 1
    /\ UNCHANGED <<memories, learned, full, origin>>

\* recall, for a task of a workspace (what is near the task, and the scores, are
\* left out). A task without one sees every space: the filter is off then.
Recall(w) ==
    {memories[i] : i \in {j \in DOMAIN memories :
        /\ ~memories[j].revoked
        /\ w = Global \/ memories[j].space \in {Global, w}
        /\ ~Expired(memories[j])}}

MemoryNext ==
    \/ \E t \in Text, w \in Spaces : Remember(t, w)
    \/ \E i \in DOMAIN memories : Revoke(i) \/ Forgotten(i)
    \/ DayPasses

MemorySpec == MemoryInit /\ [][MemoryNext]_memoryVars

-----------------------------------------------------------------------------
(* Properties *)

\* Safety. A workspace keeps and sees its own: what was remembered for it is
\* recalled there (as it was last said) until it is revoked, expires or the store
\* is full, and what it recalls was remembered for it or for none. A merge never
\* reaches over to the entry of another workspace.
EachSpaceHasItsOwn ==
    \A w \in Space :
        /\ \A o \in origin : (o.space = w /\ ~o.revoked /\ days - o.day <= TtlDays /\ ~full) =>
              \E e \in Recall(w) : e.text = o.text /\ e.space = w
        /\ \A e \in Recall(w) : \E o \in origin : o.text = e.text /\ o.space \in {Global, w}

\* Safety. A revoked memory stays away until a task remembers it anew, whatever
\* was merged, pruned and remembered meanwhile; so does one that has expired.
RevokedStaysAway ==
    \A w \in Spaces : \A e \in Recall(w) :
        \A o \in origin : (o.text = e.text /\ o.space = e.space) =>
            ~o.revoked /\ days - o.day <= TtlDays
-----------------------------------------------------------------------------
(***************************************************************************)
(* The context of a task (packages/engine/src/cortex.js, the compaction in *)
(* loop.js, apps/desktop/src/tools/recall.js): the messages of the prompt  *)
(* are a cache, and those a compaction displaces are archived in a store   *)
(* of the daemon's memory, addressed by their content, and replaced by     *)
(* pointers. A pointer is a text like any other: the next compaction       *)
(* archives it too. <<c, 0>> is the message c, <<c, n + 1>> a pointer to   *)
(* <<c, n>>.                                                               *)
(***************************************************************************)
CONSTANTS
    Content,   \* what the messages of a task may say
    Long,      \* ... those that take three units; the others, and pointers, take one
    System,    \* the system prompt
    MaxChars,  \* the budget of the context, in units
    KeepHead,  \* the messages at the front that stay as they are
    KeepTail,  \* and those at the end
    MaxTurns   \* bound: turns of a task, restarts and tasks

ASSUME CortexAssumption ==
    /\ Long \subseteq Content /\ System \notin Content
    /\ {MaxChars, KeepHead, KeepTail, MaxTurns} \subseteq Nat

VARIABLES
    messages, \* the prompt: a sequence of texts
    archive,  \* the entries of the cortex
    turns,    \* turns, restarts and tasks so far
    said      \* history: what the task was told, as far as a restart kept it

cortexVars == <<messages, archive, turns, said>>

CortexInit ==
    /\ messages = <<>> /\ archive = {} /\ turns = 0 /\ said = {}

Size(t) == IF t[2] = 0 /\ t[1] \in Long THEN 3 ELSE 1
Total(ms) == FoldSeq(LAMBDA t, n : n + Size(t), 0, ms)
Pointer(t) == <<t[1], t[2] + 1>>

-----------------------------------------------------------------------------
\* The split of a long prompt: the tail begins after the head, however short.
TailFrom(ms) == Max({KeepHead, Len(ms) - KeepTail}) + 1
Middle(ms) == SubSeq(ms, KeepHead + 1, TailFrom(ms) - 1)

\* store: each message of the middle, under the digest of its text.
Archived(ms) == Range(Middle(ms))

\* compactLossless, before every turn but the first.
Compact(ms) ==
    IF Total(ms) <= MaxChars \/ Len(ms) <= KeepHead THEN ms
    ELSE SubSeq(ms, 1, KeepHead) \o [i \in DOMAIN Middle(ms) |-> Pointer(Middle(ms)[i])]
             \o SubSeq(ms, TailFrom(ms), Len(ms))

NewTask(c) ==
    /\ turns < MaxTurns
    /\ messages' = <<<<System, 0>>, <<c, 0>>>>
    /\ said' = {System, c}
    /\ turns' = turns + 1
    /\ UNCHANGED archive

\* A turn of TaskLoop.run: the reply, and what the tools or the nudge answer it.
Turn(reply, answer) ==
    /\ turns < MaxTurns /\ messages # <<>>
    /\ messages' = Compact(messages) \o <<<<reply, 0>>, <<answer, 0>>>>
    /\ archive' = IF Compact(messages) = messages THEN archive ELSE archive \cup Archived(messages)
    /\ said' = said \cup {reply, answer}
    /\ turns' = turns + 1

\* The daemon restarts and resumes the task from the messages of its checkpoint:
\* the archive was in memory only, and what it held is out of reach.
ResumeTask(c) ==
    /\ turns < MaxTurns /\ messages # <<>>
    /\ messages' = Append(messages, <<c, 0>>)
    /\ archive' = {}
    /\ said' = {t[1] : t \in {u \in Range(messages) : u[2] = 0}} \cup {c}
    /\ turns' = turns + 1

CortexNext ==
    \/ \E c \in Content : NewTask(c) \/ ResumeTask(c)
    \/ \E reply, answer \in Content : Turn(reply, answer)

CortexSpec == CortexInit /\ [][CortexNext]_cortexVars

-----------------------------------------------------------------------------
(* Properties *)

\* recall, as often as it takes: from a pointer to the message it stands for.
Restores(t) == \A n \in 0..(t[2] - 1) : <<t[1], n>> \in archive

\* Safety. Compaction loses nothing: whatever a task was told since the daemon
\* started is in its prompt, or can be recalled from it by following pointers,
\* however often the prompt was compacted and pointers were themselves archived.
NothingIsLost ==
    \A c \in said : \E t \in Range(messages) : t[1] = c /\ Restores(t)

(* What a task is told of earlier ones (memory.js) is of its own workspace *)
(* and was not revoked, and nothing it was told itself is lost to the      *)
(* compaction of its prompt (cortex.js).                                   *)
MemoryHolds == EachSpaceHasItsOwn /\ RevokedStaysAway /\ NothingIsLost
=============================================================================
