--------------------------- MODULE AgentRegistry ---------------------------
(***************************************************************************)
(* The registry of agents (apps/desktop/src/agent-catalog.js): agents.json *)
(* holds the entries the user wrote and those a console (`fleet`, `focus`, *)
(* a heartbeat) adopts, once per process, from the process table.  It is   *)
(* read again at each use and written in place, by whichever process.      *)
(*                                                                         *)
(* An entry is [by, of, kind]: by hand or auto, the program its pattern    *)
(* matches, and its kind: "good", "bad" for a pattern that is no regular   *)
(* expression, "named" for one with neither a pattern nor an id.           *)
(***************************************************************************)
EXTENDS Naturals, Sequences, FiniteSets, SequencesExt, Filters

CONSTANTS
    Program,   \* programs whose name makes them agents
    Signed,    \* those a signature knows as well
    IdOf,      \* the id of a program's entry: the name of its file
    Console,   \* processes that draw the roster
    AutoMax,   \* entries a console writes at most
    MaxHandEdits   \* bound: changes of the file by hand

ASSUME RegistryAssumption ==
    /\ IsFiniteSet(Program) /\ Signed \subseteq Program /\ IdOf \in [Program -> STRING]
    /\ AutoMax \in Nat \ {0} /\ MaxHandEdits \in Nat

VARIABLES
    entries,   \* agents.json
    cutOff,    \* ... and whether its writer died over it
    programs,   \* programs in the process table
    consoleAt,        \* where each console is
    found,     \* the programs a console found by name
    next,      \* the entries it is about to write
    handEdits,
    upToDate,     \* history: consoles that read the file as it is now
    kept,      \* history: entries written or adopted, and not deleted by hand
    spoiled    \* history: something came in the way that is known to lose entries

registryVars == <<entries, cutOff, programs, consoleAt, found, next, handEdits, upToDate, kept, spoiled>>
seen == <<upToDate, kept, spoiled>>

Entry == [by : {"hand", "auto"}, of : Program, kind : {"good", "bad", "named"}]
AutoEntry(p) == [by |-> "auto", of |-> p, kind |-> "good"]

Torn == cutOff \/ \E c \in Console : consoleAt[c] = "writing"

\* registryEntries: one pattern that does not compile, and there are none.
RegistryEntries ==
    IF Torn \/ \E e \in ToSet(entries) : e.kind = "bad" THEN <<>>
    ELSE Picked(entries, {i \in DOMAIN entries : entries[i].kind = "good"})

StaleAuto(e) == e.by = "auto" /\ e.of \in Signed
NotStale(list) == Picked(list, {i \in DOMAIN list : ~StaleAuto(list[i])})
Matches(list, p) == \E e \in ToSet(list) : e.of = p

\* detectAgents: the agents that neither an entry nor a signature knows.
DetectAgents(c) ==
    /\ consoleAt[c] = "off"
    /\ consoleAt' = [consoleAt EXCEPT ![c] = "detected"]
    /\ found' = [found EXCEPT ![c] = {p \in programs \ Signed : ~Matches(RegistryEntries, p)}]
    /\ UNCHANGED <<entries, cutOff, programs, next, handEdits, seen>>

\* The file is read again: another console may have adopted them meanwhile.
Adopted(known, candidates) == {p \in candidates : ~Matches(known, p)}

(* mutant: the newcomers come first, and the cap cuts off what was there *)
MutNextEntries(known, add) ==
    LET all == [i \in 1..Cardinality(add) |-> AutoEntry(SetToSeq(add)[i])] \o known
    IN SubSeq(all, 1, IF Len(all) < AutoMax THEN Len(all) ELSE AutoMax)

\* ... what was there comes first, and the rest as far as there is room.
NextEntries(known, add) ==
    LET all == known \o [i \in 1..Cardinality(add) |-> AutoEntry(SetToSeq(add)[i])]
    IN SubSeq(all, 1, IF Len(all) < AutoMax THEN Len(all) ELSE AutoMax)

\* autoRegister, up to the write: it is due when something was adopted or
\* when there is a stale entry, or one too many, to drop.
AutoRegister(c) ==
    LET before == RegistryEntries
        known == NotStale(before)
        add == Adopted(known, found[c])
        list == NextEntries(known, add)
    IN /\ consoleAt[c] = "detected"
       /\ next' = [next EXCEPT ![c] = list]
       /\ consoleAt' = [consoleAt EXCEPT ![c] =
                     IF add # {} \/ Len(list) # Len(before) THEN "registered" ELSE "up"]
       /\ upToDate' = IF Torn THEN upToDate \ {c} ELSE upToDate \cup {c}
       /\ found' = [found EXCEPT ![c] = {}]
       /\ UNCHANGED <<entries, cutOff, programs, handEdits, kept, spoiled>>

\* writeFileSync truncates the file and then fills it.
WriteBegins(c) ==
    /\ consoleAt[c] = "registered"
    /\ consoleAt' = [consoleAt EXCEPT ![c] = "writing"]
    /\ entries' = <<>>
    /\ spoiled' = (spoiled \/ c \notin upToDate)
    /\ upToDate' = upToDate \cap {c}
    /\ UNCHANGED <<cutOff, programs, found, next, handEdits, kept>>

\* The audit of it throws (auditWrite is not imported), and that is caught.
WriteEnds(c) ==
    /\ consoleAt[c] = "writing"
    /\ consoleAt' = [consoleAt EXCEPT ![c] = "up"]
    /\ entries' = next[c]
    /\ cutOff' = FALSE
    /\ kept' = {e \in kept : ~StaleAuto(e)} \cup ToSet(next[c])
    /\ upToDate' = {}
    /\ next' = [next EXCEPT ![c] = <<>>]
    /\ UNCHANGED <<programs, found, handEdits, spoiled>>

\* A console ends, or is killed, and comes back as another process.  One
\* that ends before its write has changed nothing: it is as if still off.
ConsoleEnds(c) ==
    /\ consoleAt[c] \in {"writing", "up"}
    /\ consoleAt' = [consoleAt EXCEPT ![c] = "off"]
    /\ next' = [next EXCEPT ![c] = <<>>]
    /\ cutOff' = (cutOff \/ consoleAt[c] = "writing")
    /\ spoiled' = (spoiled \/ consoleAt[c] = "writing")
    /\ upToDate' = upToDate \ {c}
    /\ UNCHANGED <<entries, programs, found, handEdits, kept>>

\* external: the user adds an entry to the file, or deletes one.
AddByHand(p, kind) ==
    LET e == [by |-> "hand", of |-> p, kind |-> kind]
    IN /\ ~Torn /\ handEdits < MaxHandEdits /\ e \notin ToSet(entries)
       /\ entries' = Append(entries, e)
       /\ kept' = kept \cup {e}
       /\ spoiled' = (spoiled \/ kind # "good" \/ Len(entries) >= AutoMax)
       /\ upToDate' = {}
       /\ handEdits' = handEdits + 1
       /\ UNCHANGED <<cutOff, programs, consoleAt, found, next>>

DeleteByHand(i) ==
    /\ ~Torn /\ handEdits < MaxHandEdits /\ i \in DOMAIN entries
    /\ entries' = RemoveAt(entries, i)
    /\ kept' = kept \ {entries[i]}
    /\ upToDate' = {}
    /\ handEdits' = handEdits + 1
    /\ UNCHANGED <<cutOff, programs, consoleAt, found, next, spoiled>>

\* external: programs come and go on their own.
ProgramComesOrGoes(p) ==
    /\ programs' = IF p \in programs THEN programs \ {p} ELSE programs \cup {p}
    /\ UNCHANGED <<entries, cutOff, consoleAt, found, next, handEdits, seen>>

\* startAgent for an entry of the registry: the first one with the id.  The
\* policy's gate comes first, here and in stopAgent: what it refuses does nothing.
StartAgent(id) ==
    LET list == RegistryEntries
        ofId == {i \in DOMAIN list : IdOf[list[i].of] = id}
    IN /\ \E first \in ofId :
            /\ \A i \in ofId : first <= i
            /\ programs' = programs \cup {list[first].of}
       /\ UNCHANGED <<entries, cutOff, consoleAt, found, next, handEdits, seen>>

\* stopAgent: by the pid of the roster; killPid sends SIGTERM.
StopAgent(p) ==
    /\ p \in programs
    /\ programs' = programs \ {p}
    /\ UNCHANGED <<entries, cutOff, consoleAt, found, next, handEdits, seen>>

RegistryInit ==
    /\ \E s \in SUBSET Signed : entries = [i \in 1..Cardinality(s) |-> AutoEntry(SetToSeq(s)[i])]
    /\ cutOff = FALSE
    /\ programs \in SUBSET Program
    /\ consoleAt = [c \in Console |-> "off"]
    /\ found = [c \in Console |-> {}]
    /\ next = [c \in Console |-> <<>>]
    /\ handEdits = 0
    /\ upToDate = {}
    /\ kept = ToSet(entries)
    /\ spoiled = FALSE

RegistryNext ==
    \/ \E c \in Console : DetectAgents(c) \/ AutoRegister(c) \/ WriteBegins(c) \/ WriteEnds(c) \/ ConsoleEnds(c)
    \/ \E p \in Program, kind \in {"good", "bad", "named"} : AddByHand(p, kind)
    \/ \E i \in DOMAIN entries : DeleteByHand(i)
    \/ \E p \in Program : ProgramComesOrGoes(p) \/ StopAgent(p)
    \/ \E p \in Program : StartAgent(IdOf[p])

RegistrySpec == RegistryInit /\ [][RegistryNext]_registryVars
-----------------------------------------------------------------------------
\* However two consoles come up at once, a program is adopted by one entry:
\* the registry never holds two learned entries for the same program
\* (agent-catalog.js:230, the check against the file as it is by then).
OneEntryEach ==
    \A i, j \in DOMAIN entries :
        entries[i].by = "auto" /\ entries[j].by = "auto" /\ entries[i].of = entries[j].of => i = j

\* As long as every pattern compiles, every entry has a pattern or an id, the
\* file stays below the cap, nobody dies over it and nobody changes it between
\* a console's read and its write, no console's start loses an entry that the
\* user wrote or that was adopted, but for the stale ones.
KeptUnlessSpoiled == ~Torn /\ ~spoiled => {e \in kept : ~StaleAuto(e)} \subseteq ToSet(entries)

\* "never overwrite a hand-written one" (agent-catalog.js:197), "hand-written
\* entries are never touched" (:204): what a console is about to write holds
\* every hand-written entry of the whole file it has just read.
HandWrittenStays ==
    [][\A c \in Console : consoleAt[c] = "detected" /\ consoleAt'[c] = "registered" /\ ~Torn =>
           {e \in ToSet(entries) : e.by = "hand"} \subseteq ToSet(next'[c])]_registryVars

(* The registry of agents (agent-catalog.js:130, :230) keeps what it       *)
(* knows: at most one learned entry for a program, and none lost to a      *)
(* console that adds another, unless the file was spoiled or changed in    *)
(* between.                                                                *)
RegistryHolds == OneEntryEach /\ KeptUnlessSpoiled
=============================================================================
