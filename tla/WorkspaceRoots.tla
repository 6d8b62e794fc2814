--------------------------- MODULE WorkspaceRoots ---------------------------
(***************************************************************************)
(* Where a workspace lives on this device (apps/desktop/src/               *)
(* workspace-registry.js, workspace-links.js, `remote-agent workspace      *)
(* init | link | unlink`, #syncLocalWorkspaces of agent.js): in a managed  *)
(* folder named after its id, or in a directory the owner linked.          *)
(*                                                                         *)
(* A path is the sequence of its names, symbolic links resolved.           *)
(***************************************************************************)
EXTENDS Naturals, Sequences, SequencesExt

CONSTANTS
    Ws,          \* workspace ids
    NamedWs,       \* those whose name holds "current" or "default"
    Home,        \* the home directory
    StateDir,    \* ~/.remote-agent: credentials, the audit log
    ManagedBase, \* the managed workspaces: BASE
    Places       \* directories somebody may try to link

ASSUME RootsAssumption == NamedWs \subseteq Ws /\ Ws \subseteq STRING /\ ManagedBase \in Seq(STRING)

VARIABLES
    dirs,   \* the directories that exist
    links,  \* workspace-links.json: the path of each linked id, <<>> for none
    sound,  \* the file can be read
    sent    \* the root label the cloud has of each workspace: "" for none

rootVars == <<dirs, links, sound, sent>>

None0 == <<>>
ReadLinks == IF sound THEN links ELSE [w \in Ws |-> None0]
ManagedRoot(w) == ManagedBase \o <<".workspaces", w>>
IsInside(child, parent) == IsPrefix(parent, child)

(* mutant: what lies inside the state directory is not looked at *)
MutMayBeLinked(dir) ==
    /\ dir \in dirs /\ dir # Home
    /\ IsInside(StateDir, dir) => IsInside(dir, ManagedBase)

\* validateLinkTarget: the file system root is not among the Places.
MayBeLinked(dir) ==
    /\ dir \in dirs /\ dir # Home
    /\ IsInside(StateDir, dir) \/ IsInside(dir, StateDir) => IsInside(dir, ManagedBase)

WriteLinks(new) == links' = new /\ sound' = TRUE

\* linkWorkspace on the command line, which announces the label
Link(w, dir) ==
    /\ MayBeLinked(dir)
    /\ WriteLinks([ReadLinks EXCEPT ![w] = dir])
    /\ sent' \in {sent, [sent EXCEPT ![w] = IF w \in NamedWs THEN "current" ELSE w]}
    /\ UNCHANGED dirs

\* unlinkWorkspace: the mapping only.
Unlink(w) ==
    /\ ReadLinks[w] # None0
    /\ WriteLinks([ReadLinks EXCEPT ![w] = None0])
    /\ UNCHANGED <<dirs, sent>>

\* workspaceInit: the managed folder is made, and the name announced.
InitWorkspace(w) ==
    /\ dirs' = dirs \cup {ManagedRoot(w)}
    /\ sent' \in {sent, [sent EXCEPT ![w] = IF w \in NamedWs THEN "current" ELSE w]}
    /\ UNCHANGED <<links, sound>>

\* A disk is mounted or not; the file is cut short by hand.
Mount(dir) ==
    /\ dir \notin {Home, StateDir}
    /\ dirs' = IF dir \in dirs THEN dirs \ {dir} ELSE dirs \cup {dir}
    /\ UNCHANGED <<links, sound, sent>>
Damage == sound /\ sound' = FALSE /\ UNCHANGED <<dirs, links, sent>>

\* resolveLinkedRoot: a link whose target is gone resolves to nothing.
Linked(w) == IF ReadLinks[w] \in dirs THEN ReadLinks[w] ELSE None0

\* resolveWorkspaceRoot, for a task without and for an operation with a label
Root(w, label) == IF Linked(w) # None0 THEN Linked(w)
                  ELSE IF label = "current" THEN ManagedBase ELSE ManagedRoot(w)

\* discoverLocalWorkspaces: links whose target is there, then managed folders
Discovered ==
    LET found == {w \in Ws : ReadLinks[w] # None0 /\ ReadLinks[w] \in dirs}
    IN {[id |-> w, root |-> ReadLinks[w]] : w \in found}
       \cup {[id |-> w, root |-> ManagedRoot(w)] : w \in {v \in Ws \ found : ManagedRoot(v) \in dirs}}

\* #syncLocalWorkspaces: the label of a managed folder is its id.
Sync ==
    /\ Discovered # {}
    /\ sent' = [w \in Ws |-> IF ~\E e \in Discovered : e.id = w THEN sent[w]
                             ELSE IF ReadLinks[w] \in dirs /\ w \in NamedWs THEN "current" ELSE w]
    /\ UNCHANGED <<dirs, links, sound>>

RootsInit ==
    /\ dirs = Places /\ links = [w \in Ws |-> None0] /\ sound = TRUE /\ sent = [w \in Ws |-> ""]

RootsNext ==
    \/ Damage \/ Sync
    \/ \E w \in Ws : Unlink(w) \/ InitWorkspace(w)
    \/ \E w \in Ws, dir \in Places : Link(w, dir)
    \/ \E dir \in Places : Mount(dir)

RootsSpec == RootsInit /\ [][RootsNext]_rootVars
-----------------------------------------------------------------------------
(* What the device reports of a workspace is the folder the tasks of that  *)
(* workspace work in, and it reports one folder for each: the two find it  *)
(* on their own (discoverLocalWorkspaces, resolveWorkspaceRoot;            *)
(* workspace-registry.js:2-5).                                             *)
ReportedIsUsed ==
    /\ \A e \in Discovered : e.root = Root(e.id, "")
    /\ \A e, f \in Discovered : e.id = f.id => e = f

(* Whatever is linked, mounted and unlinked, no task and no operation gets *)
(* a root from which the state directory can be reached, the managed       *)
(* folders apart (workspace-links.js:80-90).                               *)
StateStaysOut ==
    \A w \in Ws : LET root == Root(w, "") IN
        IsInside(StateDir, root) \/ IsInside(root, StateDir) => IsInside(root, ManagedBase)
=============================================================================
