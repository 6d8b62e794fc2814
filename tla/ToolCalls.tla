------------------------------ MODULE ToolCalls ------------------------------
(***************************************************************************)
(* Calling tools by name.  Two registries exist: the daemon's              *)
(* (apps/desktop/src/tools/index.js), whose plugins come and go while it   *)
(* runs, and the one of the SDK and the command line (tools/registry.js),  *)
(* which records what a call with a run id alters.  Both ask the policy    *)
(* first and give a handler a signal that a timer aborts.                  *)
(***************************************************************************)
EXTENDS Naturals, FiniteSets

CONSTANTS
    Builtin,      \* names of the tools that are shipped
    Shipped,      \* names of the tools plugin packages define
    OwnRules,     \* names the owner's policy file allows
    Altering,     \* names of tools that alter the device's state
    Listening,    \* names of tools whose handler heeds its signal
    Call          \* calls, each with a run id and a key of its own

ToolName == Builtin \cup Shipped
ASSUME ToolsAssumption == OwnRules \cup Altering \cup Listening \subseteq ToolName

VARIABLES
    kind,         \* "daemon" or "durable": which registry it is
    registry,     \* the descriptor of each name, or Absent
    calls,        \* [tool, used, stage, aborted] of each call
    attempts,     \* the attempt the run ledger has of each call
    takenAway     \* history: builtins that were unregistered

toolVars == <<kind, registry, calls, attempts, takenAway>>

Absent == [source |-> "none", effects |-> "none", heeds |-> FALSE]
NoCall == [tool |-> "none", used |-> Absent, stage |-> "none", aborted |-> FALSE]

\* defineTool: what a descriptor says of its effects, "none" when it says nothing.
DefineTool(effects) == IF effects = "unsaid" THEN "none" ELSE effects

\* A plugin declares what it alters; a legacy builtin says nothing, and the
\* durable registry lifts it with defineTool and hands it no signal.
Plugin(n) == [source |-> "plugin", effects |-> DefineTool(IF n \in Altering THEN "local" ELSE "unsaid"),
              heeds |-> n \in Listening]
Lifted(n) == [source |-> "builtin", effects |-> DefineTool("unsaid"), heeds |-> kind = "daemon" /\ n \in Listening]

\* sideEffecting: the legacy names count unless the descriptor says "none".
SideEffecting(n, tool) ==
    \/ tool.effects \in {"local", "external", "destructive", "write"}
    \/ tool.effects # "none" /\ n \in Builtin \cap Altering

\* POLICY.check, loaded once: the builtins by default, a plugin by a rule.
Allowed(n) == n \in Builtin \cup OwnRules

(* mutant: a name that is taken is taken over *)
MutRegister(n) == registry' = [registry EXCEPT ![n] = Plugin(n)]

\* register: a name that is taken is refused.
Register(n) == registry' = [registry EXCEPT ![n] = IF @ = Absent THEN Plugin(n) ELSE @]

\* loadExternalTools: discovery at a path, a name at a time
LoadPlugin(n) ==
    /\ n \in Shipped
    /\ Register(n)
    /\ UNCHANGED <<kind, calls, attempts, takenAway>>

\* unregister: any name, whatever its source
RemoveTool(n) ==
    /\ registry[n] # Absent
    /\ registry' = [registry EXCEPT ![n] = Absent]
    /\ takenAway' = takenAway \cup ({n} \cap Builtin)
    /\ UNCHANGED <<kind, calls, attempts>>

Over(c) == calls' = [calls EXCEPT ![c].stage = "over"]

\* run up to the handler: unknown, disabled for the agent or denied by the
\* policy is answered at once; an effect is recorded before, or refused.
StartCall(c, n) ==
    /\ calls[c] = NoCall
    /\ LET tool == registry[n]
           begun == [tool |-> n, used |-> tool, stage |-> "running", aborted |-> FALSE]
       IN \/ /\ calls' = [calls EXCEPT ![c] = [NoCall EXCEPT !.stage = "over"]]
             /\ UNCHANGED attempts
          \/ /\ tool # Absent /\ Allowed(n)
             /\ calls' = [calls EXCEPT ![c] = begun]
             /\ attempts' = IF kind = "durable" /\ SideEffecting(n, tool)
                            THEN [attempts EXCEPT ![c] = "started"] ELSE attempts
    /\ UNCHANGED <<kind, registry, takenAway>>

TimerFires(c) ==
    /\ calls[c].stage = "running" /\ ~calls[c].aborted
    /\ calls' = [calls EXCEPT ![c].aborted = TRUE]
    /\ UNCHANGED <<kind, registry, attempts, takenAway>>

Finish(c, status) ==
    attempts' = [attempts EXCEPT ![c] = IF @ = "started" THEN status ELSE @]

\* The handler returns a result or an error, or throws.
HandlerSettles(c, status) ==
    /\ calls[c].stage = "running"
    /\ Over(c) /\ Finish(c, status)
    /\ UNCHANGED <<kind, registry, takenAway>>

\* A handler that heeds its signal gives up: "timed out".
HandlerAborts(c) ==
    /\ calls[c].stage = "running" /\ calls[c].aborted /\ calls[c].used.heeds
    /\ Over(c) /\ Finish(c, "failed")
    /\ UNCHANGED <<kind, registry, takenAway>>

ToolsInit ==
    /\ kind \in {"daemon", "durable"}
    /\ registry = [n \in ToolName |-> IF n \in Builtin THEN Lifted(n) ELSE Absent]
    /\ calls = [c \in Call |-> NoCall] /\ attempts = [c \in Call |-> "none"]
    /\ takenAway = {}

ToolsNext ==
    \/ \E n \in ToolName : LoadPlugin(n) \/ RemoveTool(n)
    \/ \E c \in Call :
         \/ \E n \in ToolName : StartCall(c, n)
         \/ \E status \in {"succeeded", "failed"} : HandlerSettles(c, status)
         \/ TimerFires(c) \/ HandlerAborts(c)

ToolsSpec ==
    /\ ToolsInit /\ [][ToolsNext]_toolVars
    /\ \A c \in Call : WF_toolVars(TimerFires(c)) /\ WF_toolVars(HandlerAborts(c))
-----------------------------------------------------------------------------
(* Only what the owner allowed runs as a plugin, whatever is loaded,       *)
(* removed and loaded again: a plugin never takes the place of a builtin   *)
(* that is registered (tools/plugin.js:16, index.js:104).                  *)
PluginsNeedTheOwner ==
    \A c \in Call : calls[c].used.source = "plugin" => calls[c].tool \in OwnRules \cup takenAway

(* When a call is over its attempt is closed, and while it runs it is not: *)
(* the ledger never keeps the attempt of a handler that returned or threw  *)
(* as if it might still be at work (registry.js:163 and 169).              *)
AttemptEndsWithItsCall ==
    \A c \in Call : attempts[c] # "none" => (attempts[c] = "started") = (calls[c].stage = "running")

(* A plugin that declares what it alters is never run without an attempt   *)
(* in the ledger (registry.js:125).                                        *)
PluginEffectsAreRecorded ==
    \A c \in Call : kind = "durable" /\ calls[c].used.source = "plugin" /\ calls[c].tool \in Altering
                    => attempts[c] # "none"

(* "timeout enforcement" (index.js:182) reaches a handler that heeds it.   *)
HeededCallsEnd == \A c \in Call : calls[c].stage = "running" /\ calls[c].used.heeds ~> calls[c].stage # "running"

(* A tool call (registry.js, index.js) runs what the owner allowed, with   *)
(* an attempt in the ledger that is open exactly while it runs - while     *)
(* plugins are loaded and removed beside it.                               *)
ToolCallsHold == PluginsNeedTheOwner /\ AttemptEndsWithItsCall /\ PluginEffectsAreRecorded
=============================================================================
