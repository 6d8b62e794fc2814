---------------------------- MODULE FleetConsole ----------------------------
(***************************************************************************)
(* The fleet console (apps/desktop/src/fleet-console.js): a loop that has  *)
(* the sessions of the other agent runtimes read by a child process        *)
(* (runtimes/index.js, agent-catalog.js), slower the busier the machine    *)
(* is, and the gate and the settings behind its buttons.                   *)
(***************************************************************************)
EXTENDS Naturals

CONSTANTS
    BaseDelay,     \* baseMs
    SwampedDelay,  \* the delay on a machine at four times its cores
    CacheFor,      \* CACHE_MS
    ChildTimeout,  \* TIMEOUT_MS
    PerMinute      \* rateLimits.fleet.perMinute of the standard preset

ASSUME ConsoleAssumption ==
    /\ {BaseDelay, SwampedDelay, ChildTimeout, PerMinute} \subseteq Nat \ {0}
    /\ CacheFor \in Nat /\ BaseDelay * 4 <= SwampedDelay

VARIABLES
    loopIn,    \* time until the loop runs again
    load,      \* "idle", "busy" (above its cores), "swamped" (above four times that)
    reading,   \* a child reads the stores (inflight)
    childAge,
    lastAge,   \* age of the last good answer, up to CacheFor; no more than that matters
    stores,    \* what the stores hold: one version or another
    last,      \* the version of the last good answer, or "none"
    cache,     \* runtimeCache: what the roster shows, and the error shown with it
    policyFile,\* policy.json: a preset, or "none"
    refresh,   \* fleet-settings.json: "default", or a value that was "set"
    granted    \* history: run, stop and setting requests let through this minute

collectorVars == <<loopIn, load, reading, childAge, lastAge, stores, last, cache>>
gateVars == <<policyFile, refresh, granted>>
consoleVars == <<loopIn, load, reading, childAge, lastAge, stores, last, cache,
                 policyFile, refresh, granted>>

Presets == {"strict", "standard", "permissive"}
Loads == {"idle", "busy", "swamped"}
Versions == {"a", "b"}
Least(a, b) == IF a < b THEN a ELSE b

\* "Slow down under load, but NEVER skip".
DelayAt(l) ==
    CASE l = "swamped" -> SwampedDelay [] l = "busy" -> BaseDelay * 4 [] OTHER -> BaseDelay

\* The loop comes round: it reads the load, and asks collect, which answers
\* from its cache or starts a child.
LoopFires(l) ==
    /\ loopIn = 0 /\ ~reading
    /\ load' = l
    /\ IF last = "none" \/ lastAge = CacheFor
       THEN reading' = TRUE /\ childAge' = 0 /\ UNCHANGED <<loopIn, cache>>
       ELSE /\ loopIn' = DelayAt(l)
            /\ cache' = [shown |-> last, error |-> FALSE]
            /\ UNCHANGED <<reading, childAge>>
    /\ UNCHANGED <<lastAge, stores, last, gateVars>>

\* The child is over, whatever it said: the loop sleeps, by the load it had read.
ChildEnds ==
    /\ reading' = FALSE /\ childAge' = 0
    /\ loopIn' = DelayAt(load)

ChildAnswers ==
    /\ reading /\ childAge < ChildTimeout
    /\ ChildEnds
    /\ last' = stores /\ lastAge' = 0
    /\ cache' = [shown |-> stores, error |-> FALSE]
    /\ UNCHANGED <<load, stores, gateVars>>

\* No output, not JSON, or killed after TIMEOUT_MS: the last good answer stays.
ChildFails ==
    /\ reading
    /\ ChildEnds
    /\ cache' = [shown |-> last, error |-> TRUE]
    /\ UNCHANGED <<load, lastAge, stores, last, gateVars>>

\* Time passes until the loop is due or the child is killed.
ClockTicks ==
    /\ IF reading THEN childAge < ChildTimeout ELSE loopIn > 0
    /\ loopIn' = IF reading THEN loopIn ELSE loopIn - 1
    /\ childAge' = IF reading THEN childAge + 1 ELSE childAge
    /\ lastAge' = Least(lastAge + 1, CacheFor)
    /\ UNCHANGED <<load, reading, stores, last, cache, gateVars>>

\* external: a runtime writes to its store.
StoresChange ==
    /\ stores' \in Versions \ {stores}
    /\ UNCHANGED <<loopIn, load, reading, childAge, lastAge, last, cache, gateVars>>

FleetDenied == policyFile = "strict"

\* RateLimiter.allow after `hits` requests within a minute; a limit only in "standard".
RateAllows(hits) == policyFile = "standard" => hits < PerMinute

(* mutant: the gate counts a request and refuses none *)
MutPolicyGate == granted' = Least(granted + 1, PerMinute + 1)

\* policyGate: the policy is loaded anew each time, and with it a rate limiter
\* that has not counted anything yet.  (A policy without a file allows.)
PolicyGate ==
    /\ ~FleetDenied /\ RateAllows(0)
    /\ granted' = Least(granted + 1, PerMinute + 1)

\* startAgent, stopAgent, deviceAction, securityAction: what they do is not modelled here.
FleetAction == PolicyGate /\ UNCHANGED <<policyFile, refresh, collectorVars>>

\* applySettings: a preference is clamped and saved, a tier replaces the policy.
ApplyRefresh ==
    /\ PolicyGate
    /\ refresh' = "set"
    /\ UNCHANGED <<policyFile, collectorVars>>

SetPolicyTier(t) ==
    /\ PolicyGate
    /\ policyFile' = t
    /\ UNCHANGED <<refresh, collectorVars>>

\* external: the user edits or removes the policy and the preferences.
UserEdits(t) ==
    /\ policyFile' = t
    /\ refresh' = "default"
    /\ UNCHANGED <<granted, collectorVars>>

MinutePasses == granted' = 0 /\ UNCHANGED <<policyFile, refresh, collectorVars>>

ConsoleInit ==
    /\ loopIn = 0 /\ load = "idle" /\ reading = FALSE /\ childAge = 0
    /\ lastAge = CacheFor /\ stores = "a" /\ last = "none"
    /\ cache = [shown |-> "none", error |-> FALSE]
    /\ policyFile \in Presets \cup {"none"}
    /\ refresh = "default" /\ granted = 0

ConsoleNext ==
    \/ \E l \in Loads : LoopFires(l)
    \/ ChildAnswers \/ ChildFails \/ ClockTicks \/ StoresChange
    \/ FleetAction \/ ApplyRefresh \/ MinutePasses
    \/ \E t \in Presets : SetPolicyTier(t)
    \/ \E t \in Presets \cup {"none"} : UserEdits(t)

\* The loop's timer fires, time passes, and the child ends: execFile kills it.
ConsoleFairness ==
    /\ WF_consoleVars(\E l \in Loads : LoopFires(l))
    /\ WF_consoleVars(ClockTicks)
    /\ WF_consoleVars(ChildFails)

ConsoleSpec == ConsoleInit /\ [][ConsoleNext]_consoleVars /\ ConsoleFairness
-----------------------------------------------------------------------------
\* "A failure keeps the last good" (runtimes/index.js:52): once the stores have
\* been read the roster shows what was read last, with or without an error.
LastGoodStays == cache.shown = last

\* The roster is read again and again, whatever the load: a child is started
\* infinitely often (fleet-console.js:369-372, "NEVER skip").
RosterIsRead == []<>reading

\* The console does not loosen a policy that denies it: out of "strict" there
\* is no way but the user's own edit of the file (fleet-console.js:171, 196).
StrictStays ==
    [][policyFile = "strict" /\ policyFile' # "strict" =>
           \E t \in Presets \cup {"none"} : UserEdits(t)]_consoleVars

\* "starting/stopping agents is allowed, but rate-limited and audited"
\* (policy.js:374): under the standard preset no more requests are let through
\* within a minute than the preset names.
FleetIsRateLimited ==
    [][policyFile = "standard" /\ granted' > granted => granted < PerMinute]_consoleVars

(* The console (fleet-console.js) shows the last good roster after a       *)
(* failure, and does not loosen a strict policy.                           *)
ConsoleHolds == []LastGoodStays /\ StrictStays
=============================================================================
