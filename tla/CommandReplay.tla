---------------------------- MODULE CommandReplay ---------------------------
(***************************************************************************)
(* The replay cache of the control channel: validateCommandFrame of        *)
(* packages/protocol/src/index.mjs with the Map "seen" that control.js     *)
(* keeps across reconnects.                                                *)
(*                                                                         *)
(* A frame bears a key (command id and request id) and the sender's time   *)
(* stamp.  The network may repeat and delay frames and the sender's clock  *)
(* may be off, so any stamp may arrive at any time.                        *)
(***************************************************************************)
EXTENDS Integers, FiniteSets

CONSTANTS
  Keys,        \* `${data.id}:${data.requestId}`
  MaxAge,      \* COMMAND_MAX_AGE_MS
  MaxFuture,   \* COMMAND_MAX_FUTURE_MS
  MaxEntries,  \* COMMAND_MAX_ENTRIES
  MaxNow       \* bound: instants

ASSUME ReplayAssumption ==
  /\ IsFiniteSet(Keys)
  /\ {MaxAge, MaxFuture, MaxEntries, MaxNow} \subseteq Nat \ {0}

VARIABLES
  now,        \* Date.now()
  seen,       \* the Map: when a key was accepted, Never when it has no entry
  before,     \* <<k, l>>: k comes before l in the Map
  last,       \* history: when a key was last accepted
  forgotten,  \* history: keys that lost their entry to the bound or to a restart since then
  replayed    \* history: keys accepted by a frame stamped before the last acceptance

replayVars == <<now, seen, before, last, forgotten, replayed>>

Never == 0
-----------------------------------------------------------------------------
(* mutant: frames stay valid an instant longer than the cache remembers    *)
MutFresh(ts) == now - MaxAge - 1 <= ts /\ ts <= now + MaxFuture
Fresh(ts) == now - MaxAge <= ts /\ ts <= now + MaxFuture

Remembered(k) == seen[k] # Never /\ seen[k] > now - MaxAge

(* The Map after set and the sweep of what expired; a key that has an      *)
(* entry keeps its place.                                                  *)
Swept(k) == [l \in Keys |-> IF l = k THEN now ELSE IF Remembered(l) THEN seen[l] ELSE Never]
Entries(map) == {k \in Keys : map[k] # Never}
OrderWith(k) == before \cup (IF seen[k] = Never THEN (Entries(seen) \X {k}) ELSE {})

(* What the bound evicts: the first entry, when there is one too many.     *)
Surplus(k) ==
  LET kept == Entries(Swept(k)) IN
  {l \in kept : Cardinality(kept) > MaxEntries /\ \A m \in kept \ {l} : <<l, m>> \in OrderWith(k)}

ReplayInit ==
  /\ now = 1
  /\ seen = [k \in Keys |-> Never]
  /\ before = {}
  /\ last = [k \in Keys |-> Never]
  /\ forgotten = {}
  /\ replayed = {}

(* A frame that is accepted; one that is refused changes nothing.          *)
Accept(k, ts) ==
  /\ Fresh(ts)
  /\ ~Remembered(k)
  /\ seen' = [l \in Keys |-> IF l \in Surplus(k) THEN Never ELSE Swept(k)[l]]
  /\ before' = OrderWith(k) \cap (Entries(seen') \X Entries(seen'))
  /\ last' = [last EXCEPT ![k] = now]
  /\ forgotten' = (forgotten \ {k}) \cup Surplus(k)
  /\ replayed' = IF last[k] # Never /\ k \notin forgotten /\ ts < last[k]
                THEN replayed \cup {k} ELSE replayed
  /\ now' = now

Restart ==
  /\ seen' = [k \in Keys |-> Never]
  /\ before' = {}
  /\ forgotten' = forgotten \cup Entries(seen)
  /\ UNCHANGED <<now, last, replayed>>

Tick ==
  /\ now < MaxNow
  /\ now' = now + 1
  /\ UNCHANGED <<seen, before, last, forgotten, replayed>>

ReplayNext ==
  \/ \E k \in Keys, ts \in (now - MaxAge - 1)..(now + MaxFuture + 1) : Accept(k, ts)
  \/ Restart
  \/ Tick

ReplaySpec == ReplayInit /\ [][ReplayNext]_replayVars
-----------------------------------------------------------------------------
(* The Map is bounded, and its order is the order of its entries.          *)
ReplayTypeOK ==
  /\ now \in 1..MaxNow
  /\ seen \in [Keys -> 0..now]
  /\ Cardinality(Entries(seen)) <= MaxEntries
  /\ before \subseteq Entries(seen) \X Entries(seen)
  /\ \A k, l \in Entries(seen) : k # l => (<<k, l>> \in before) # (<<l, k>> \in before)
  /\ last \in [Keys -> 0..now]
  /\ forgotten \subseteq Keys
  /\ replayed \subseteq Keys

(* README.md:554, "bounded replay protection for commands": a frame that   *)
(* was stamped before its command was last accepted is not accepted again, *)
(* however late and often it arrives, unless the bound or a restart made   *)
(* the cache forget the command since.                                     *)
NoReplay == replayed = {}
=============================================================================
