--------------------------- MODULE ControlChannel ---------------------------
(***************************************************************************)
(* The WebSocket link of apps/desktop/src/control.js: dialling, backoff,   *)
(* terminal close codes, frames queued while the link is down, and the     *)
(* model calls the docker platform proxies over it.                        *)
(*                                                                         *)
(* The ws library and the gateway are external: a dial ends open or in an  *)
(* error followed by a close, an open link may drop at any time and takes  *)
(* with it what the gateway has not received yet.  Frames are numbered in  *)
(* the order the daemon sends them.                                        *)
(***************************************************************************)
EXTENDS Integers, Sequences, FiniteSets

CONSTANTS
  Platforms,   \* CLOUD.platform may be one of these
  MinBackoff,  \* DEFAULTS.reconnectMinMs
  MaxBackoff,  \* DEFAULTS.reconnectMaxMs
  MaxFrames,   \* bound: frames that are sent
  MaxFaults    \* bound: dials that fail, links that drop

ASSUME ChannelAssumption ==
  /\ Platforms \subseteq {"sngine", "docker"}
  /\ {MinBackoff, MaxBackoff, MaxFrames, MaxFaults} \subseteq Nat
  /\ 1 <= MinBackoff /\ MinBackoff <= MaxBackoff

VARIABLES
  platform,  \* CLOUD.platform
  socket,    \* readyState of #ws, "none" before the first dial
  closing,   \* #closing
  stopped,   \* #stopped
  skipped,   \* #wsSkipped
  timer,     \* #reconnectTimer is armed
  backoff,   \* #backoff
  queue,     \* #queue
  pending,   \* #llmPending: the frames of the requests that wait
  wire,      \* what is under way to the gateway
  arrived,   \* history: the frames the gateway received
  sent,      \* history: frames sent so far
  asked,     \* history: the frames of all requests
  settled,   \* history: the requests whose promise is settled
  refused,   \* history: the gateway rejected the credential
  faults     \* dials and links that failed

link == <<socket, closing, stopped, skipped, timer, backoff>>
llm == <<asked, pending, settled>>
vars == <<platform, link, queue, wire, arrived, sent, llm, refused, faults>>

Hello == 0
-----------------------------------------------------------------------------
(* #send and #sendFlat: on the link when it is open, else in the queue     *)
Send ==
  /\ sent < MaxFrames
  /\ sent' = sent + 1
  /\ IF socket = "open"
     THEN wire' = Append(wire, sent') /\ UNCHANGED queue
     ELSE queue' = Append(queue, sent') /\ UNCHANGED wire

(* step, token, result, log and PONG; chatResponse and the metrics; they   *)
(* go on being sent after the link was closed for good.                    *)
SendFrame ==
  /\ Send
  /\ UNCHANGED <<platform, link, arrived, llm, refused, faults>>

LlmRequest ==
  /\ platform = "docker"
  /\ Send
  /\ asked' = asked \cup {sent'}
  /\ pending' = pending \cup {sent'}
  /\ UNCHANGED <<platform, link, arrived, settled, refused, faults>>

Settled(ns) == settled' = settled \cup ns /\ pending' = pending \ ns

(* #resolveLlm, of an answer or of an error; the answer to a request that  *)
(* is not pending any more is dropped.                                     *)
Answer(n) ==
  /\ socket \in {"open", "closing"}
  /\ n \in asked \cap arrived
  /\ Settled({n} \cap pending)
  /\ UNCHANGED <<platform, link, queue, wire, arrived, sent, asked, refused, faults>>

(* 120 s without an answer *)
LlmTimeout(n) ==
  /\ n \in pending
  /\ Settled({n})
  /\ UNCHANGED <<platform, link, queue, wire, arrived, sent, asked, refused, faults>>

Arrive ==
  /\ socket \in {"open", "closing"}
  /\ wire # <<>>
  /\ arrived' = arrived \cup ({Head(wire)} \ {Hello})
  /\ wire' = Tail(wire)
  /\ UNCHANGED <<platform, link, queue, sent, llm, refused, faults>>
-----------------------------------------------------------------------------
(* connect(): called once by the daemon and then by the timer *)
Connect ==
  /\ socket = "none" \/ timer
  /\ timer' = FALSE
  /\ socket' = IF closing \/ stopped THEN socket ELSE "connecting"
  /\ UNCHANGED <<platform, closing, stopped, skipped, backoff, queue, wire, arrived, sent, llm,
                refused, faults>>

(* mutant: #flush is left to the next send *)
MutOpened ==
  /\ socket = "connecting"
  /\ socket' = "open"
  /\ backoff' = MinBackoff
  /\ wire' = <<Hello>>
  /\ UNCHANGED <<platform, closing, stopped, skipped, timer, queue, arrived, sent, llm, refused, faults>>
(* 'open': the handshake frame, then #flush *)
Opened ==
  /\ socket = "connecting"
  /\ socket' = "open"
  /\ backoff' = MinBackoff
  /\ wire' = <<Hello>> \o queue
  /\ queue' = <<>>
  /\ UNCHANGED <<platform, closing, stopped, skipped, timer, arrived, sent, llm, refused, faults>>

Doubled == IF backoff * 2 > MaxBackoff THEN MaxBackoff ELSE backoff * 2

(* The end of the 'close' handler; the jitter of the wait is left out.     *)
Retry ==
  /\ timer' = TRUE
  /\ backoff' = Doubled

(* 'error', then 'close'.  On the sngine platform an HTTP answer to the    *)
(* upgrade, whatever its status, means that there is no relay: the link is *)
(* given up for good.                                                      *)
DialFails ==
  /\ socket = "connecting"
  /\ faults < MaxFaults
  /\ faults' = faults + 1
  /\ socket' = "closed"
  /\ \/ Retry /\ UNCHANGED skipped
     \/ platform = "sngine" /\ skipped' = TRUE /\ UNCHANGED <<timer, backoff>>
  /\ UNCHANGED <<platform, closing, stopped, queue, wire, arrived, sent, llm, refused>>

(* A frame of an unknown protocol version makes the daemon close the link. *)
BadVersion ==
  /\ socket = "open"
  /\ faults < MaxFaults
  /\ socket' = "closing"
  /\ UNCHANGED <<platform, closing, stopped, skipped, timer, backoff, queue, wire, arrived, sent, llm,
                refused, faults>>

(* The close codes of isTerminalClose *)
Reject ==
  /\ refused' = TRUE
  /\ stopped' = TRUE
  /\ timer' = FALSE
  /\ UNCHANGED backoff

(* The link ends, by the gateway, by the network or by the answer to our   *)
(* close; after close() nobody listens any more.                           *)
LinkEnds ==
  /\ socket \in {"open", "closing"}
  /\ faults < MaxFaults \/ socket = "closing"
  /\ faults' = IF faults < MaxFaults THEN faults + 1 ELSE faults
  /\ socket' = "closed"
  /\ wire' = <<>>
  /\ IF closing
     THEN UNCHANGED <<stopped, timer, backoff, refused>>
     ELSE \/ Reject
          \/ Retry /\ UNCHANGED <<stopped, refused>>
  /\ UNCHANGED <<platform, closing, skipped, queue, arrived, sent, llm>>

(* mutant: the promises of the pending requests are dropped unsettled *)
MutClose ==
  /\ ~closing
  /\ closing' = TRUE
  /\ timer' = FALSE
  /\ pending' = {}
  /\ socket' = IF socket = "open" THEN "closing" ELSE IF socket = "connecting" THEN "closed" ELSE socket
  /\ UNCHANGED <<platform, stopped, skipped, backoff, queue, wire, arrived, sent, asked, settled,
                refused, faults>>
(* close(): a dial is given up, an open link is closed in an orderly way   *)
Close ==
  /\ ~closing
  /\ closing' = TRUE
  /\ timer' = FALSE
  /\ Settled(pending)
  /\ socket' = IF socket = "open" THEN "closing" ELSE IF socket = "connecting" THEN "closed" ELSE socket
  /\ UNCHANGED <<platform, stopped, skipped, backoff, queue, wire, arrived, sent, asked, refused, faults>>

Init ==
  /\ platform \in Platforms
  /\ socket = "none"
  /\ closing = FALSE /\ stopped = FALSE /\ skipped = FALSE /\ timer = FALSE
  /\ backoff = MinBackoff
  /\ queue = <<>> /\ wire = <<>>
  /\ arrived = {} /\ sent = 0
  /\ asked = {} /\ pending = {} /\ settled = {}
  /\ refused = FALSE
  /\ faults = 0

Dial == Connect \/ Opened \/ DialFails
Next ==
  \/ SendFrame \/ LlmRequest
  \/ \E n \in 1..MaxFrames : Answer(n) \/ LlmTimeout(n)
  \/ Arrive
  \/ Dial
  \/ BadVersion \/ LinkEnds
  \/ Close

(* The reconnect timer fires and a dial ends, open or in an error; a link  *)
(* that is being closed ends; the timer of a request fires.                *)
Spec ==
  /\ Init /\ [][Next]_vars
  /\ WF_vars(Dial)
  /\ WF_vars(socket = "closing" /\ LinkEnds)
  /\ \A n \in 1..MaxFrames : WF_vars(LlmTimeout(n))
-----------------------------------------------------------------------------
ChannelTypeOK ==
  /\ platform \in Platforms
  /\ socket \in {"none", "connecting", "open", "closing", "closed"}
  /\ {closing, stopped, skipped, timer, refused} \subseteq BOOLEAN
  /\ backoff \in MinBackoff..MaxBackoff
  /\ queue \in Seq(1..MaxFrames)
  /\ wire \in Seq(0..MaxFrames)
  /\ sent \in 0..MaxFrames
  /\ arrived \subseteq 1..sent
  /\ pending \subseteq asked /\ settled \subseteq asked /\ asked \subseteq 1..sent
  /\ faults \in 0..MaxFaults

(* control.test.mjs:88 "reconnects with backoff", :62 "No reconnect loop": *)
(* while the link is wanted and down exactly one redial is due, and there  *)
(* is none while a dial or a link is alive, so there are never two links.  *)
Down == socket = "closed"
Wanted == ~closing /\ ~stopped /\ ~skipped
OneRedial == timer <=> (Down /\ Wanted)

(* What the gateway receives is in the order it was sent, whatever the     *)
(* drops and the reconnects in between, and nothing comes before the        *)
(* handshake frame of its link: neither queue nor link is overtaken.       *)
Frames == wire \o queue
FramesInOrder ==
  /\ \A i, j \in 1..Len(Frames) : i < j => Frames[i] < Frames[j]
  /\ \A n \in arrived, i \in 1..Len(Frames) : Frames[i] # Hello => n < Frames[i]

(* A rejected credential is never used again (control.js:168, "the         *)
(* credential itself was rejected - do not loop").                         *)
RejectedIsFinal == [][refused => socket' = socket /\ ~timer']_vars

(* A frame that was queued while the link was down is sent at last, unless *)
(* the daemon gave the link up; the link fails finitely often.             *)
QueuedIsSent ==
  \A n \in 1..MaxFrames :
    (\E i \in 1..Len(queue) : queue[i] = n) ~> ~Wanted \/ ~(\E i \in 1..Len(queue) : queue[i] = n)

(* A model call returns or throws: it is answered, or it times out, or the *)
(* channel is closed, whatever becomes of the frame that asked.            *)
EveryRequestSettles == \A n \in 1..MaxFrames : n \in asked ~> n \in settled

(* The link of control.js is one and in order: a redial is due exactly     *)
(* while the link is wanted and down, frames arrive in the order they were *)
(* sent, after the handshake, and a rejected credential is not used again  *)
(* - in whatever order errors, closes, timers and shutdown meet.           *)
ChannelIsSound == [](OneRedial /\ FramesInOrder) /\ RejectedIsFinal
=============================================================================
