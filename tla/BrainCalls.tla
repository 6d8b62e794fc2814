----------------------------- MODULE BrainCalls -----------------------------
(***************************************************************************)
(* One call of the brain (apps/desktop/src/agent.js #thinkWithRetry and    *)
(* #brainThink; cloud.js and transport/local.js): a request, an answer     *)
(* that streams in as lines cut anywhere by the chunks of the network,     *)
(* retries of what failed for a while, and the stop of the task.           *)
(*                                                                         *)
(* A line is "delta" (a piece of the answer), "usage" (the tokens it took),*)
(* "done" (the marker of the end) or "junk" (a keepalive).                 *)
(***************************************************************************)
EXTENDS Integers, Sequences, Filters

CONSTANTS
    Streams,   \* what a server may send: [lines, open], open if the last line lacks its end
    MaxRetries \* attempts of a call

ASSUME BrainAssumption ==
    /\ MaxRetries \in Nat \ {0}
    /\ \A s \in Streams :
        s.lines \in Seq({"delta", "usage", "done", "junk"}) /\ s.open \in BOOLEAN

VARIABLES
    brain,    \* "cloud", "anthropic", "openai" or "ollama", as configured
    phase,    \* idle, sending, reading, waiting; or ok, failed, stopped
    attempt,
    stream,   \* what the server sends for this attempt
    got,      \* the lines that have arrived whole
    half,     \* the beginning of the next one is in the buffer
    full,     \* the answer so far: which line of which attempt each piece came from
    usage,    \* the line its usage came from, 0 for none
    shown,    \* the pieces shown on the dashboard as they came
    stopped   \* the task was stopped

brainVars == <<brain, phase, attempt, stream, got, half, full, usage, shown, stopped>>
request == <<brain, attempt, stopped>>

NoStream == [lines |-> <<>>, open |-> FALSE]
Settled == phase \in {"ok", "failed", "stopped"}

BrainInit ==
    /\ brain \in {"cloud", "anthropic", "openai", "ollama"}
    /\ phase = "idle" /\ attempt = 0 /\ stream = NoStream
    /\ got = 0 /\ half = FALSE /\ full = <<>> /\ usage = 0 /\ shown = 0
    /\ stopped = FALSE

Ask ==
    /\ phase = "idle"
    /\ phase' = "sending" /\ attempt' = 1
    /\ UNCHANGED <<brain, stream, got, half, full, usage, shown, stopped>>

-----------------------------------------------------------------------------
(* The adapters: what a line does to the answer *)

\* A line of the stream, by its place in it; 0 is one that does not parse.
Kind(n) == IF n = 0 THEN "junk" ELSE stream.lines[n]
WithDelta(a, n) == IF Kind(n) = "delta" THEN [a EXCEPT !.full = Append(@, <<attempt, n>>)] ELSE a

\* cloud.js think returns at the marker: what comes after it is not read.
CloudLine(a, n) ==
    IF Kind(n) = "done" THEN [a EXCEPT !.over = TRUE]
    ELSE IF Kind(n) = "usage" THEN [a EXCEPT !.usage = n] ELSE WithDelta(a, n)

\* anthropicChat has no marker; a message_delta line carries the usage.
AnthropicLine(a, n) == IF Kind(n) = "usage" THEN [a EXCEPT !.usage = n] ELSE WithDelta(a, n)

\* openaiChat passes over the marker.
OpenaiLine(a, n) == IF Kind(n) = "usage" THEN [a EXCEPT !.usage = n] ELSE WithDelta(a, n)

\* ollamaChat: the marker carries the usage.
OllamaLine(a, n) == IF Kind(n) = "done" THEN [a EXCEPT !.usage = n] ELSE WithDelta(a, n)

\* localThink
LocalLine(a, n) ==
    CASE brain = "anthropic" -> AnthropicLine(a, n)
      [] brain = "openai" -> OpenaiLine(a, n)
      [] brain = "ollama" -> OllamaLine(a, n)

\* #brainThink: whichever brain answers, the answer has the same shape.
Line(a, n) ==
    IF a.over THEN a
    ELSE IF brain = "cloud" THEN CloudLine(a, n) ELSE LocalLine(a, n)

Answer == [full |-> full, usage |-> usage, over |-> FALSE]

\* The next k lines, one after the other; the buffer keeps the beginning of a
\* line until the rest of it comes.
WholeLines(k) ==
    LET after[i \in 0..k] == IF i = 0 THEN Answer ELSE Line(after[i - 1], got + i)
    IN after[k]

\* A chunk: the ends of k lines, and perhaps the beginning of the next.
Chunk(k, h) ==
    LET end == Len(stream.lines) - (IF stream.open THEN 1 ELSE 0) \* lines that end
        a == WholeLines(k)
    IN /\ phase = "reading" /\ got + k <= end
       /\ k > 0 \/ (h /\ ~half)
       /\ h => got + k < Len(stream.lines)
       /\ got' = got + k /\ half' = h
       /\ full' = a.full /\ usage' = a.usage
       /\ shown' = shown + Len(a.full) - Len(full)
       /\ phase' = IF a.over THEN "ok" ELSE phase
       /\ UNCHANGED <<request, stream>>

\* streamLines takes what is left in the buffer for a line; cloud.js does not.
LeftOver == IF brain # "cloud" /\ half /\ stream.open /\ got + 1 = Len(stream.lines) THEN 1 ELSE 0

\* The body ends, at the end of the stream or before: the answer is taken as it is.
EndOfBody ==
    LET a == WholeLines(LeftOver)
    IN /\ phase = "reading"
       /\ phase' = "ok" /\ full' = a.full /\ usage' = a.usage
       /\ shown' = shown + Len(a.full) - Len(full)
       /\ UNCHANGED <<request, stream, got, half>>

Opened(s) ==
    /\ stream' = s /\ got' = 0 /\ half' = FALSE
    /\ full' = <<>> /\ usage' = 0

\* All the pieces among the first n lines of s.
Pieces(s, n) ==
    LET deltas == {i \in 1..n : s.lines[i] = "delta"}
    IN [i \in 1..Cardinality(deltas) |-> <<attempt, NthOf(deltas, i)>>]

Respond(s) ==
    /\ phase = "sending"
    /\ phase' = "reading" /\ Opened(s)
    /\ UNCHANGED <<request, shown>>

\* A plain JSON answer is parsed once; nothing of it is shown as it comes.
RespondWhole(s) ==
    LET n == Len(s.lines)
    IN /\ phase = "sending"
       /\ phase' = "ok" /\ stream' = s /\ got' = n /\ half' = FALSE
       /\ full' = Pieces(s, n)
       /\ usage' = (IF \E i \in 1..n : s.lines[i] = "usage"
                    THEN CHOOSE i \in 1..n : s.lines[i] = "usage" ELSE 0)
       /\ UNCHANGED <<request, shown>>

-----------------------------------------------------------------------------
(* #thinkWithRetry *)

\* The request or the reading of its body fails. A stopped task is not tried again.
Fail(transient) ==
    /\ phase \in {"sending", "reading"}
    /\ phase' = IF stopped THEN "stopped"
                ELSE IF transient /\ attempt < MaxRetries THEN "waiting" ELSE "failed"
    /\ UNCHANGED <<request, stream, got, half, full, usage, shown>>

\* The pause between two attempts is over; whether the task was stopped meanwhile
\* is not looked at.
TryAgain ==
    /\ phase = "waiting"
    /\ phase' = "sending" /\ attempt' = attempt + 1
    /\ UNCHANGED <<brain, stream, got, half, full, usage, shown, stopped>>

StopTask ==
    /\ ~stopped /\ ~Settled /\ phase # "idle"
    /\ stopped' = TRUE
    /\ UNCHANGED <<brain, phase, attempt, stream, got, half, full, usage, shown>>

\* The signal of the task is given to the cloud's fetch, not to a local brain's.
Signalled == stopped /\ brain = "cloud"

Aborted == Signalled /\ Fail(FALSE)

Network ==
    /\ ~Signalled
    /\ \/ \E s \in Streams : Respond(s) \/ RespondWhole(s)
       \/ \E k \in 0..Len(stream.lines), h \in BOOLEAN : Chunk(k, h)
       \/ EndOfBody
       \/ \E transient \in BOOLEAN : Fail(transient)

BrainNext == Ask \/ Network \/ TryAgain \/ StopTask \/ Aborted

\* The timers of the process and its signals; the fetch of Node gives up on a
\* silent server by itself, but nothing is assumed of the network once a task
\* was stopped: the stop must not depend on it.
BrainFairness ==
    /\ WF_brainVars(Aborted) /\ WF_brainVars(TryAgain)
    /\ WF_brainVars(~stopped /\ Network)

BrainSpec == BrainInit /\ [][BrainNext]_brainVars /\ BrainFairness

-----------------------------------------------------------------------------
(* Properties *)

\* Safety. However the network cut the lines and however often it was tried, an
\* answer is the pieces of one attempt, all that arrived of it, each once and in
\* their order: no line is lost at the border of two chunks, none is left of an
\* attempt before.
AnswerIsOfOneAttempt ==
    phase = "ok" =>
        \/ full = Pieces(stream, got)
        \/ LeftOver # 0 /\ full = Append(Pieces(stream, got), <<attempt, got + 1>>)
        \/ /\ brain = "cloud"
           /\ \E n \in 1..got :
                /\ stream.lines[n] = "done" /\ \A i \in 1..n-1 : stream.lines[i] # "done"
                /\ full = Pieces(stream, n)

\* Liveness. A call that was made comes to an end: the attempts are counted, and
\* nothing but the network is waited for.
EveryCallEnds == (phase = "sending") ~> (Settled \/ stopped)

\* Liveness. The stop of a task reaches the call to the cloud it is in, whether it
\* is being sent, read or waits for its next attempt.
StopReachesTheCall == (stopped /\ brain = "cloud") ~> Settled
=============================================================================
