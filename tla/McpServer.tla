----------------------------- MODULE McpServer ------------------------------
(***************************************************************************)
(* The tool registry as an MCP server on stdio                             *)
(* (apps/desktop/src/transport/mcp.js): one JSON-RPC message per line, one *)
(* answer per request.  The stream brings the client's lines in chunks     *)
(* that end anywhere; a line counts once its newline has arrived, and the  *)
(* next one is looked at when the call of the last has ended.  The HTTP    *)
(* transport, one request per connection, is not modelled.                 *)
(***************************************************************************)
EXTENDS Sequences, Naturals, Filters

CONSTANT Transcripts  \* what clients may write: sequences of Kinds; a line's number is its id

Kinds == {"blank", "garbage", "scalar", "nomethod", "notify", "ready", "goodbye",
          "initialize", "ping", "list", "call", "noname", "oldversion", "unknown", "shutdown"}
ASSUME McpAssumption == \A s \in Transcripts : s \in Seq(Kinds)

VARIABLES
  transcript,       \* the client's lines
  arrived,      \* how many half lines of it have arrived: the second half ends in the newline
  taken,        \* how many lines were looked at
  calling,      \* the line whose tool call is awaited, 0 for none
  out,          \* the answers written: [id, answer], id 0 for null
  initialized,
  input         \* the stream: "open" | "closed"; "left" once the loop returned

mcpVars == <<transcript, arrived, taken, calling, out, initialized, input>>

McpInit ==
  /\ transcript \in Transcripts
  /\ arrived = 0 /\ taken = 0 /\ calling = 0 /\ out = <<>>
  /\ initialized = FALSE /\ input = "open"
-----------------------------------------------------------------------------
(* What handle() answers at once; "none" for a notification. *)
Immediate(kind) ==
  CASE kind \in {"garbage", "scalar"} -> "parse error"
    [] kind \in {"nomethod", "oldversion"} -> "invalid request"
    [] kind = "noname" -> "invalid params"
    [] kind \in {"initialize", "ping", "list"} -> "result"
    [] kind \in {"unknown", "shutdown"} -> "no such method"
    [] OTHER -> "none"

IdOf(k) == IF transcript[k] \in {"garbage", "scalar"} THEN 0 ELSE k

Answered(k, a) == out' = Append(out, [id |-> IdOf(k), answer |-> a])

ChunkArrives(halves) ==
  /\ input = "open"
  /\ arrived + halves <= 2 * Len(transcript)
  /\ arrived' = arrived + halves
  /\ UNCHANGED <<transcript, taken, calling, out, initialized, input>>

ReadyForALine == input # "left" /\ calling = 0 /\ taken < arrived \div 2

(* `shutdown` ends the loop, after its answer; "goodbye" is one without id.*)
LeavesAfter(kind) == kind \in {"shutdown", "goodbye"}

TakeLine ==
  /\ ReadyForALine
  /\ LET k == taken + 1 kind == transcript[k] IN
       /\ taken' = k
       /\ IF kind = "call" THEN calling' = k /\ UNCHANGED out
          ELSE /\ UNCHANGED calling
               /\ IF Immediate(kind) = "none" THEN UNCHANGED out ELSE Answered(k, Immediate(kind))
       /\ initialized' = (kind = "ready" \/ (kind # "initialize" /\ initialized))
       /\ input' = IF LeavesAfter(kind) THEN "left" ELSE input
  /\ UNCHANGED <<transcript, arrived>>

(* The registry answers, or throws. *)
CallEnds(a) ==
  /\ calling # 0
  /\ Answered(calling, a)
  /\ calling' = 0
  /\ UNCHANGED <<transcript, arrived, taken, initialized, input>>

InputCloses ==
  /\ input = "open"
  /\ input' = "closed"
  /\ UNCHANGED <<transcript, arrived, taken, calling, out, initialized>>

(* What is left without a newline is dropped. *)
LoopLeaves ==
  /\ input = "closed" /\ calling = 0 /\ taken = arrived \div 2
  /\ input' = "left"
  /\ UNCHANGED <<transcript, arrived, taken, calling, out, initialized>>

McpNext ==
  \/ \E n \in 1 .. 3 : ChunkArrives(n)
  \/ TakeLine \/ InputCloses \/ LoopLeaves
  \/ \E a \in {"result", "isError", "internal error"} : CallEnds(a)

\* A tool call ends; nothing is asked of the client.
McpSpec == /\ McpInit /\ [][McpNext]_mcpVars
           /\ WF_mcpVars(TakeLine) /\ WF_mcpVars(\E a \in {"result", "isError", "internal error"} : CallEnds(a))
-----------------------------------------------------------------------------
Owed(k) == transcript[k] \notin {"blank", "notify", "ready", "goodbye"}

(* Every line that is owed an answer gets one, in the order of the lines,  *)
(* and nothing else does, wherever the chunks end (mcp.js:126, "read       *)
(* newline-delimited JSON-RPC from input, write responses to output").     *)
AnswersAreInOrder ==
  LET due == {k \in 1 .. taken : Owed(k) /\ k # calling}
  IN  /\ Len(out) = Cardinality(due)
      /\ \A i \in 1 .. Len(out) : out[i].id = IdOf(NthOf(due, i))

(* A request whose line arrived is answered, unless the client asked to    *)
(* shut down before it (mcp.js:127, "Resolves when the stream ends or      *)
(* shutdown is requested").                                                *)
EveryRequestIsAnswered ==
  \A k \in 1 .. 3 :
    /\ k <= Len(transcript) /\ arrived >= 2 * k /\ transcript[k] \in {"call", "list", "unknown"}
    /\ \A i \in 1 .. k - 1 : transcript[i] \notin {"shutdown", "goodbye"}
    ~> \E i \in 1 .. Len(out) : out[i].id = k
=============================================================================
