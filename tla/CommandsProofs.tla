--------------------------- MODULE CommandsProofs ---------------------------
(***************************************************************************)
(* Theorems about what the control plane sends and is sent: the control    *)
(* channel, the cache of accepted commands, the commands to the device,    *)
(* the processes they pause and the explanation of the policy, for any     *)
(* number of frames, faults, commands, processes and rules.                *)
(***************************************************************************)
EXTENDS MCCommands, DataLemmas, SequenceTheorems

-----------------------------------------------------------------------------
(* The life of the link.  Redials are exact because a socket that is       *)
(* neither new nor closed is alive, and what was rejected stays stopped.   *)
LinkInv ==
  /\ socket \in {"none", "connecting", "open", "closing", "closed"}
  /\ closing \in BOOLEAN /\ stopped \in BOOLEAN /\ skipped \in BOOLEAN /\ timer \in BOOLEAN
  /\ refused \in BOOLEAN
  /\ socket # "closed" => ~stopped /\ ~skipped
  /\ socket \in {"connecting", "open"} => ~closing
  /\ OneRedial
  /\ refused => stopped /\ socket = "closed"

(* The link invariant holds of every reachable state.                      *)
LEMMA LinkInvariant == Spec => []LinkInv
<1>1. Init => LinkInv
  BY DEF Init, LinkInv, OneRedial, Down, Wanted
<1>2. LinkInv /\ [Next]_vars => LinkInv'
  <2> SUFFICES ASSUME LinkInv, [Next]_vars PROVE LinkInv'
    OBVIOUS
  <2> USE DEF LinkInv, OneRedial, Down, Wanted
  <2>1. CASE SendFrame \/ LlmRequest
    BY <2>1 DEF SendFrame, LlmRequest, Send, link
  <2>2. CASE \E n \in 1..MaxFrames : Answer(n) \/ LlmTimeout(n)
    BY <2>2 DEF Answer, LlmTimeout, link
  <2>3. CASE Arrive
    BY <2>3 DEF Arrive, link
  <2>4. CASE Connect
    <3>1. timer' = FALSE /\ UNCHANGED <<closing, stopped, skipped, refused>>
      BY <2>4 DEF Connect
    <3>2. ~stopped /\ ~skipped /\ ~refused
      BY <2>4 DEF Connect
    <3>3. CASE closing
      <4>1. socket' = socket /\ socket = "none"
        BY <2>4, <3>3 DEF Connect
      <4> QED
        BY <3>1, <3>2, <4>1
    <3>4. CASE ~closing
      <4>1. socket' = "connecting"
        BY <2>4, <3>2, <3>4 DEF Connect
      <4> QED
        BY <3>1, <3>2, <3>4, <4>1
    <3> QED
      BY <3>3, <3>4
  <2>5. CASE Opened
    BY <2>5 DEF Opened
  <2>6. CASE DialFails
    <3>1. ~stopped /\ ~closing /\ ~skipped /\ ~refused /\ ~timer
      BY <2>6 DEF DialFails
    <3>2. socket' = "closed" /\ UNCHANGED <<closing, stopped, refused>>
      BY <2>6 DEF DialFails
    <3>3. CASE timer' = TRUE /\ skipped' = skipped
      BY <3>1, <3>2, <3>3
    <3>4. CASE skipped' = TRUE /\ timer' = timer
      BY <3>1, <3>2, <3>4
    <3> QED
      BY <2>6, <3>3, <3>4 DEF DialFails, Retry
  <2>7. CASE BadVersion
    BY <2>7 DEF BadVersion
  <2>8. CASE LinkEnds
    <3>1. ~stopped /\ ~skipped /\ ~refused /\ ~timer
      BY <2>8 DEF LinkEnds
    <3>2. socket' = "closed" /\ UNCHANGED <<closing, skipped>>
      BY <2>8 DEF LinkEnds
    <3>3. CASE closing
      BY <2>8, <3>1, <3>2, <3>3 DEF LinkEnds
    <3>4. CASE ~closing
      <4>1. CASE refused' = TRUE /\ stopped' = TRUE /\ timer' = FALSE
        BY <3>1, <3>2, <3>4, <4>1
      <4>2. CASE timer' = TRUE /\ stopped' = stopped /\ refused' = refused
        BY <3>1, <3>2, <3>4, <4>2
      <4> QED
        BY <2>8, <3>4, <4>1, <4>2 DEF LinkEnds, Retry, Reject
    <3> QED
      BY <3>3, <3>4
  <2>9. CASE Close
    BY <2>9 DEF Close
  <2>10. CASE UNCHANGED vars
    BY <2>10 DEF vars, link
  <2> QED
    BY <2>1, <2>2, <2>3, <2>4, <2>5, <2>6, <2>7, <2>8, <2>9, <2>10 DEF Next, Dial
<1> QED
  BY <1>1, <1>2, PTL DEF Spec

(* While the link is wanted and down a redial is due, and never else, for  *)
(* any number of faults: the reconnect timer of control.js is neither      *)
(* forgotten nor armed beside a living link.                               *)
THEOREM RedialIsExact == Spec => []OneRedial
<1>1. LinkInv => OneRedial
  BY DEF LinkInv
<1> QED
  BY <1>1, LinkInvariant, PTL

(* After a terminal close code nothing dials any more, whatever is sent,   *)
(* answered or closed afterwards.                                          *)
THEOREM RejectionIsFinal == Spec => RejectedIsFinal
<1>1. LinkInv /\ [Next]_vars => [refused => socket' = socket /\ ~timer']_vars
  <2> SUFFICES ASSUME LinkInv, Next, refused PROVE socket' = socket /\ ~timer'
    OBVIOUS
  <2>1. stopped = TRUE /\ socket = "closed" /\ timer = FALSE
    BY DEF LinkInv, OneRedial, Down, Wanted
  <2>2. CASE SendFrame \/ LlmRequest
    BY <2>1, <2>2 DEF SendFrame, LlmRequest, link
  <2>3. CASE \E n \in 1..MaxFrames : Answer(n) \/ LlmTimeout(n)
    BY <2>1, <2>3 DEF Answer, LlmTimeout, link
  <2>4. ~Arrive /\ ~Dial /\ ~BadVersion /\ ~LinkEnds
    BY <2>1 DEF Arrive, Dial, Connect, Opened, DialFails, BadVersion, LinkEnds
  <2>5. CASE Close
    BY <2>1, <2>5 DEF Close
  <2> QED
    BY <2>2, <2>3, <2>4, <2>5 DEF Next
<1> QED
  BY <1>1, LinkInvariant, PTL DEF Spec, RejectedIsFinal
-----------------------------------------------------------------------------
(* The frames, in the parts they are kept in.  The queue is empty while    *)
(* the link is open, and what waits in it was sent after what is under way *)
(* and after what arrived.                                                 *)
Ascending(s) == \A i, j \in 1..Len(s) : i < j => s[i] < s[j]

OrderInv ==
  /\ queue \in Seq(Nat) /\ wire \in Seq(Nat) /\ sent \in Nat /\ arrived \subseteq Nat
  /\ socket = "open" => queue = <<>>
  /\ socket \notin {"open", "closing"} => wire = <<>>
  /\ Ascending(queue) /\ Ascending(wire)
  /\ \A i \in 1..Len(wire), j \in 1..Len(queue) : wire[i] < queue[j]
  /\ \A i \in 1..Len(wire) : wire[i] <= sent
  /\ \A j \in 1..Len(queue) : 1 <= queue[j] /\ queue[j] <= sent
  /\ \A n \in arrived : n <= sent
  /\ \A n \in arrived, i \in 1..Len(wire) : wire[i] # Hello => n < wire[i]
  /\ \A n \in arrived, j \in 1..Len(queue) : n < queue[j]

(* Ascending sequences of numbers stay so when a larger number is added at *)
(* the end.                                                                *)
LEMMA AscendingAppend ==
  ASSUME NEW s \in Seq(Nat), NEW n \in Nat, Ascending(s), \A i \in 1..Len(s) : s[i] < n
  PROVE  Ascending(Append(s, n))
<1>1. /\ Len(Append(s, n)) = Len(s) + 1
      /\ \A i \in 1..Len(s) : Append(s, n)[i] = s[i]
      /\ Append(s, n)[Len(s) + 1] = n
  OBVIOUS
<1>2. ASSUME NEW i \in 1..Len(Append(s, n)), NEW j \in 1..Len(Append(s, n)), i < j
      PROVE  Append(s, n)[i] < Append(s, n)[j]
  <2>1. i \in 1..Len(s) /\ Len(s) \in Nat
    BY <1>1, <1>2
  <2>2. CASE j \in 1..Len(s)
    BY <1>1, <1>2, <2>1, <2>2 DEF Ascending
  <2>3. CASE j = Len(s) + 1
    BY <1>1, <2>1, <2>3
  <2> QED
    BY <1>1, <2>1, <2>2, <2>3, SMTT(60)
<1> QED
  BY <1>2 DEF Ascending

(* Taking the first frame.                                                 *)
LEMMA AscendingTail ==
  ASSUME NEW s \in Seq(Nat), s # <<>>, Ascending(s)
  PROVE  /\ Ascending(Tail(s))
         /\ \A i \in 1..Len(Tail(s)) : Tail(s)[i] = s[i + 1] /\ i + 1 \in 1..Len(s) /\ s[1] < Tail(s)[i]
<1>1. /\ Len(s) \in Nat \ {0} /\ Len(Tail(s)) = Len(s) - 1
      /\ \A i \in 1..Len(Tail(s)) : Tail(s)[i] = s[i + 1]
  OBVIOUS
<1>2. \A i \in 1..Len(Tail(s)) : i \in Int /\ i + 1 \in 1..Len(s) /\ 1 < i + 1 /\ 1 \in 1..Len(s)
  BY <1>1
<1>3. ASSUME NEW i \in 1..Len(Tail(s)), NEW j \in 1..Len(Tail(s)), i < j
      PROVE  Tail(s)[i] < Tail(s)[j]
  <2>1. i + 1 \in 1..Len(s) /\ j + 1 \in 1..Len(s) /\ i + 1 < j + 1
    BY <1>2, <1>3
  <2> QED
    BY <1>1, <2>1 DEF Ascending
<1> QED
  BY <1>1, <1>2, <1>3 DEF Ascending

(* Joining two sequences, every frame of the first before the second.      *)
LEMMA AscendingConcat ==
  ASSUME NEW s \in Seq(Nat), NEW t \in Seq(Nat), Ascending(s), Ascending(t),
         \A i \in 1..Len(s), j \in 1..Len(t) : s[i] < t[j]
  PROVE  Ascending(s \o t)
<1>1. /\ Len(s \o t) = Len(s) + Len(t) /\ Len(s) \in Nat /\ Len(t) \in Nat
      /\ \A i \in 1..Len(s \o t) : (s \o t)[i] = IF i <= Len(s) THEN s[i] ELSE t[i - Len(s)]
  OBVIOUS
<1>2. ASSUME NEW i \in 1..Len(s \o t), NEW j \in 1..Len(s \o t), i < j
      PROVE  (s \o t)[i] < (s \o t)[j]
  <2>1. CASE j <= Len(s)
    <3>1. i \in 1..Len(s) /\ j \in 1..Len(s)
      BY <1>1, <1>2, <2>1
    <3> QED
      BY <1>1, <1>2, <2>1, <3>1 DEF Ascending
  <2>2. CASE i <= Len(s) /\ ~(j <= Len(s))
    <3>1. i \in 1..Len(s) /\ j - Len(s) \in 1..Len(t)
      BY <1>1, <1>2, <2>2
    <3> QED
      BY <1>1, <2>2, <3>1
  <2>3. CASE ~(i <= Len(s))
    <3>1. i - Len(s) \in 1..Len(t) /\ j - Len(s) \in 1..Len(t) /\ i - Len(s) < j - Len(s) /\ ~(j <= Len(s))
      BY <1>1, <1>2, <2>3
    <3> QED
      BY <1>1, <2>3, <3>1 DEF Ascending
  <2> QED
    BY <2>1, <2>2, <2>3
<1> QED
  BY <1>2 DEF Ascending

(* A new frame goes behind all others, on the link or in the queue.        *)
LEMMA SendInOrder == ASSUME OrderInv, Send, UNCHANGED <<socket, arrived>> PROVE OrderInv'
<1> USE DEF OrderInv
<1>1. /\ sent' = sent + 1 /\ sent' \in Nat /\ socket' = socket /\ arrived' = arrived
      /\ sent \in Nat /\ queue \in Seq(Nat) /\ wire \in Seq(Nat)
  BY DEF Send
<1>2. CASE socket = "open"
  <2>1. wire' = Append(wire, sent') /\ queue' = <<>> /\ queue = <<>>
    BY <1>2 DEF Send
  <2>2. /\ wire' \in Seq(Nat) /\ Len(wire') = Len(wire) + 1 /\ wire'[Len(wire) + 1] = sent'
        /\ \A i \in 1..Len(wire) : wire'[i] = wire[i]
    BY <1>1, <2>1
  <2>3. \A i \in 1..Len(wire) : wire[i] \in Nat /\ wire[i] < sent' /\ wire[i] <= sent'
    BY <1>1
  <2>4. Ascending(wire')
    BY <1>1, <2>1, <2>3, AscendingAppend
  <2>5. \A i \in 1..Len(wire') : wire'[i] <= sent'
    <3>1. \A i \in 1..Len(wire') : i \in 1..Len(wire) \/ i = Len(wire) + 1
      BY <1>1, <2>2
    <3>2. \A i \in 1..Len(wire) : wire'[i] <= sent'
      <4> HIDE DEF OrderInv
      <4> QED
        BY <2>2, <2>3
    <3>3. wire'[Len(wire) + 1] <= sent'
      BY <1>1, <2>2
    <3> QED
      BY <3>1, <3>2, <3>3
  <2>6. \A n \in arrived', i \in 1..Len(wire') : wire'[i] # Hello => n < wire'[i]
    <3>1. \A n \in arrived : n \in Nat /\ n < sent'
      BY <1>1
    <3>2. \A i \in 1..Len(wire') : i \in 1..Len(wire) \/ i = Len(wire) + 1
      BY <1>1, <2>2
    <3> QED
      BY <1>1, <2>2, <3>1, <3>2
  <2> QED
    BY <1>1, <1>2, <2>1, <2>2, <2>4, <2>5, <2>6 DEF Ascending
<1>3. CASE socket # "open"
  <2>1. queue' = Append(queue, sent') /\ wire' = wire
    BY <1>3 DEF Send
  <2>2. /\ queue' \in Seq(Nat) /\ Len(queue') = Len(queue) + 1 /\ queue'[Len(queue) + 1] = sent'
        /\ \A i \in 1..Len(queue) : queue'[i] = queue[i]
        /\ \A i \in 1..Len(queue') : i \in 1..Len(queue) \/ i = Len(queue) + 1
    BY <1>1, <2>1
  <2>3. \A i \in 1..Len(queue) : queue[i] \in Nat /\ queue[i] < sent' /\ queue[i] <= sent' /\ 1 <= queue[i]
    BY <1>1
  <2>4. Ascending(queue')
    BY <1>1, <2>1, <2>3, AscendingAppend
  <2>5. \A j \in 1..Len(queue') : 1 <= queue'[j] /\ queue'[j] <= sent'
    <3>1. \A j \in 1..Len(queue) : 1 <= queue'[j] /\ queue'[j] <= sent'
      <4> HIDE DEF OrderInv
      <4> QED
        BY <2>2, <2>3
    <3>2. 1 <= queue'[Len(queue) + 1] /\ queue'[Len(queue) + 1] <= sent'
      BY <1>1, <2>2
    <3> QED
      BY <2>2, <3>1, <3>2
  <2>6. \A i \in 1..Len(wire) : wire[i] \in Nat /\ wire[i] < sent' /\ wire[i] <= sent'
    BY <1>1
  <2>7. \A n \in arrived : n \in Nat /\ n < sent' /\ n <= sent'
    BY <1>1
  <2>8. \A i \in 1..Len(wire'), j \in 1..Len(queue') : wire'[i] < queue'[j]
    BY <1>1, <2>1, <2>2, <2>6
  <2>9. \A n \in arrived', j \in 1..Len(queue') : n < queue'[j]
    BY <1>1, <2>2, <2>7
  <2> QED
    BY <1>1, <1>3, <2>1, <2>2, <2>4, <2>5, <2>6, <2>7, <2>8, <2>9
<1> QED
  BY <1>2, <1>3

(* The order invariant is kept by every step.                              *)
LEMMA OrderInvariant == Spec => []OrderInv
<1>1. Init => OrderInv
  BY DEF Init, OrderInv, Ascending
<1>2. LinkInv /\ OrderInv /\ [Next]_vars => OrderInv'
  <2> SUFFICES ASSUME LinkInv, OrderInv, [Next]_vars PROVE OrderInv'
    OBVIOUS
  <2>1. CASE SendFrame \/ LlmRequest
    BY <2>1, SendInOrder DEF SendFrame, LlmRequest, link
  <2>2. CASE \E n \in 1..MaxFrames : Answer(n) \/ LlmTimeout(n)
    BY <2>2 DEF Answer, LlmTimeout, link, OrderInv, Ascending
  <2>3. CASE Arrive
    <3> USE DEF OrderInv
    <3>1. /\ wire # <<>> /\ wire' = Tail(wire) /\ queue' = queue /\ sent' = sent /\ socket' = socket
          /\ arrived' = arrived \cup ({wire[1]} \ {Hello})
          /\ socket \in {"open", "closing"}
      BY <2>3 DEF Arrive, link
    <3>2. wire' \in Seq(Nat) /\ 1 \in 1..Len(wire) /\ wire[1] \in Nat /\ wire[1] <= sent
      BY <3>1
    <3>3. /\ Ascending(wire')
          /\ \A i \in 1..Len(wire') : wire'[i] = wire[i + 1] /\ i + 1 \in 1..Len(wire) /\ wire[1] < wire'[i]
      BY <3>1, AscendingTail
    <3>4. \A n \in arrived' : n = wire[1] \/ n \in arrived
      BY <3>1
    <3>5. \A n \in arrived', i \in 1..Len(wire') : wire'[i] # Hello => n < wire'[i]
      BY <3>3, <3>4
    <3>6. \A n \in arrived', j \in 1..Len(queue') : n < queue'[j]
      BY <3>1, <3>2, <3>4
    <3>7. \A i \in 1..Len(wire') : wire'[i] <= sent'
      BY <3>1, <3>3
    <3>8. \A i \in 1..Len(wire'), j \in 1..Len(queue') : wire'[i] < queue'[j]
      BY <3>1, <3>3
    <3> QED
      BY <3>1, <3>2, <3>3, <3>4, <3>5, <3>6, <3>7, <3>8
  <2>4. CASE Connect
    <3>1. socket \in {"none", "closed"}
      BY <2>4 DEF Connect, LinkInv, OneRedial, Down
    <3>2. socket' \in {"none", "closed", "connecting"} /\ UNCHANGED <<queue, wire, sent, arrived>>
      BY <2>4, <3>1 DEF Connect
    <3> QED
      BY <3>1, <3>2 DEF OrderInv, Ascending
  <2>5. CASE Opened
    <3> USE DEF OrderInv
    <3>1. /\ wire' = <<0>> \o queue /\ queue' = <<>> /\ sent' = sent /\ arrived' = arrived
          /\ socket' = "open"
      BY <2>5 DEF Opened, Hello
    <3>2. <<0>> \in Seq(Nat) /\ Ascending(<<0>>) /\ Len(<<0>>) = 1 /\ <<0>>[1] = 0
      BY DEF Ascending
    <3>3. \A j \in 1..Len(queue) : queue[j] \in Nat /\ 0 < queue[j]
      OBVIOUS
    <3>4. Ascending(wire')
      <4>1. \A i \in 1..Len(<<0>>), j \in 1..Len(queue) : <<0>>[i] < queue[j]
        BY <3>2, <3>3
      <4>2. queue \in Seq(Nat) /\ Ascending(queue)
        OBVIOUS
      <4>3. Ascending(<<0>> \o queue)
        BY <3>2, <4>1, <4>2, AscendingConcat
      <4> QED
        BY <3>1, <4>3
    <3>5. /\ wire' \in Seq(Nat)
          /\ \A i \in 1..Len(wire') : wire'[i] = 0 \/ (\E j \in 1..Len(queue) : wire'[i] = queue[j])
      <4>1. \A i \in 1..Len(wire') : \/ i = 1 /\ wire'[i] = 0
                                     \/ i - 1 \in 1..Len(queue) /\ wire'[i] = queue[i - 1]
        BY <3>1
      <4> QED
        BY <3>1, <4>1
    <3>6. \A n \in arrived', i \in 1..Len(wire') : wire'[i] # Hello => n < wire'[i]
      BY <3>1, <3>5 DEF Hello
    <3>7. \A i \in 1..Len(wire') : wire'[i] <= sent'
      BY <3>1, <3>5
    <3>8. Ascending(queue') /\ Len(queue') = 0
      BY <3>1 DEF Ascending
    <3>9. queue' \in Seq(Nat) /\ sent' \in Nat /\ arrived' \subseteq Nat /\ \A n \in arrived' : n <= sent'
      BY <3>1
    <3>10. /\ \A i \in 1..Len(wire'), j \in 1..Len(queue') : wire'[i] < queue'[j]
           /\ \A j \in 1..Len(queue') : 1 <= queue'[j] /\ queue'[j] <= sent'
           /\ \A n \in arrived', j \in 1..Len(queue') : n < queue'[j]
      BY <3>8
    <3>11. wire' \in Seq(Nat) /\ (socket' = "open" => queue' = <<>>) /\ (socket' \notin {"open", "closing"} => wire' = <<>>)
      BY <3>1, <3>5
    <3> QED
      BY <3>4, <3>6, <3>7, <3>8, <3>9, <3>10, <3>11
  <2>6. CASE DialFails
    BY <2>6 DEF DialFails, OrderInv, Ascending
  <2>7. CASE BadVersion
    BY <2>7 DEF BadVersion, OrderInv, Ascending
  <2>8. CASE LinkEnds
    BY <2>8 DEF LinkEnds, OrderInv, Ascending
  <2>9. CASE Close
    BY <2>9 DEF Close, OrderInv, Ascending
  <2>10. CASE UNCHANGED vars
    BY <2>10 DEF vars, link, OrderInv, Ascending
  <2> QED
    BY <2>1, <2>2, <2>3, <2>4, <2>5, <2>6, <2>7, <2>8, <2>9, <2>10 DEF Next, Dial
<1> QED
  BY <1>1, <1>2, LinkInvariant, PTL DEF Spec

(* Whatever drops and reconnects: the gateway receives frames in the order *)
(* the daemon sent them, and nothing overtakes the handshake of a link.    *)
THEOREM FramesArriveInOrder == Spec => []FramesInOrder
<1>1. OrderInv => FramesInOrder
  <2> SUFFICES ASSUME OrderInv PROVE FramesInOrder
    OBVIOUS
  <2> USE DEF OrderInv
  <2>1. /\ Len(Frames) = Len(wire) + Len(queue)
        /\ \A i \in 1..Len(Frames) :
             \/ i \in 1..Len(wire) /\ Frames[i] = wire[i]
             \/ i - Len(wire) \in 1..Len(queue) /\ Frames[i] = queue[i - Len(wire)]
    BY DEF Frames
  <2>2. \A i, j \in 1..Len(Frames) : i < j => Frames[i] < Frames[j]
    BY AscendingConcat DEF Frames, Ascending
  <2>3. \A n \in arrived, i \in 1..Len(Frames) : Frames[i] # Hello => n < Frames[i]
    BY <2>1
  <2> QED
    BY <2>2, <2>3 DEF FramesInOrder
<1> QED
  BY <1>1, OrderInvariant, PTL

(* The link is one and in order for any number of frames, faults and       *)
(* redials: the three results above as the one property the runs check.    *)
THEOREM ChannelHolds == Spec => ChannelIsSound
<1>1. Spec => [](OneRedial /\ FramesInOrder)
  BY RedialIsExact, FramesArriveInOrder, PTL
<1> QED
  BY <1>1, RejectionIsFinal DEF ChannelIsSound
-----------------------------------------------------------------------------
(* Of a command that was accepted and not forgotten the Map still has the  *)
(* acceptance, or it is so old that no earlier stamp is fresh any more.    *)
Kept(k) == last[k] # Never /\ k \notin forgotten => seen[k] = last[k] \/ last[k] <= now - MaxAge

ReplayInv ==
  /\ now \in Nat \ {0}
  /\ seen \in [Keys -> Nat]
  /\ last \in [Keys -> Nat]
  /\ \A k \in Keys : Kept(k)
  /\ replayed = {}

(* The accepted key keeps its new entry or is evicted, every other key     *)
(* keeps what it had, is evicted or was swept because it expired.          *)
LEMMA ReplayStep == ReplayInv /\ [ReplayNext]_replayVars => ReplayInv'
<1>. SUFFICES ASSUME ReplayInv, [ReplayNext]_replayVars PROVE ReplayInv'
  OBVIOUS
<1>. USE ReplayAssumption DEF Never
<1>1. ASSUME NEW k \in Keys, NEW ts \in (now - MaxAge - 1)..(now + MaxFuture + 1), Accept(k, ts)
      PROVE  ReplayInv'
  <2>1. /\ now - MaxAge <= ts /\ now' = now /\ MaxAge \in Nat \ {0}
        /\ now \in Nat \ {0} /\ ts \in Int
    BY <1>1 DEF Accept, Fresh, ReplayInv
  <2>2. ~Remembered(k)
    BY <1>1 DEF Accept
  <2>3. \A l \in Keys : seen'[l] = IF l \in Surplus(k) THEN 0 ELSE Swept(k)[l]
    BY <1>1 DEF Accept
  <2>4. \A l \in Keys : Swept(k)[l] = IF l = k THEN now ELSE IF Remembered(l) THEN seen[l] ELSE 0
    BY DEF Swept
  <2>5. seen' \in [Keys -> Nat]
    BY <1>1, <2>1, <2>4 DEF Accept, ReplayInv
  <2>6. /\ last' = [last EXCEPT ![k] = now] /\ last' \in [Keys -> Nat]
        /\ forgotten' = (forgotten \ {k}) \cup Surplus(k)
    BY <1>1, <2>1 DEF Accept, ReplayInv
  <2>7. replayed' = {}
    <3>1. ASSUME last[k] # 0, k \notin forgotten, ts < last[k] PROVE FALSE
      BY <2>1, <2>2, <3>1 DEF ReplayInv, Kept, Remembered
    <3>. QED BY <1>1, <3>1 DEF Accept, ReplayInv
  <2>8. ASSUME NEW l \in Keys PROVE Kept(l)'
    <3>1. CASE l \in Surplus(k)
      BY <2>6, <3>1 DEF Kept
    <3>2. CASE l = k /\ l \notin Surplus(k)
      BY <2>3, <2>4, <2>6, <3>2 DEF Kept, ReplayInv
    <3>3. CASE l # k /\ l \notin Surplus(k)
      <4>1. last'[l] = last[l] /\ (l \in forgotten' <=> l \in forgotten)
        BY <2>6, <3>3 DEF ReplayInv
      <4>2. seen'[l] = IF Remembered(l) THEN seen[l] ELSE 0
        BY <2>3, <2>4, <3>3
      <4>3. seen[l] \in Nat /\ last[l] \in Nat /\ Kept(l)
        BY DEF ReplayInv
      <4>. QED BY <2>1, <4>1, <4>2, <4>3 DEF Kept, Remembered
    <3>. QED BY <3>1, <3>2, <3>3
  <2>. QED BY <2>1, <2>5, <2>6, <2>7, <2>8 DEF ReplayInv
<1>2. CASE Restart
  BY <1>2 DEF Restart, ReplayInv, Kept, Entries
<1>3. CASE Tick
  BY <1>3 DEF Tick, ReplayInv, Kept
<1>4. CASE UNCHANGED replayVars
  BY <1>4 DEF replayVars, ReplayInv, Kept
<1>. QED BY <1>1, <1>2, <1>3, <1>4 DEF ReplayNext

(* validateCommandFrame never accepts a frame stamped before the command   *)
(* was last accepted, unless the bound or a restart dropped its entry.     *)
THEOREM AcceptedIsNotReplayed == ReplaySpec => []NoReplay
<1>1. ReplayInit => ReplayInv
  BY DEF ReplayInit, ReplayInv, Kept, Never
<1>2. ReplayInv => NoReplay
  BY DEF ReplayInv, NoReplay
<1>. QED BY <1>1, <1>2, ReplayStep, PTL DEF ReplaySpec

-----------------------------------------------------------------------------
(* Pausing processes: the file says what the program has in memory, and    *)
(* whoever stands still is in it.                                          *)
ControlInv ==
  /\ DOMAIN proc = Pid /\ byNumber \subseteq Pid /\ byText \subseteq Pid
  /\ pauseFile = Paused
  /\ \A p \in Pid : proc[p] = "stopped" => p \in Paused
  /\ OwnersRunOn

LEMMA ControlStep == ControlInv /\ [ControlNext]_controlVars => ControlInv'
<1>. SUFFICES ASSUME ControlInv, [ControlNext]_controlVars PROVE ControlInv'
  OBVIOUS
<1>. USE ControlAssumption DEF ControlInv, Paused, OwnersRunOn
<1>1. ASSUME NEW pids \in SUBSET Pid, PausePids(pids) PROVE ControlInv'
  BY <1>1 DEF PausePids, SavePaused, Signalled, PauseSet, Gone
<1>2. ASSUME NEW pids \in SUBSET Pid, ResumePids(pids) PROVE ControlInv'
  BY <1>2 DEF ResumePids, SavePaused, Signalled, Gone
<1>3. ASSUME NEW mode \in Modes, NEW census \in SUBSET Fleet, ApplyMode(mode, census) PROVE ControlInv'
  BY <1>3 DEF ApplyMode, Victims, SavePaused, PauseSet, Gone
<1>4. ASSUME NEW p \in Pid, KillPid(p) PROVE ControlInv'
  BY <1>4 DEF KillPid
<1>5. CASE SamplerRestart
  BY <1>5 DEF SamplerRestart
<1>6. CASE UNCHANGED controlVars
  BY <1>6 DEF controlVars
<1>7. CASE Pause
  <2>1. \A pids \in (SUBSET Fleet) \cup {{p} : p \in Pid} : pids \in SUBSET Pid
    OBVIOUS
  <2>. QED BY <1>1, <1>7, <2>1 DEF Pause
<1>8. CASE Resume
  <2>1. \A pids \in {Paused} \cup {{p} : p \in Pid} : pids \in SUBSET Pid
    OBVIOUS
  <2>. QED BY <1>2, <1>8, <2>1 DEF Resume
<1>. QED BY <1>3, <1>4, <1>5, <1>6, <1>7, <1>8 DEF ControlNext

(* Whatever is paused, resumed, killed and restarted, and whatever modes   *)
(* are applied: who stands still is on record, no owner of a control port  *)
(* does, and a mode leaves exactly its fleet standing still.               *)
THEOREM StoppedAlwaysResumes == ControlSpec => StoppedCanResume
<1>1. ControlInit => ControlInv
  BY ControlAssumption DEF ControlInit, ControlInv, Paused, OwnersRunOn
<1>2. ControlInv => StoppedIsRemembered /\ OwnersRunOn
  BY DEF ControlInv, StoppedIsRemembered
<1>3. ASSUME ControlInv, NEW mode \in Modes, NEW census \in SUBSET Fleet, ApplyMode(mode, census)
      PROVE  {p \in Pid : proc'[p] = "stopped"} = Victims(mode, census)
  BY <1>3, ControlAssumption DEF ControlInv, ApplyMode, Victims, PauseSet, Gone
<1>4. ControlInv /\ [ControlNext]_controlVars =>
        [\A mode \in Modes, census \in SUBSET Fleet : ApplyMode(mode, census) =>
           {p \in Pid : proc'[p] = "stopped"} = Victims(mode, census)]_controlVars
  BY <1>3
<1>. QED BY <1>1, <1>2, <1>4, ControlStep, PTL DEF ControlSpec, StoppedCanResume, ModeIsInForce

-----------------------------------------------------------------------------
(* Polled commands.  What is offered and has no verdict was executed only  *)
(* as often as its report was lost.                                        *)
Verdicts == {"none", "done", "failed", "refused"}
OfferInv ==
  /\ queued \subseteq Command /\ verdict \in Verdicts
  /\ runs \in [Command -> Nat] /\ lostReports \in [Command -> Nat]
  /\ batch \in Seq(Command)
  /\ \A i \in 1 .. Len(batch) : batch[i] \in queued
  /\ \A i, j \in 1 .. Len(batch) : i # j => batch[i] # batch[j]
  /\ verdict # "none" => batch # <<>>
  /\ \A c \in Command : runs[c] <= 1 + lostReports[c]
  /\ \A c \in queued : runs[c] <= lostReports[c] \/ (verdict # "none" /\ c = batch[1])

LEMMA BatchFacts ==
  ASSUME OfferInv
  PROVE  /\ Len(batch) \in Nat
         /\ batch # <<>> => /\ 1 \in 1 .. Len(batch) /\ Head(batch) = batch[1]
                            /\ batch[1] \in Command
<1>1. Len(batch) \in Nat /\ batch \in [1 .. Len(batch) -> Command]
  BY LenProperties DEF OfferInv
<1>2. batch # <<>> => Len(batch) # 0
  BY EmptySeq DEF OfferInv
<1>. QED BY <1>1, <1>2

LEMMA OfferStep == OfferInv /\ [CommandNext]_commandVars => OfferInv'
<1>. SUFFICES ASSUME OfferInv, [CommandNext]_commandVars PROVE OfferInv'
  OBVIOUS
<1>1. CASE PollCommands
  <2>1. batch' \in SetToSeqs(queued) /\ UNCHANGED <<queued, verdict, runs, lostReports>>
        /\ batch = <<>>
    BY <1>1 DEF PollCommands
  <2>. DEFINE n == Cardinality(queued)
  <2>2. n \in Nat
    BY CommandAssumption, FS_Subset, FS_CardinalityType DEF OfferInv
  <2>3. /\ batch' \in [1 .. n -> queued]
        /\ \A i, j \in 1 .. n : i # j => batch'[i] # batch'[j]
    BY <2>1 DEF SetToSeqs
  <2>. HIDE DEF n
  <2>4. batch' \in Seq(queued)
    BY <2>2, <2>3
  <2>5. Len(batch') = n
    BY <2>2, <2>3, <2>4, LenProperties
  <2>6. batch' \in Seq(Command)
    BY <2>2, <2>3 DEF OfferInv
  <2>7. verdict = "none"
    BY <2>1 DEF OfferInv
  <2>. QED BY <2>1, <2>3, <2>5, <2>6, <2>7 DEF OfferInv
<1>2. CASE RunCommand
  <2>1. batch # <<>> /\ verdict = "none" /\ UNCHANGED <<queued, batch, lostReports>>
    BY <1>2 DEF RunCommand
  <2>2. Head(batch) = batch[1] /\ batch[1] \in queued /\ batch[1] \in Command
    BY <2>1, BatchFacts DEF OfferInv
  <2>3. /\ verdict' \in Verdicts \ {"none"}
        /\ runs' = runs \/ runs' = [runs EXCEPT ![batch[1]] = @ + 1]
    BY <1>2, <2>2 DEF RunCommand, Verdicts
  <2>4. runs' \in [Command -> Nat] /\ \A c \in Command : c # batch[1] => runs'[c] = runs[c]
    <3>1. runs \in [Command -> Nat] /\ runs[batch[1]] + 1 \in Nat
      BY <2>2 DEF OfferInv
    <3>. QED BY <2>2, <2>3, <3>1
  <2>5. runs'[batch[1]] <= 1 + lostReports[batch[1]]
    BY <2>1, <2>2, <2>3, SMTT(60) DEF OfferInv
  <2>. QED BY <2>1, <2>2, <2>3, <2>4, <2>5 DEF OfferInv
<1>3. CASE ReportCommand
  <2>1. /\ verdict # "none" /\ batch # <<>> /\ batch' = Tail(batch) /\ verdict' = "none"
        /\ runs' = runs
    BY <1>3 DEF ReportCommand, OfferInv
  <2>2. /\ batch[1] \in Command /\ batch[1] \in queued /\ Head(batch) = batch[1]
        /\ Len(batch) \in Nat
    BY <2>1, BatchFacts DEF OfferInv
  <2>3. /\ batch' \in Seq(Command) /\ Len(batch') = Len(batch) - 1
        /\ \A i \in 1 .. Len(batch') : batch'[i] = batch[i + 1]
    BY <2>1, HeadTailProperties DEF OfferInv
  <2>4. \A i \in 1 .. Len(batch') : i + 1 \in 1 .. Len(batch) /\ i + 1 # 1
    BY <2>2, <2>3
  <2>5. \A i \in 1 .. Len(batch') : batch'[i] \in queued \ {batch[1]}
    BY <2>2, <2>3, <2>4, BatchFacts, <2>1 DEF OfferInv
  <2>6. \A i, j \in 1 .. Len(batch') : i # j => batch'[i] # batch'[j]
    <3>1. \A i, j \in 1 .. Len(batch') : i # j => i + 1 # j + 1
      BY <2>2, <2>3
    <3>2. \A i, j \in 1 .. Len(batch) : i # j => batch[i] # batch[j]
      BY DEF OfferInv
    <3>. QED BY <2>3, <2>4, <3>1, <3>2
  <2>7. CASE queued' = queued \ {batch[1]} /\ UNCHANGED lostReports
    BY <2>1, <2>3, <2>5, <2>6, <2>7 DEF OfferInv, Verdicts
  <2>8. CASE lostReports' = [lostReports EXCEPT ![batch[1]] = @ + 1] /\ UNCHANGED queued
    <3>1. /\ lostReports' \in [Command -> Nat]
          /\ \A c \in Command : c # batch[1] => lostReports'[c] = lostReports[c]
          /\ lostReports'[batch[1]] = lostReports[batch[1]] + 1
      BY <2>2, <2>8 DEF OfferInv
    <3>. DEFINE was == lostReports
                now1 == lostReports'
    <3>2. /\ \A c \in Command : runs[c] \in Nat /\ was[c] \in Nat /\ runs[c] <= 1 + was[c]
          /\ \A c \in queued : runs[c] <= was[c] \/ c = batch[1]
          /\ queued \subseteq Command
      BY DEF OfferInv
    <3>3. \A c \in Command : now1[c] = was[c] \/ (c = batch[1] /\ now1[c] = was[c] + 1)
      BY <3>1
    <3>. HIDE DEF was, now1
    <3>4. \A c \in Command : runs[c] <= 1 + now1[c]
      BY <3>2, <3>3
    <3>5. \A c \in queued : runs[c] <= now1[c]
      BY <2>2, <3>2, <3>3, <3>1 DEF was, now1
    <3>6. /\ \A c \in Command : runs[c] <= 1 + lostReports'[c]
          /\ \A c \in queued : runs[c] <= lostReports'[c]
      BY <3>4, <3>5 DEF now1
    <3>. QED BY <2>1, <2>3, <2>5, <2>6, <2>8, <3>1, <3>6 DEF OfferInv, Verdicts
  <2>. QED BY <1>3, <2>2, <2>7, <2>8 DEF ReportCommand
<1>4. CASE DaemonRestart
  <2>1. /\ batch' = <<>> /\ verdict' = "none" /\ UNCHANGED <<queued, runs>>
        /\ lostReports' = IF verdict = "none" THEN lostReports
                          ELSE [lostReports EXCEPT ![Head(batch)] = @ + 1]
    BY <1>4 DEF DaemonRestart
  <2>2. batch' \in Seq(Command) /\ 1 .. Len(batch') = {}
    BY <2>1, EmptySeq
  <2>3. verdict # "none" => Head(batch) = batch[1] /\ batch[1] \in Command
    BY BatchFacts DEF OfferInv
  <2>4. lostReports' \in [Command -> Nat]
    BY <2>1, <2>3 DEF OfferInv
  <2>5. \A c \in Command : runs[c] <= 1 + lostReports'[c]
    BY <2>1, <2>3 DEF OfferInv
  <2>6. \A c \in queued : runs[c] <= lostReports'[c]
    BY <2>1, <2>3 DEF OfferInv
  <2>. QED BY <2>1, <2>2, <2>4, <2>5, <2>6 DEF OfferInv, Verdicts
<1>5. CASE EditPolicy \/ MinutePasses \/ UNCHANGED commandVars
  BY <1>5 DEF EditPolicy, MinutePasses, commandVars, OfferInv
<1>. QED BY <1>1, <1>2, <1>3, <1>4, <1>5 DEF CommandNext

(* The ceiling.  The times the device counts are those of its executions,  *)
(* but for some that are older than a minute.                              *)
Uncounted == Len(executed) - Len(commanded)
CeilingInv ==
  /\ clock \in Nat /\ commanded \in Seq(Nat) /\ executed \in Seq(Nat)
  /\ Uncounted \in Nat
  /\ \A i \in 1 .. Uncounted : clock - executed[i] >= Window
  /\ \A i \in 1 .. Len(commanded) : commanded[i] = executed[Uncounted + i]
  /\ Len(Recent(executed)) <= RateMax

(* What the filter keeps at time c: from the first recent time on.         *)
Start(s, c) == Min({i \in DOMAIN s : c - s[i] < Window} \cup {Len(s) + 1})

LEMMA StartFacts ==
  ASSUME NEW s \in Seq(Nat), NEW c \in Nat
  PROVE  /\ Len(s) \in Nat /\ Start(s, c) \in 1 .. Len(s) + 1
         /\ \A i \in 1 .. Len(s) : i < Start(s, c) => c - s[i] >= Window
         /\ Start(s, c) <= Len(s) => c - s[Start(s, c)] < Window
<1>. DEFINE T == {i \in DOMAIN s : c - s[i] < Window} \cup {Len(s) + 1}
<1>1. Len(s) \in Nat /\ DOMAIN s = 1 .. Len(s) /\ \A i \in 1 .. Len(s) : s[i] \in Nat
  BY LenProperties
<1>2. T \in SUBSET Nat /\ T # {} /\ T \subseteq 1 .. Len(s) + 1
  BY <1>1
<1>3. Min(T) \in T /\ \A k \in T : Min(T) <= k
  BY <1>2, MinIsSmallest
<1>4. Start(s, c) = Min(T)
  BY DEF Start
<1>5. \A i \in 1 .. Len(s) : i < Min(T) => i \notin T
  <2>1. \A S \in SUBSET Nat : \A k \in Nat : (\A j \in S : k <= j) => \A i \in Nat : i < k => i \notin S
    OBVIOUS
  <2>2. Min(T) \in Nat
    BY <1>2, <1>3
  <2>. QED BY <1>2, <1>3, <2>1, <2>2
<1>6. \A i \in 1 .. Len(s) : i < Start(s, c) => c - s[i] >= Window
  BY <1>1, <1>4, <1>5, CommandAssumption
<1>7. Start(s, c) <= Len(s) => c - s[Start(s, c)] < Window
  BY <1>1, <1>2, <1>3, <1>4
<1>. QED BY <1>1, <1>2, <1>3, <1>4, <1>6, <1>7

LEMMA RecentFacts ==
  ASSUME NEW s \in Seq(Nat), NEW c \in Nat
  PROVE  LET r == SubSeq(s, Start(s, c), Len(s)) IN
         /\ r \in Seq(Nat)
         /\ Len(r) = Len(s) + 1 - Start(s, c)
         /\ \A i \in 1 .. Len(r) : r[i] = s[Start(s, c) + i - 1]
<1>1. /\ Len(s) \in Nat /\ Start(s, c) \in 1 .. Len(s) + 1
      /\ \A i \in 1 .. Len(s) : s[i] \in Nat
  BY StartFacts, LenProperties
<1>. DEFINE m == Start(s, c)
            n == Len(s)
<1>2. m \in Int /\ n \in Int /\ \A i \in m .. n : s[i] \in Nat
  BY <1>1
<1>. HIDE DEF m, n
<1>3. /\ SubSeq(s, m, n) \in Seq(Nat)
      /\ Len(SubSeq(s, m, n)) = IF m <= n THEN n - m + 1 ELSE 0
      /\ \A i \in 1 .. n - m + 1 : SubSeq(s, m, n)[i] = s[m + i - 1]
  BY <1>2, SubSeqProperties
<1>. QED BY <1>1, <1>3 DEF m, n

(* Both counts start at the same execution. *)
LEMMA SameRecent ==
  ASSUME CeilingInv
  PROVE  /\ Recent(commanded) = Recent(executed)
         /\ Recent(commanded) \in Seq(Nat)
         /\ First(executed) = Uncounted + First(commanded)
<1>1. /\ clock \in Nat /\ commanded \in Seq(Nat) /\ executed \in Seq(Nat)
      /\ Len(commanded) \in Nat /\ Len(executed) \in Nat
      /\ \A i \in 1 .. Len(executed) : executed[i] \in Nat
      /\ First(commanded) = Start(commanded, clock) /\ First(executed) = Start(executed, clock)
  BY LenProperties DEF CeilingInv, First, Start
<1>. DEFINE d == Uncounted
            a == First(commanded)
            b == First(executed)
<1>2. /\ d \in Nat /\ Len(executed) = d + Len(commanded)
      /\ \A i \in 1 .. d : clock - executed[i] >= Window
      /\ \A i \in 1 .. Len(commanded) : commanded[i] = executed[d + i]
  BY <1>1 DEF CeilingInv, Uncounted
<1>3. /\ a \in 1 .. Len(commanded) + 1
      /\ \A i \in 1 .. Len(commanded) : i < a => clock - commanded[i] >= Window
      /\ a <= Len(commanded) => clock - commanded[a] < Window
      /\ b \in 1 .. Len(executed) + 1
      /\ \A i \in 1 .. Len(executed) : i < b => clock - executed[i] >= Window
      /\ b <= Len(executed) => clock - executed[b] < Window
  BY <1>1, StartFacts
<1>. HIDE DEF a, b, d
<1>4. b >= d + a
  <2>1. ASSUME b < d + a PROVE FALSE
    <3>1. b \in 1 .. Len(executed) /\ clock - executed[b] < Window
      BY <1>1, <1>2, <1>3, <2>1
    <3>2. b > d
      BY <1>1, <1>2, <3>1, CommandAssumption
    <3>3. b - d \in 1 .. Len(commanded) /\ b - d < a /\ d + (b - d) = b
      BY <1>1, <1>2, <1>3, <2>1, <3>2
    <3>4. commanded[b - d] = executed[b] /\ clock - commanded[b - d] >= Window
      BY <1>2, <1>3, <3>3
    <3>. QED BY <1>1, <3>1, <3>4, CommandAssumption
  <2>. QED BY <1>1, <1>2, <1>3, <2>1
<1>5. b <= d + a
  <2>1. ASSUME b > d + a PROVE FALSE
    <3>1. a \in 1 .. Len(commanded) /\ d + a \in 1 .. Len(executed) /\ d + a < b
      BY <1>1, <1>2, <1>3, <2>1
    <3>2. commanded[a] = executed[d + a] /\ clock - commanded[a] < Window
          /\ clock - executed[d + a] >= Window
      BY <1>1, <1>2, <1>3, <3>1
    <3>. QED BY <1>1, <3>1, <3>2, CommandAssumption
  <2>. QED BY <1>1, <1>2, <1>3, <2>1
<1>6. b = d + a
  BY <1>1, <1>2, <1>3, <1>4, <1>5
<1>. DEFINE r == Recent(commanded)
            e == Recent(executed)
<1>. USE <1>1
<1>10. /\ r = SubSeq(commanded, Start(commanded, clock), Len(commanded))
       /\ e = SubSeq(executed, Start(executed, clock), Len(executed))
  BY DEF Recent
<1>11. a = Start(commanded, clock) /\ b = Start(executed, clock)
  BY DEF a, b
<1>. HIDE DEF r, e
<1>7. /\ r \in Seq(Nat) /\ Len(r) = Len(commanded) + 1 - a
      /\ \A i \in 1 .. Len(r) : r[i] = commanded[a + i - 1]
      /\ e \in Seq(Nat) /\ Len(e) = Len(executed) + 1 - b
      /\ \A i \in 1 .. Len(e) : e[i] = executed[b + i - 1]
  BY <1>10, <1>11, RecentFacts
<1>8. Len(r) = Len(e)
  BY <1>1, <1>2, <1>3, <1>6, <1>7
<1>9. ASSUME NEW i \in 1 .. Len(r) PROVE r[i] = e[i]
  <2>1. a + i - 1 \in 1 .. Len(commanded) /\ d + (a + i - 1) = b + i - 1
    BY <1>1, <1>2, <1>3, <1>6, <1>7
  <2>. QED BY <1>2, <1>7, <1>8, <2>1
<1>. QED BY <1>6, <1>7, <1>8, <1>9, SeqEqual DEF r, e, a, b, d

LEMMA CeilingStep == CeilingInv /\ [CommandNext]_commandVars => CeilingInv'
<1>. SUFFICES ASSUME CeilingInv, [CommandNext]_commandVars PROVE CeilingInv'
  OBVIOUS
<1>1. /\ clock \in Nat /\ commanded \in Seq(Nat) /\ executed \in Seq(Nat)
      /\ Len(commanded) \in Nat /\ Len(executed) \in Nat
      /\ \A i \in 1 .. Len(executed) : executed[i] \in Nat
      /\ First(commanded) = Start(commanded, clock) /\ First(executed) = Start(executed, clock)
      /\ RateMax \in Nat /\ Window \in Nat
      /\ Recent(commanded) = SubSeq(commanded, Start(commanded, clock), Len(commanded))
      /\ Recent(executed) = SubSeq(executed, Start(executed, clock), Len(executed))
  BY LenProperties, CommandAssumption DEF CeilingInv, First, Start, Recent
<1>2. /\ Recent(commanded) = Recent(executed) /\ Recent(commanded) \in Seq(Nat)
      /\ First(executed) = Uncounted + First(commanded)
      /\ Len(Recent(commanded)) \in Nat
  BY SameRecent, LenProperties
<1>3. /\ First(commanded) \in 1 .. Len(commanded) + 1
      /\ First(executed) \in 1 .. Len(executed) + 1
      /\ \A i \in 1 .. Len(executed) : i < First(executed) => clock - executed[i] >= Window
      /\ Len(Recent(commanded)) = Len(commanded) + 1 - First(commanded)
      /\ \A i \in 1 .. Len(Recent(commanded)) : Recent(commanded)[i] = commanded[First(commanded) + i - 1]
      /\ Len(Recent(executed)) = Len(executed) + 1 - First(executed)
  <2>. DEFINE f == Start(commanded, clock)
              g == Start(executed, clock)
  <2>1. /\ f \in 1 .. Len(commanded) + 1 /\ g \in 1 .. Len(executed) + 1
        /\ \A i \in 1 .. Len(executed) : i < g => clock - executed[i] >= Window
    BY <1>1, StartFacts
  <2>2. LET r == SubSeq(commanded, f, Len(commanded)) IN
        Len(r) = Len(commanded) + 1 - f /\ \A i \in 1 .. Len(r) : r[i] = commanded[f + i - 1]
    BY <1>1, RecentFacts
  <2>3. LET r == SubSeq(executed, g, Len(executed)) IN Len(r) = Len(executed) + 1 - g
    BY <1>1, RecentFacts
  <2>. HIDE DEF f, g
  <2>. QED BY <1>1, <2>1, <2>2, <2>3 DEF f, g
<1>4. CASE commanded' = executed' /\ executed' \in Seq(Nat) /\ Len(executed') <= RateMax /\ clock' = clock
  <2>1. Len(executed') \in Nat /\ First(executed)' = Start(executed', clock')
    BY <1>4, LenProperties DEF First, Start
  <2>2. Len(Recent(executed)') = Len(executed') + 1 - Start(executed', clock')
        /\ Start(executed', clock') \in 1 .. Len(executed') + 1
    BY <1>1, <1>4, <2>1, RecentFacts, StartFacts DEF Recent
  <2>3. Uncounted' = 0
    BY <1>4, <2>1 DEF Uncounted
  <2>. QED BY <1>1, <1>4, <2>1, <2>2, <2>3 DEF CeilingInv
<1>5. CASE RunCommand
  <2>1. CASE PolicyAllows(Current) /\ UnderCeiling
    <3>1. /\ commanded' = Append(Recent(commanded), clock) /\ executed' = Append(Recent(executed), clock)
          /\ Len(Recent(commanded)) < RateMax /\ clock' = clock
      BY <1>5, <2>1 DEF RunCommand, UnderCeiling
    <3>2. commanded' \in Seq(Nat) /\ Len(commanded') = Len(Recent(commanded)) + 1 /\ commanded' = executed'
      BY <1>1, <1>2, <3>1, AppendProperties
    <3>. QED BY <1>1, <1>2, <1>4, <3>1, <3>2
  <2>2. CASE ~(PolicyAllows(Current) /\ UnderCeiling)
    <3>1. executed' = executed /\ clock' = clock
          /\ (commanded' = commanded \/ commanded' = Recent(commanded))
      BY <1>5, <2>2 DEF RunCommand
    <3>2. Recent(executed)' = Recent(executed)
      BY <3>1 DEF Recent, First
    <3>3. CASE commanded' = commanded
      BY <3>1, <3>2, <3>3 DEF CeilingInv, Uncounted
    <3>4. CASE commanded' = Recent(commanded)
      <4>1. Uncounted' = Uncounted + First(commanded) - 1 /\ Uncounted \in Nat
            /\ Len(executed) = Uncounted + Len(commanded)
        <5>1. Len(commanded') = Len(commanded) + 1 - First(commanded) /\ First(commanded) \in Int
          BY <1>1, <1>3, <3>4
        <5>2. Uncounted' = Len(executed) - Len(commanded')
          BY <3>1 DEF Uncounted
        <5>. QED BY <1>1, <5>1, <5>2 DEF Uncounted, CeilingInv
      <4>2. Uncounted' \in Nat
        BY <1>3, <4>1
      <4>3. \A i \in 1 .. Uncounted' : clock' - executed'[i] >= Window
        BY <1>1, <1>2, <1>3, <3>1, <4>1, SMTT(60)
      <4>4. ASSUME NEW i \in 1 .. Len(commanded') PROVE commanded'[i] = executed'[Uncounted' + i]
        <5>. DEFINE f == First(commanded)
        <5>1. i \in 1 .. Len(Recent(commanded)) /\ f \in 1 .. Len(commanded) + 1
              /\ Len(Recent(commanded)) = Len(commanded) + 1 - f
          BY <1>3, <3>4
        <5>2. Recent(commanded)[i] = commanded[f + i - 1]
          BY <1>3, <5>1
        <5>. HIDE DEF f
        <5>3. f + i - 1 \in 1 .. Len(commanded)
          BY <1>1, <5>1
        <5>4. Uncounted' + i = Uncounted + (f + i - 1)
          BY <4>1, <5>1 DEF f
        <5>. QED BY <3>1, <3>4, <5>2, <5>3, <5>4 DEF CeilingInv
      <4>. QED BY <1>1, <1>2, <3>1, <3>2, <3>4, <4>2, <4>3, <4>4 DEF CeilingInv
    <3>. QED BY <3>1, <3>3, <3>4
  <2>. QED BY <2>1, <2>2
<1>6. CASE DaemonRestart
  <2>1. /\ commanded' = executed' /\ executed' = <<>> /\ clock' = clock
        /\ executed' \in Seq(Nat) /\ Len(executed') = 0
    BY <1>6, EmptySeq DEF DaemonRestart
  <2>. QED BY <1>1, <1>4, <2>1
<1>7. CASE MinutePasses
  <2>1. clock' = clock + 1 /\ commanded' = commanded /\ executed' = executed
    BY <1>7 DEF MinutePasses
  <2>2. /\ Uncounted' = Uncounted /\ Uncounted \in Nat
        /\ \A i \in 1 .. Uncounted : i \in 1 .. Len(executed)
    BY <1>1, <2>1 DEF Uncounted, CeilingInv
  <2>3. \A i \in 1 .. Uncounted : clock' - executed'[i] >= Window
    <3>1. \A t \in Nat : clock - t >= Window => clock + 1 - t >= Window
      BY <1>1
    <3>. SUFFICES ASSUME NEW i \in 1 .. Uncounted PROVE clock' - executed'[i] >= Window
      OBVIOUS
    <3>2. clock - executed[i] >= Window /\ executed[i] \in Nat
      BY <1>1, <2>2 DEF CeilingInv
    <3>3. clock + 1 - executed[i] >= Window
      BY <3>1, <3>2
    <3>. QED BY <1>1, <2>1, <3>2, <3>3
  <2>. DEFINE a == Start(executed, clock)
              b == Start(executed, clock')
  <2>4. /\ a \in 1 .. Len(executed) + 1 /\ b \in 1 .. Len(executed) + 1
        /\ \A i \in 1 .. Len(executed) : i < a => clock - executed[i] >= Window
        /\ b <= Len(executed) => clock' - executed[b] < Window
        /\ Len(Recent(executed)) = Len(executed) + 1 - a
        /\ Len(Recent(executed)') = Len(executed) + 1 - b
    <3>1. Recent(executed)' = SubSeq(executed, Start(executed, clock'), Len(executed)) /\ clock' \in Nat
      BY <1>1, <2>1 DEF Recent, First, Start
    <3>. QED BY <1>1, <3>1, StartFacts, RecentFacts
  <2>. HIDE DEF a, b
  <2>5. b >= a
    <3>1. ASSUME b < a PROVE FALSE
      <4>1. b \in 1 .. Len(executed) /\ b <= Len(executed)
        BY <1>1, <2>4, <3>1
      <4>2. clock - executed[b] >= Window /\ clock' - executed[b] < Window /\ executed[b] \in Nat
        BY <1>1, <2>4, <3>1, <4>1
      <4>. QED BY <1>1, <2>1, <4>2
    <3>. QED BY <1>1, <2>4, <3>1
  <2>6. Len(Recent(executed)') <= RateMax
    BY <1>1, <2>4, <2>5 DEF CeilingInv
  <2>. QED BY <1>1, <2>1, <2>2, <2>3, <2>6 DEF CeilingInv
<1>8. CASE UNCHANGED <<commanded, executed, clock>>
  BY <1>8 DEF CeilingInv, Uncounted, Recent, First
<1>. QED BY <1>5, <1>6, <1>7, <1>8
     DEF CommandNext, PollCommands, ReportCommand, EditPolicy, commandVars

-----------------------------------------------------------------------------
(* The replay cache stays within its bound: its order is a linear one, so  *)
(* there is a first entry to evict.                                        *)
Linear(order, S) ==
  /\ order \subseteq S \X S
  /\ \A k \in S : <<k, k>> \notin order
  /\ \A k, l \in S : k # l => <<k, l>> \in order \/ <<l, k>> \in order
  /\ \A k, l, m \in S : <<k, l>> \in order /\ <<l, m>> \in order => <<k, m>> \in order

BoundInv ==
  /\ now \in 1 .. MaxNow
  /\ seen \in [Keys -> 0 .. now] /\ last \in [Keys -> 0 .. now]
  /\ forgotten \subseteq Keys /\ replayed \subseteq Keys
  /\ Cardinality(Entries(seen)) <= MaxEntries
  /\ Linear(before, Entries(seen))

LEMMA LinearRestricted ==
  ASSUME NEW order, NEW S, Linear(order, S), NEW T \in SUBSET S
  PROVE  Linear(order \cap (T \X T), T)
BY DEF Linear

LEMMA BoundStep == BoundInv /\ [ReplayNext]_replayVars => BoundInv'
<1>. SUFFICES ASSUME BoundInv, [ReplayNext]_replayVars PROVE BoundInv'
  OBVIOUS
<1>. USE ReplayAssumption DEF Never
<1>1. ASSUME NEW k \in Keys, NEW ts, Accept(k, ts) PROVE BoundInv'
  <2>. DEFINE kept == Entries(Swept(k))
              order == OrderWith(k)
              all == Entries(seen) \cup {k}
  <2>1. /\ now' = now /\ last' = [last EXCEPT ![k] = now]
        /\ forgotten' = (forgotten \ {k}) \cup Surplus(k)
        /\ replayed' = replayed \/ replayed' = replayed \cup {k}
        /\ seen' = [l \in Keys |-> IF l \in Surplus(k) THEN 0 ELSE Swept(k)[l]]
        /\ before' = order \cap (Entries(seen') \X Entries(seen'))
    BY <1>1 DEF Accept
  <2>2. /\ now \in 1 .. MaxNow /\ now # 0 /\ MaxEntries \in Nat \ {0} /\ IsFiniteSet(Keys)
        /\ seen \in [Keys -> 0 .. now]
    BY DEF BoundInv
  <2>3. Swept(k) \in [Keys -> 0 .. now] /\ Swept(k)[k] = now
        /\ \A l \in Keys : l # k /\ Swept(k)[l] # 0 => seen[l] # 0
    BY <2>2 DEF Swept
  <2>4. kept \subseteq all /\ k \in kept /\ all \subseteq Keys
    BY <2>2, <2>3 DEF Entries
  <2>5. Linear(order, all)
    <3>1. Linear(before, Entries(seen))
      BY DEF BoundInv
    <3>2. CASE seen[k] = 0
      <4>1. order = before \cup (Entries(seen) \X {k}) /\ k \notin Entries(seen)
        BY <3>2 DEF OrderWith, Entries
      <4>. HIDE DEF order
      <4>. QED BY <3>1, <4>1 DEF Linear
    <3>3. CASE seen[k] # 0
      <4>1. order = before /\ all = Entries(seen)
        BY <3>3 DEF OrderWith, Entries
      <4>. QED BY <3>1, <4>1
    <3>. QED BY <3>2, <3>3
  <2>6. IsFiniteSet(kept) /\ Cardinality(kept) \in Nat /\ Cardinality(kept) <= MaxEntries + 1
    <3>1. IsFiniteSet(Entries(seen)) /\ Cardinality(Entries(seen)) <= MaxEntries
          /\ Cardinality(Entries(seen)) \in Nat
      BY <2>2, FS_Subset, FS_CardinalityType DEF Entries, BoundInv
    <3>2. IsFiniteSet(all) /\ Cardinality(all) <= MaxEntries + 1 /\ Cardinality(all) \in Nat
      <4>1. IsFiniteSet(all) /\ Cardinality(all) \in {Cardinality(Entries(seen)), Cardinality(Entries(seen)) + 1}
        BY <3>1, FS_AddElement
      <4>. HIDE DEF all
      <4>. QED BY <2>2, <3>1, <4>1
    <3>3. IsFiniteSet(kept) /\ Cardinality(kept) <= Cardinality(all)
      BY <2>4, <3>2, FS_Subset
    <3>. QED BY <2>2, <3>2, <3>3, FS_CardinalityType
  <2>. HIDE DEF kept, order, all
  <2>7. Surplus(k) = {l \in kept : Cardinality(kept) > MaxEntries /\ \A m \in kept \ {l} : <<l, m>> \in order}
    BY DEF Surplus, kept, order
  <2>8. Entries(seen') = kept \ Surplus(k)
    BY <2>1, <2>3 DEF Entries, kept
  <2>9. Cardinality(Entries(seen')) <= MaxEntries
    <3>1. CASE Cardinality(kept) <= MaxEntries
      BY <2>2, <2>6, <2>7, <2>8, <3>1, FS_EmptySet, kept \ {} = kept
    <3>2. CASE Cardinality(kept) > MaxEntries
      <4>1. Linear(order \cap (kept \X kept), kept)
        BY <2>4, <2>5, LinearRestricted
      <4>2. PICK l \in kept : \A m \in kept \ {l} : <<l, m>> \in order \cap (kept \X kept)
        <5>. DEFINE within == order \cap (kept \X kept)
        <5>1. /\ \A a \in kept : <<a, a>> \notin within
              /\ \A a, b \in kept : a # b => <<a, b>> \in within \/ <<b, a>> \in within
              /\ \A a, b, c \in kept : <<a, b>> \in within /\ <<b, c>> \in within => <<a, c>> \in within
          BY <4>1 DEF Linear
        <5>2. kept # {} /\ IsFiniteSet(kept)
          BY <2>4, <2>6
        <5>. HIDE DEF within
        <5>3. \E a \in kept : \A b \in kept \ {a} : <<a, b>> \in within
          BY <5>1, <5>2, FirstOfOrder
        <5>. QED BY <5>3 DEF within
      <4>3. l \in Surplus(k)
        BY <2>7, <3>2, <4>2
      <4>4. Entries(seen') \in SUBSET (kept \ {l})
        BY <2>8, <4>3
      <4>5. IsFiniteSet(kept \ {l}) /\ Cardinality(kept \ {l}) = Cardinality(kept) - 1
        BY <2>6, FS_RemoveElement
      <4>6. Cardinality(Entries(seen')) <= Cardinality(kept \ {l}) /\ IsFiniteSet(Entries(seen'))
        BY <4>4, <4>5, FS_Subset
      <4>. QED BY <2>2, <2>6, <4>5, <4>6, FS_CardinalityType
    <3>. QED BY <2>2, <2>6, <3>1, <3>2
  <2>10. Linear(before', Entries(seen'))
    <3>1. Entries(seen') \in SUBSET all
      BY <2>4, <2>8
    <3>. QED BY <2>1, <2>5, <3>1, LinearRestricted
  <2>11. seen' \in [Keys -> 0 .. now'] /\ last' \in [Keys -> 0 .. now']
    <3>1. seen' \in [Keys -> 0 .. now]
      BY <2>1, <2>2, <2>3
    <3>2. last' \in [Keys -> 0 .. now]
      BY <2>1, <2>2 DEF BoundInv
    <3>. QED BY <2>1, <3>1, <3>2
  <2>12. forgotten' \subseteq Keys /\ replayed' \subseteq Keys
    BY <2>1, <2>4, <2>7 DEF BoundInv
  <2>. QED BY <2>1, <2>2, <2>9, <2>10, <2>11, <2>12 DEF BoundInv
<1>2. CASE Restart
  <2>1. /\ seen' = [k \in Keys |-> 0] /\ before' = {} /\ UNCHANGED <<now, last, replayed>>
        /\ forgotten' = forgotten \cup Entries(seen)
    BY <1>2 DEF Restart
  <2>2. Entries(seen') = {}
    BY <2>1 DEF Entries
  <2>3. Cardinality(Entries(seen')) <= MaxEntries /\ Linear(before', Entries(seen'))
    BY <2>1, <2>2, FS_EmptySet DEF Linear
  <2>. QED BY <2>1, <2>3 DEF BoundInv, Entries
<1>3. CASE Tick
  BY <1>3 DEF Tick, BoundInv
<1>4. CASE UNCHANGED replayVars
  BY <1>4 DEF replayVars, BoundInv
<1>. QED BY <1>1, <1>2, <1>3, <1>4 DEF ReplayNext

LEMMA BoundIsReplayType == BoundInv => ReplayTypeOK
<1>. SUFFICES ASSUME BoundInv PROVE ReplayTypeOK
  OBVIOUS
<1>1. \A k, l \in Entries(seen) : k # l => (<<k, l>> \in before) # (<<l, k>> \in before)
  BY DEF BoundInv, Linear
<1>. QED BY <1>1 DEF BoundInv, Linear, ReplayTypeOK

(* Polled commands and replayed frames, side by side with everything else  *)
(* that reaches the device.                                                *)
Admitted == OfferInv /\ CeilingInv /\ BoundInv

LEMMA AdmittedInit == AreasInit => Admitted
<1>. SUFFICES ASSUME AreasInit PROVE Admitted
  OBVIOUS
<1>1. CommandInit /\ ReplayInit
  BY DEF AreasInit
<1>2. OfferInv
  BY <1>1, EmptySeq DEF CommandInit, OfferInv, Verdicts
<1>3. CeilingInv
  <2>1. /\ clock = 0 /\ commanded = <<>> /\ executed = <<>>
        /\ <<>> \in Seq(Nat) /\ Len(<<>>) = 0 /\ 1 .. 0 = {}
    BY <1>1, EmptySeq DEF CommandInit
  <2>2. Uncounted = 0
    BY <2>1 DEF Uncounted
  <2>3. Len(SubSeq(executed, Start(executed, clock), Len(executed))) = 1 - Start(executed, clock)
        /\ Start(executed, clock) \in 1 .. 1
    <3>1. executed \in Seq(Nat) /\ clock \in Nat /\ Len(executed) = 0
      BY <2>1
    <3>2. Start(executed, clock) \in 1 .. 0 + 1
      BY <3>1, StartFacts
    <3>3. Len(SubSeq(executed, Start(executed, clock), Len(executed))) = 0 + 1 - Start(executed, clock)
      BY <3>1, RecentFacts
    <3>. QED BY <3>2, <3>3
  <2>4. Len(Recent(executed)) <= RateMax
    BY <2>1, <2>3, CommandAssumption DEF Recent, First, Start
  <2>. QED BY <2>1, <2>2, <2>4 DEF CeilingInv
<1>4. BoundInv
  <2>1. Entries(seen) = {}
    BY <1>1 DEF ReplayInit, Entries
  <2>2. Cardinality(Entries(seen)) <= MaxEntries
    BY <2>1, FS_EmptySet, ReplayAssumption
  <2>. QED BY <1>1, <2>1, <2>2, ReplayAssumption DEF ReplayInit, BoundInv, Linear, Never
<1>. QED BY <1>2, <1>3, <1>4 DEF Admitted

LEMMA AreasStep ==
  [AreasNext]_areaVars => [CommandNext]_commandVars /\ [ReplayNext]_replayVars
BY DEF AreasNext, InChannel, InCommands, areaVars

(* Whatever the console queues and the network repeats, however polls,     *)
(* lost reports, edits of the policy and restarts follow each other: no    *)
(* command above the ceiling of a minute, none again without a loss, and   *)
(* the replay cache within its bound.                                      *)
THEOREM CommandsAlwaysHold == AreasSpec => []CommandsHold
<1>1. Admitted /\ [AreasNext]_areaVars => Admitted'
  BY AreasStep, OfferStep, CeilingStep, BoundStep DEF Admitted
<1>2. Admitted => CommandsHold
  BY BoundIsReplayType
     DEF Admitted, OfferInv, CeilingInv, CommandsHold, CeilingHolds, NoRerunWithoutLoss
<1>. QED BY <1>1, <1>2, AdmittedInit, PTL DEF AreasSpec

-----------------------------------------------------------------------------
(* Policy decisions: the explanation and the gate find the same rule.      *)
Policy == [rules : Seq(Rule), default : {"allow", "deny"}, tier : Tiers]

LEMMA ExplainIsGate ==
  ASSUME NEW policy \in Policy, NEW tool, NEW cmd \in SUBSET Patterns,
         policy.tier # "prompt", policy.rules = <<>> \/ cmd = {}
  PROVE  Explain(policy, tool, cmd) = Gate(policy, tool, cmd)
<1>. DEFINE hit == Matching(policy.rules, tool)
<1>1. CASE policy.rules = <<>>
  <2>1. Tier(policy, tool) \in {"allow", "deny", "confirm"}
    BY DEF Tier, Policy, Tiers, Effects
  <2>. QED BY <1>1, <2>1 DEF Explain, Gate, Check
<1>2. CASE policy.rules # <<>> /\ hit = {}
  <2>1. Effect(policy, tool) = policy.default /\ policy.default \in {"allow", "deny"}
    BY <1>2 DEF Effect, Policy
  <2>2. ShellVerdict({}) = "allow"
    BY DEF ShellVerdict
  <2>. QED BY <1>2, <2>1, <2>2 DEF Explain, ExplainRules, Gate, Check
<1>3. CASE policy.rules # <<>> /\ hit # {}
  <2>1. /\ policy.rules \in Seq(Rule) /\ DOMAIN policy.rules = 1 .. Len(policy.rules)
        /\ Len(policy.rules) \in Nat /\ \A i \in DOMAIN policy.rules : policy.rules[i] \in Rule
    BY LenProperties DEF Policy
  <2>2. hit \in SUBSET Nat /\ hit \subseteq DOMAIN policy.rules
    BY <2>1 DEF Matching
  <2>. HIDE DEF hit
  <2>3. Min(hit) \in hit
    BY <1>3, <2>2, MinIsSmallest
  <2>. DEFINE effect == policy.rules[Min(hit)].effect
  <2>4. effect \in Effects
    BY <2>1, <2>2, <2>3 DEF Rule
  <2>5. Effect(policy, tool) = effect
    BY <1>3 DEF Effect, hit
  <2>6. ExplainRules(policy, tool) = IF effect = "prompt" THEN "confirm" ELSE effect
    BY <1>3 DEF ExplainRules, hit, Min
  <2>. HIDE DEF effect
  <2>7. ShellVerdict({}) = "allow"
    BY DEF ShellVerdict
  <2>. QED BY <1>3, <2>4, <2>5, <2>6, <2>7 DEF Explain, Gate, Check, Effects
<1>. QED BY <1>1, <1>2, <1>3

(* A shift to the left doubles.                                            *)
LEMMA PowerFacts ==
  /\ \A n \in 0 .. Bits : Power[n] \in Nat \ {0}
  /\ Power[0] = 1
  /\ \A n \in 1 .. Bits : Power[n] = 2 * Power[n - 1]
<1>. DEFINE V == Nat \ {0}
            step == [v \in (1 .. Bits) \X V |-> 2 * v[2]]
            Body(f) == [n \in 0 .. Bits |-> IF n = 0 THEN 1 ELSE 2 * f[n - 1]]
<1>1. Bits \in Nat
  BY RulesAssumption
<1>2. 1 \in V /\ step \in [(1 .. Bits) \X V -> V]
  <2>1. \A v \in V : 2 * v \in V
    OBVIOUS
  <2>2. 1 \in V
    OBVIOUS
  <2>. HIDE DEF V
  <2>. QED BY <2>1, <2>2
<1>. HIDE DEF step, V
<1>3. PICK g : Computes(g, V, Bits, 1, step)
  BY <1>1, <1>2, StepByStep
<1>4. ASSUME NEW i \in 1 .. Bits PROVE g[i] = 2 * g[i - 1]
  <2>1. i - 1 \in 0 .. Bits
    BY <1>1
  <2>2. <<i, g[i - 1]>> \in (1 .. Bits) \X V
    BY <1>3, <2>1 DEF Computes
  <2>. QED BY <1>3, <2>2 DEF Computes, step
<1>5. g = Body(g)
  <2>1. ASSUME NEW i \in 0 .. Bits PROVE g[i] = IF i = 0 THEN 1 ELSE 2 * g[i - 1]
    <3>1. i = 0 \/ i \in 1 .. Bits
      BY <1>1
    <3>. QED BY <1>3, <1>4, <3>1 DEF Computes
  <2>. QED BY <1>3, <2>1 DEF Computes
<1>6. Power = Body(Power)
  BY <1>5 DEF Power
<1>7. \A i \in 1 .. Bits : i \in 0 .. Bits /\ i # 0
  BY <1>1
<1>8. Power[0] = 1 /\ \A i \in 1 .. Bits : Power[i] = 2 * Power[i - 1]
  <2>1. 0 \in 0 .. Bits
    BY <1>1
  <2>. QED BY <1>6, <1>7, <2>1
<1>9. Power \in [0 .. Bits -> V]
  <2>1. Power = [i \in 0 .. Bits |-> Power[i]]
    BY <1>6
  <2>2. ASSUME NEW i \in 1 .. Bits, Power[i - 1] \in V PROVE Power[i] \in V
    BY <1>8, <2>2 DEF V
  <2>3. Power[0] \in V
    BY <1>2, <1>8
  <2>. QED BY <1>1, <2>1, <2>2, <2>3, StepsStay
<1>. QED BY <1>8, <1>9 DEF V

LEMMA Halved ==
  ASSUME NEW a \in Nat, NEW p \in Nat \ {0}
  PROVE  (a \div (2 * p)) = ((a \div p) \div 2)
OBVIOUS

LEMMA DivFacts ==
  ASSUME NEW a \in Nat, NEW p \in Nat \ {0}
  PROVE  /\ (a \div p) \in Nat /\ (a % p) \in 0 .. p - 1
         /\ a = p * (a \div p) + (a % p)
OBVIOUS

(* Two bytes have the same high n bits when they agree in each of them.    *)
LEMMA SameBitsAgree ==
  ASSUME NEW a \in Byte, NEW b \in Byte, NEW n \in 0 .. Bits
  PROVE  SameBits(a, b, n) <=>
           \A j \in 1 .. n : (a \div Power[Bits - j]) % 2 = (b \div Power[Bits - j]) % 2
<1>. DEFINE Agree(m) == \A j \in 1 .. m : (a \div Power[Bits - j]) % 2 = (b \div Power[Bits - j]) % 2
            S == {m \in 0 .. n : (a \div Power[Bits - m]) = (b \div Power[Bits - m]) <=> Agree(m)}
<1>1. Bits \in Nat /\ n \in Nat /\ n <= Bits /\ Power[Bits] \in Nat \ {0} /\ a \in Nat /\ b \in Nat
      /\ a < Power[Bits] /\ b < Power[Bits]
  <2>1. Bits \in Nat /\ Power[Bits] \in Nat \ {0}
    BY RulesAssumption, PowerFacts
  <2>. QED BY <2>1 DEF Byte
<1>2. \A m \in 0 .. n : Bits - m \in 0 .. Bits /\ Power[Bits - m] \in Nat \ {0}
  <2>1. \A m \in 0 .. n : Bits - m \in 0 .. Bits
    BY <1>1
  <2>. QED BY <2>1, PowerFacts
<1>3. 0 \in S
  <2>1. Bits - 0 = Bits
    BY <1>1
  <2>2. (a \div Power[Bits]) = 0 /\ (b \div Power[Bits]) = 0
    BY <1>1
  <2>. QED BY <1>1, <2>1, <2>2
<1>4. ASSUME NEW m \in 1 .. n, m - 1 \in S PROVE m \in S
  <2>. DEFINE p == Power[Bits - m]
              u == (a \div p)
              v == (b \div p)
  <2>1. m \in 0 .. n /\ m - 1 \in 0 .. n /\ Bits - m \in 0 .. Bits
        /\ Bits - (m - 1) \in 1 .. Bits /\ (Bits - (m - 1)) - 1 = Bits - m
    BY <1>1
  <2>2. p \in Nat \ {0} /\ Power[Bits - (m - 1)] = 2 * p
    BY <1>2, <2>1, PowerFacts
  <2>3. (a \div Power[Bits - (m - 1)]) = (u \div 2) /\ (b \div Power[Bits - (m - 1)]) = (v \div 2)
    <3>. HIDE DEF p
    <3>1. (a \div (2 * p)) = ((a \div p) \div 2) /\ (b \div (2 * p)) = ((b \div p) \div 2)
      BY <1>1, <2>2, Halved
    <3>. QED BY <2>2, <3>1
  <2>4. u \in Nat /\ v \in Nat
    <3>. HIDE DEF p
    <3>. QED BY <1>1, <2>2, DivFacts
  <2>5. Agree(m) <=> Agree(m - 1) /\ u % 2 = v % 2
    <3>1. \A j \in 1 .. m : j = m \/ j \in 1 .. m - 1
      BY <1>1
    <3>2. \A j \in 1 .. m - 1 : j \in 1 .. m
      BY <1>1
    <3>3. m \in 1 .. m
      BY <1>1
    <3>. QED BY <3>1, <3>2, <3>3
  <2>6. u = v <=> (u \div 2) = (v \div 2) /\ u % 2 = v % 2
    <3>. HIDE DEF u, v
    <3>. QED BY <2>4
  <2>7. (u \div 2) = (v \div 2) <=> Agree(m - 1)
    <3>1. (a \div Power[Bits - (m - 1)]) = (b \div Power[Bits - (m - 1)]) <=> Agree(m - 1)
      BY <1>4
    <3>. HIDE DEF u, v, Agree
    <3>. QED BY <2>3, <3>1
  <2>8. u = v <=> Agree(m)
    <3>. HIDE DEF u, v, Agree
    <3>. QED BY <2>5, <2>6, <2>7
  <2>. HIDE DEF Agree
  <2>. QED BY <2>1, <2>8 DEF S
<1>5. n \in S
  <2>1. 0 .. n \subseteq S
    <3>. HIDE DEF S
    <3>. QED BY <1>1, <1>3, <1>4, UpTo
  <2>. QED BY <1>1, <2>1
<1>6. SameBits(a, b, n) <=> (a \div Power[Bits - n]) = (b \div Power[Bits - n])
  <2>. DEFINE p == Power[Bits - n]
  <2>1. n \in 0 .. n /\ p \in Nat \ {0}
    BY <1>1, <1>2
  <2>2. (a \div p) \in Nat /\ (b \div p) \in Nat
    <3>. HIDE DEF p
    <3>. QED BY <1>1, <2>1, DivFacts
  <2>3. \A u, v \in Nat : u * p = v * p <=> u = v
    <3>. HIDE DEF p
    <3>. QED BY <2>1
  <2>. HIDE DEF p
  <2>. QED BY <2>2, <2>3 DEF SameBits, HighBits, p
<1>. HIDE DEF Agree
<1>7. SameBits(a, b, n) <=> Agree(n)
  BY <1>5, <1>6 DEF S
<1>. QED BY <1>7 DEF Agree

(* Up to its full length a byte is its bits. *)
LEMMA ByteIsItsBits ==
  ASSUME NEW a \in Byte, NEW b \in Byte
  PROVE  a = b <=> SameBits(a, b, Bits)
<1>1. Bits - Bits = 0 /\ Power[0] = 1 /\ a \in Nat /\ b \in Nat
  <2>1. Bits \in Nat /\ Power[Bits] \in Nat
    BY RulesAssumption, PowerFacts
  <2>. QED BY <2>1, PowerFacts DEF Byte
<1>2. (a \div 1) = a /\ (b \div 1) = b /\ a * 1 = a /\ b * 1 = b
  BY <1>1
<1>. QED BY <1>1, <1>2 DEF SameBits, HighBits

(* Where the k-th bit is, and which numbers are up to `bits`. *)
LEMMA BitPlaces ==
  ASSUME NEW bits \in Nat, NEW w \in Nat \ {0}, NEW d \in Nat, NEW j \in 1 .. w
  PROVE  /\ d * w + j \in Nat \ {0}
         /\ (((d * w + j) - 1) \div w) = d
         /\ ((d * w + j) - 1) % w = j - 1
         /\ d * w + j <= bits <=> d < (bits \div w) \/ (d = (bits \div w) /\ j <= bits % w)
<1>. DEFINE q == (bits \div w)
            r == bits % w
            e == d * w
            f == q * w
<1>1. q \in Nat /\ r \in 0 .. w - 1 /\ bits = f + r
  <2>1. q \in Nat /\ r \in 0 .. w - 1 /\ bits = w * q + r
    BY DivFacts
  <2>. HIDE DEF q, r
  <2>. QED BY <2>1
<1>2. e \in Nat /\ f \in Nat
  <2>. HIDE DEF q
  <2>. QED BY <1>1
<1>3. /\ d < q => e + w <= f
      /\ d = q => e = f
      /\ d > q => f + w <= e
  <2>. HIDE DEF q
  <2>1. d < q => (d + 1) * w <= q * w
    BY <1>1
  <2>2. d > q => (q + 1) * w <= d * w
    BY <1>1
  <2>3. (d + 1) * w = d * w + w /\ (q + 1) * w = q * w + w
    BY <1>1
  <2>. QED BY <1>1, <2>1, <2>2, <2>3
<1>4. e + j - 1 \in Nat
  <2>. HIDE DEF e
  <2>. QED BY <1>2
<1>5. ((e + j - 1) \div w) = d /\ (e + j - 1) % w = j - 1
  <2>1. e + j - 1 = w * d + (j - 1) /\ j - 1 \in 0 .. w - 1
    OBVIOUS
  <2>. HIDE DEF e
  <2>. QED BY <1>4, <2>1
<1>6. e + j <= bits <=> d < q \/ (d = q /\ j <= r)
  <2>. HIDE DEF e, f, q, r
  <2>. QED BY <1>1, <1>2, <1>3
<1>7. e + j \in Nat \ {0}
  <2>. HIDE DEF e
  <2>. QED BY <1>2
<1>. QED BY <1>5, <1>6, <1>7

(* Comparing whole bytes and then the bits that remain is comparing the    *)
(* first bits.                                                             *)
LEMMA InCidrIsPrefix ==
  ASSUME NEW ip \in Address, NEW net \in Address, NEW bits \in Prefix
  PROVE  InCidr(ip, net, bits) <=> \A k \in 1 .. bits : BitOf(ip, k) = BitOf(net, k)
<1>. DEFINE q == (bits \div Bits)
            r == bits % Bits
            Agree(i, j) == (ip[i] \div Power[Bits - j]) % 2 = (net[i] \div Power[Bits - j]) % 2
            At(d, j) == d * Bits + j
<1>1. /\ bits \in Nat /\ Bits \in Nat \ {0} /\ Bytes \in Nat \ {0}
      /\ q \in Nat /\ r \in Nat /\ r < Bits /\ bits # Bare
  <2>1. Bits \in Nat \ {0} /\ Bytes \in Nat \ {0} /\ Bare \notin Int
    BY RulesAssumption
  <2>2. Bytes * Bits \in Nat
    BY <2>1
  <2>3. bits \in Nat
    BY <2>2 DEF Prefix
  <2>4. (bits \div Bits) \in Nat /\ bits % Bits \in 0 .. Bits - 1
    BY <2>1, <2>3, DivFacts
  <2>5. q \in Nat /\ r \in 0 .. Bits - 1
    BY <2>4
  <2>. HIDE DEF q, r
  <2>6. r \in Nat /\ r < Bits
    BY <2>1, <2>5
  <2>. QED BY <2>1, <2>3, <2>5, <2>6
<1>2. ASSUME NEW d \in Nat, NEW j \in 1 .. Bits
      PROVE  /\ At(d, j) \in Nat \ {0}
             /\ At(d, j) <= bits <=> d < q \/ (d = q /\ j <= r)
             /\ (BitOf(ip, At(d, j)) = BitOf(net, At(d, j))) <=> Agree(d + 1, j)
  <2>1. /\ At(d, j) \in Nat \ {0}
        /\ ((At(d, j) - 1) \div Bits) = d /\ (At(d, j) - 1) % Bits = j - 1
        /\ At(d, j) <= bits <=> d < q \/ (d = q /\ j <= r)
    <3>. HIDE DEF q, r, At
    <3>1. j \in 1 .. Bits /\ Bits \in Nat \ {0} /\ bits \in Nat /\ d \in Nat
      BY <1>1
    <3>2. /\ d * Bits + j \in Nat \ {0}
          /\ (((d * Bits + j) - 1) \div Bits) = d
          /\ ((d * Bits + j) - 1) % Bits = j - 1
          /\ d * Bits + j <= bits <=> d < (bits \div Bits) \/ (d = (bits \div Bits) /\ j <= bits % Bits)
      BY <3>1, BitPlaces, Zenon
    <3>. QED BY <3>2 DEF q, r, At
  <2>2. (Bits - 1) - (j - 1) = Bits - j
    BY <1>1
  <2>. HIDE DEF At, q, r
  <2>3. /\ BitOf(ip, At(d, j)) = (ip[d + 1] \div Power[Bits - j]) % 2
        /\ BitOf(net, At(d, j)) = (net[d + 1] \div Power[Bits - j]) % 2
    BY <2>1, <2>2 DEF BitOf
  <2>. QED BY <2>1, <2>3
<1>3. ASSUME NEW k \in 1 .. bits
      PROVE  \E d \in Nat, j \in 1 .. Bits : k = At(d, j)
  <2>. DEFINE d == ((k - 1) \div Bits)
              j == ((k - 1) % Bits) + 1
  <2>1. k - 1 \in Nat
    BY <1>1
  <2>2. d \in Nat /\ (k - 1) % Bits \in 0 .. Bits - 1 /\ k - 1 = Bits * d + ((k - 1) % Bits)
    BY <1>1, <2>1, DivFacts
  <2>3. j \in 1 .. Bits /\ k = At(d, j)
    <3>. HIDE DEF d
    <3>. QED BY <1>1, <2>1, <2>2
  <2>. QED BY <2>2, <2>3
<1>4. bits <= Bytes * Bits
  <2>1. Bytes * Bits \in Nat
    BY <1>1
  <2>. QED BY <1>1, <2>1 DEF Prefix
<1>5. q <= Bytes /\ (r > 0 => q + 1 <= Bytes)
  <2>1. bits = Bits * q + r
    BY <1>1, DivFacts
  <2>2. ASSUME q > Bytes PROVE FALSE
    <3>1. (Bytes + 1) * Bits <= q * Bits
      <4>. HIDE DEF q, r
      <4>. QED BY <1>1, <2>2
    <3>2. (Bytes + 1) * Bits = Bytes * Bits + Bits /\ Bytes * Bits \in Nat
      BY <1>1
    <3>3. Bits * q = q * Bits /\ q * Bits \in Nat
      <4>. HIDE DEF q, r
      <4>. QED BY <1>1
    <3>. HIDE DEF q, r
    <3>. QED BY <1>1, <1>4, <2>1, <3>1, <3>2, <3>3
  <2>3. ASSUME q = Bytes, r > 0 PROVE FALSE
    <3>1. Bits * q = Bytes * Bits /\ Bytes * Bits \in Nat
      <4>. HIDE DEF q, r
      <4>. QED BY <1>1, <2>3
    <3>. HIDE DEF q, r
    <3>. QED BY <1>1, <1>4, <2>1, <2>3, <3>1
  <2>. HIDE DEF q, r
  <2>. QED BY <1>1, <2>2, <2>3
<1>. HIDE DEF At
<1>6. \A i \in 1 .. Bytes : ip[i] \in Byte /\ net[i] \in Byte
  BY DEF Address
<1>7. InNet(ip, net, bits) <=>
        /\ \A i \in 1 .. q : ip[i] = net[i]
        /\ r > 0 => SameBits(ip[q + 1], net[q + 1], r)
  BY <1>1 DEF InNet
<1>. HIDE DEF q, r
<1>8. ASSUME NEW i \in 1 .. q
      PROVE  ip[i] = net[i] <=> \A j \in 1 .. Bits : Agree(i, j)
  <2>1. ip[i] \in Byte /\ net[i] \in Byte /\ Bits \in 0 .. Bits
    BY <1>1, <1>5, <1>6
  <2>. QED BY <2>1, ByteIsItsBits, SameBitsAgree
<1>9. ASSUME r > 0
      PROVE  SameBits(ip[q + 1], net[q + 1], r) <=> \A j \in 1 .. r : Agree(q + 1, j)
  <2>1. q + 1 \in 1 .. Bytes /\ r \in 0 .. Bits
    BY <1>1, <1>5, <1>9
  <2>2. ip[q + 1] \in Byte /\ net[q + 1] \in Byte
    BY <1>6, <2>1
  <2>. QED BY <2>1, <2>2, SameBitsAgree
<1>10. ASSUME InNet(ip, net, bits), NEW k \in 1 .. bits PROVE BitOf(ip, k) = BitOf(net, k)
  <2>1. PICK d \in Nat, j \in 1 .. Bits : k = At(d, j)
    BY <1>3
  <2>2. d < q \/ (d = q /\ j <= r)
    BY <1>1, <1>2, <2>1
  <2>3. CASE d < q
    <3>1. d + 1 \in 1 .. q
      BY <1>1, <2>3
    <3>2. Agree(d + 1, j)
      BY <1>7, <1>10, <3>1
    <3>. QED BY <1>2, <2>1, <3>2
  <2>4. CASE d = q /\ j <= r
    <3>1. r > 0 /\ j \in 1 .. r
      BY <1>1, <2>4
    <3>2. Agree(q + 1, j)
      BY <1>7, <1>9, <1>10, <3>1
    <3>. QED BY <1>2, <2>1, <2>4, <3>2
  <2>. QED BY <2>2, <2>3, <2>4
<1>11. ASSUME \A k \in 1 .. bits : BitOf(ip, k) = BitOf(net, k) PROVE InNet(ip, net, bits)
  <2>1. ASSUME NEW i \in 1 .. q PROVE ip[i] = net[i]
    <3>1. ASSUME NEW j \in 1 .. Bits PROVE Agree(i, j)
      <4>1. i - 1 \in Nat /\ i - 1 < q /\ (i - 1) + 1 = i
        BY <1>1
      <4>2. At(i - 1, j) \in 1 .. bits
        BY <1>1, <1>2, <4>1
      <4>3. Agree((i - 1) + 1, j)
        BY <1>2, <1>11, <4>1, <4>2
      <4>. QED BY <4>1, <4>3
    <3>. QED BY <1>8, <3>1
  <2>2. ASSUME r > 0, NEW j \in 1 .. r PROVE Agree(q + 1, j)
    <3>1. j \in 1 .. Bits /\ j <= r
      BY <1>1
    <3>2. At(q, j) \in 1 .. bits
      BY <1>1, <1>2, <3>1
    <3>. QED BY <1>1, <1>2, <1>11, <3>1, <3>2
  <2>. QED BY <1>7, <1>9, <2>1, <2>2
<1>. QED BY <1>10, <1>11 DEF InCidr

(* For any rules, tools and commands, `policy explain` says of a call what *)
(* the gate decides of it, but for the two exceptions that                 *)
(* ExplainTellsTheTruth names.                                             *)
THEOREM ExplanationIsTrue == RulesSpec => []ExplainTellsTheTruth
<1>. DEFINE Inv == /\ case.kind = "rules" =>
                        /\ case.policy \in Policy /\ case.cmd \in SUBSET Patterns
<1>1. RulesInit => Inv
  <2>. SUFFICES ASSUME RulesInit PROVE Inv
    OBVIOUS
  <2>1. ASSUME NEW rules \in BoundedSeq(Rule, 2) PROVE rules \in Seq(Rule)
    <3>1. PICK n \in 0 .. 2 : rules \in [1 .. n -> Rule]
      BY <2>1 DEF BoundedSeq, SeqOf
    <3>. QED BY <3>1
  <2>2. <<>> \in Seq(Rule)
    BY EmptySeq
  <2>3. CASE \E ip \in Address, net \in Address, bits \in Prefix \cup {Bare} :
               case = [kind |-> "address", ip |-> ip, net |-> net, bits |-> bits]
    BY <2>3
  <2>4. CASE \E rules \in BoundedSeq(Rule, 2), default \in {"allow", "deny"}, tool \in RuleTools,
              cmd \in {{}, {"denied"}} :
               case = [kind |-> "rules", tool |-> tool, cmd |-> cmd,
                       policy |-> [rules |-> rules, default |-> default, tier |-> "unset"]]
    BY <2>1, <2>4 DEF Policy, Tiers, Patterns
  <2>5. CASE \E tier \in Tiers, tool \in RuleTools, cmd \in SUBSET Patterns :
               case = [kind |-> "rules", tool |-> tool, cmd |-> cmd,
                       policy |-> [rules |-> <<>>, default |-> "deny", tier |-> tier]]
    BY <2>2, <2>5 DEF Policy
  <2>. QED BY <2>3, <2>4, <2>5 DEF RulesInit
<1>2. Inv /\ [RulesNext]_case => Inv'
  BY DEF RulesNext
<1>3. Inv => ExplainTellsTheTruth
  BY ExplainIsGate DEF ExplainTellsTheTruth
<1>. QED BY <1>1, <1>2, <1>3, PTL DEF RulesSpec

(* For addresses of any shape, what ipInNet compares is the first bits,    *)
(* and for any rules the explanation is the decision.                      *)
THEOREM PolicyAlwaysMeansWhatItSays == RulesSpec => []PolicyMeansWhatItSays
<1>. DEFINE Inv == case.kind = "address" =>
                     case.ip \in Address /\ case.net \in Address /\ case.bits \in Prefix \cup {Bare}
<1>1. RulesInit => Inv
  BY DEF RulesInit
<1>2. Inv /\ [RulesNext]_case => Inv'
  BY DEF RulesNext
<1>3. Inv => PrefixIsPrefix
  BY InCidrIsPrefix DEF PrefixIsPrefix
<1>. QED BY <1>1, <1>2, <1>3, ExplanationIsTrue, PTL DEF RulesSpec, PolicyMeansWhatItSays
=============================================================================
