------------------------------ MODULE NetFetch ------------------------------
(***************************************************************************)
(* The net tool's fetch (apps/desktop/src/tools/net.js): a host is looked  *)
(* up and every address it has is checked against the blocked ranges, the  *)
(* request goes to a checked address, a redirect begins again with the     *)
(* host it names, and the body is read up to a cap within the time that is *)
(* left.  The name service and the servers are the environment: each       *)
(* lookup of a name may answer differently.                                *)
(***************************************************************************)
EXTENDS Integers, Sequences

CONSTANTS
  Host,          \* the hosts of URLs; some are address literals
  Literal,       \* the addresses of those that are: a function on a part of Host
  BlockedHosts,  \* the hosts refused by name (BLOCKED_HOSTS)
  Addr,          \* addresses: [version |-> 4 or 6, int |-> n]
  Width,         \* the bits of an address of each version
  Ranges,        \* BLOCKED_CIDRS: [version |-> 4 or 6, int |-> n, bits |-> prefix length]
  MaxRedirects,  \* MAX_REDIRECTS
  MaxBytes,      \* MAX_BODY
  Timeout        \* TIMEOUT, in ticks

ASSUME FetchAssumption ==
  /\ "none" \notin Host /\ DOMAIN Literal \subseteq Host /\ BlockedHosts \subseteq Host
  /\ \A h \in DOMAIN Literal : Literal[h] \in Addr
  /\ \A ip \in Addr : ip.int \in Nat
  /\ \A c \in Ranges : c.int \in Nat /\ Width[c.version] \in Nat /\ c.bits \in 0 .. Width[c.version]
  /\ MaxRedirects \in Nat /\ MaxBytes \in Nat \ {0} /\ Timeout \in Nat \ {0}

VARIABLES
  fetch,   \* [at, host, ips, to, left, next, redirects]: the loop of safeFetch and its hop
  spent,   \* ticks since the fetch began; past the deadline they are not counted on
  sent,    \* the chunks' sizes, as the server of this hop sent them
  result   \* what fetch answers: [ok, body, truncated]

fetchVars == <<fetch, spent, sent, result>>

NoHost == "none"
NoAddress == [version |-> 0, int |-> 0]
Unsettled == [ok |-> TRUE, body |-> <<>>, truncated |-> TRUE]
Refused == [ok |-> FALSE, body |-> <<>>, truncated |-> FALSE]

FetchInit ==
  /\ fetch = [at |-> "idle", host |-> CHOOSE h \in Host : TRUE, ips |-> {}, to |-> NoAddress,
              left |-> 0, next |-> NoHost, redirects |-> 0]
  /\ spent = 0 /\ sent = <<>> /\ result = Unsettled
-----------------------------------------------------------------------------
(* How many addresses share a prefix, by the bits that are left.           *)
BlockSize(c) ==
  LET size[n \in 0 .. Width[c.version] - c.bits] == IF n = 0 THEN 1 ELSE 2 * size[n - 1]
  IN size[Width[c.version] - c.bits]
BlockStart(c) == (c.int \div BlockSize(c)) * BlockSize(c)

(* mutant: the range ends one address early *)
MutRangeOf(c) ==
  [version |-> c.version, first |-> BlockStart(c), last |-> BlockStart(c) + BlockSize(c) - 2]

(* The mask of a prefix, and the addresses under it (cidrToRange). *)
RangeOf(c) ==
  [version |-> c.version, first |-> BlockStart(c), last |-> BlockStart(c) + BlockSize(c) - 1]

IsBlockedIp(ip) ==
  \E c \in Ranges : LET r == RangeOf(c) IN
    r.version = ip.version /\ ip.int >= r.first /\ ip.int <= r.last

AssertHostAllowed(h) ==
  h \notin BlockedHosts /\ (h \in DOMAIN Literal => ~IsBlockedIp(Literal[h]))

(* What a lookup may answer: a literal is its own address. *)
Lookup(h) == IF h \in DOMAIN Literal THEN {{Literal[h]}} ELSE (SUBSET Addr) \ {{}}

FetchFails == /\ fetch' = [fetch EXCEPT !.at = "over"]
              /\ result' = Refused
              /\ UNCHANGED sent

(* resolveAndCheck: one blocked address among the answers refuses the host, *)
(* as does a lookup that fails, which any may.                             *)
ResolvedAndChecked(h) == {ips \in Lookup(h) : \A ip \in ips : ~IsBlockedIp(ip)}

FetchUrl(h) ==
  /\ fetch.at = "idle"
  /\ IF AssertHostAllowed(h)
     THEN fetch' = [fetch EXCEPT !.at = "resolve", !.host = h] /\ UNCHANGED <<sent, result>>
     ELSE FetchFails
  /\ UNCHANGED spent

Resolve ==
  /\ fetch.at = "resolve"
  /\ \/ \E ips \in ResolvedAndChecked(fetch.host) :
            /\ fetch' = [fetch EXCEPT !.at = "connect", !.ips = ips]
            /\ UNCHANGED <<sent, result>>
     \/ FetchFails
  /\ UNCHANGED spent

(* connectTo: the first of the checked addresses, in the resolver's order. *)
AddressOf(ips) == ips

Connect ==
  /\ fetch.at = "connect"
  /\ \E ip \in AddressOf(fetch.ips) :
       fetch' = [fetch EXCEPT !.at = "waiting", !.to = ip,
                   !.left = IF Timeout > spent THEN Timeout - spent ELSE 1]
  /\ sent' = <<>>
  /\ UNCHANGED <<spent, result>>

(* The head of an answer: announced = 0 stands for no length given, next   *)
(* is the host its location names, if it has one.                          *)
Responded(announced, next) ==
  /\ fetch.at = "waiting"
  /\ IF announced > MaxBytes THEN FetchFails
     ELSE fetch' = [fetch EXCEPT !.at = "reading", !.next = next] /\ UNCHANGED <<sent, result>>
  /\ UNCHANGED spent

Bytes(s) ==
  LET upTo[n \in 0 .. Len(s)] == IF n = 0 THEN 0 ELSE upTo[n - 1] + s[n]
  IN upTo[Len(s)]

OneMore == fetch.redirects + 1

(* A redirect, once its answer was read: the host is looked up and checked *)
(* here, and again at the top of the loop.                                 *)
Redirected ==
  IF OneMore > MaxRedirects \/ ~AssertHostAllowed(fetch.next)
  THEN fetch' = [fetch EXCEPT !.at = "over"] /\ result' = Refused
  ELSE /\ fetch' = [fetch EXCEPT !.at = "recheck", !.host = fetch.next, !.redirects = OneMore]
       /\ UNCHANGED result

(* What the tool answers; a body as long as the cap counts as cut. *)
FetchAnswers(body, cut) ==
  result' = [ok |-> TRUE, body |-> body, truncated |-> cut \/ Bytes(body) >= MaxBytes]

(* The answer of this hop is settled with the body read so far. *)
HopEnds(body, cut) ==
  IF fetch.next # NoHost THEN Redirected
  ELSE fetch' = [fetch EXCEPT !.at = "over"] /\ FetchAnswers(body, cut)

(* res.on('data'): the chunk that passes the cap is left out and ends it. *)
DataArrives(n) ==
  /\ fetch.at = "reading"
  /\ sent' = Append(sent, n)
  /\ IF Bytes(sent) + n > MaxBytes THEN HopEnds(sent, TRUE) ELSE UNCHANGED <<fetch, result>>
  /\ UNCHANGED spent

DataEnds == /\ fetch.at = "reading"
            /\ HopEnds(sent, FALSE)
            /\ UNCHANGED <<spent, sent>>

Recheck ==
  /\ fetch.at = "recheck"
  /\ \/ /\ ResolvedAndChecked(fetch.host) # {}
        /\ fetch' = [fetch EXCEPT !.at = "resolve"]
        /\ UNCHANGED <<sent, result>>
     \/ FetchFails
  /\ UNCHANGED spent

(* The connection breaks: an error of the request or of the response. *)
ConnectionBreaks == fetch.at \in {"waiting", "reading"} /\ FetchFails /\ UNCHANGED spent

Awaited == fetch.at \in {"waiting", "reading"}

RequestTimesOut == Awaited /\ fetch.left = 0 /\ FetchFails /\ UNCHANGED spent

TimePasses ==
  /\ fetch.at \notin {"idle", "over"}
  /\ IF Awaited THEN fetch.left > 0 /\ fetch' = [fetch EXCEPT !.left = @ - 1]
     ELSE UNCHANGED fetch
  /\ spent' = IF spent < Timeout THEN spent + 1 ELSE spent
  /\ UNCHANGED <<sent, result>>

FetchNext ==
  \/ \E h \in Host : FetchUrl(h)
  \/ Resolve \/ Connect \/ Recheck
  \/ \E n \in {0, MaxBytes, MaxBytes + 1}, h \in Host \cup {NoHost} : Responded(n, h)
  \/ \E n \in 1 .. 2 : DataArrives(n)
  \/ DataEnds \/ ConnectionBreaks \/ RequestTimesOut \/ TimePasses

\* A lookup ends (the resolver has a timeout of its own), timers fire, and
\* nothing is asked of the servers.
FetchSpec == /\ FetchInit /\ [][FetchNext]_fetchVars
             /\ WF_fetchVars(Resolve) /\ WF_fetchVars(Recheck) /\ WF_fetchVars(Connect)
             /\ WF_fetchVars(RequestTimesOut) /\ WF_fetchVars(Awaited /\ TimePasses)
-----------------------------------------------------------------------------
InRange(ip, c) ==
  ip.version = c.version /\ ip.int \div BlockSize(c) = c.int \div BlockSize(c)

(* A request goes to an address of the last lookup of its host, and to     *)
(* none that shares its prefix with a blocked range, whatever the name     *)
(* service answers before and after (net.js:4, "redirects are re-validated *)
(* per hop" in SECURITY.md).                                               *)
RequestsGoWhereChecked ==
  Awaited => /\ fetch.to \in fetch.ips
             /\ \A c \in Ranges : ~InRange(fetch.to, c)

(* The body of an answer is what the server sent, from its beginning, and  *)
(* when it is not all of it the answer says truncated (requestOnce).       *)
BodyIsWholeOrMarked ==
  fetch.at = "over" /\ result.ok =>
    /\ Bytes(result.body) <= MaxBytes
    /\ result.body = SubSeq(sent, 1, Len(result.body))
    /\ ~result.truncated => result.body = sent

(* A fetch comes to an end, over however many redirects it is led.         *)
EveryFetchEnds == fetch.at # "idle" ~> fetch.at = "over"
=============================================================================
