---------------------------- MODULE PolicyRules ----------------------------
(***************************************************************************)
(* What a policy file decides of one call: the rules and their conditions, *)
(* the legacy tiers and the explanation of `remote-agent policy explain`   *)
(* (packages/engine/src/policy.js).  Nothing here has state; a case - an   *)
(* address and a network, or a policy and a call - is picked at the start  *)
(* and every answer about it compared.  Addresses have Bytes bytes of Bits *)
(* bits; conditions other than networks are true or false of a call.       *)
(***************************************************************************)
EXTENDS Integers, Sequences, SequencesExt, FiniteSetsExt, Functions

CONSTANTS
    Bytes, Bits,   \* the shape of an address (4 and 8, or 16 and 8)
    Bare,          \* the prefix length of a network written without one
    KnownTools     \* KNOWN_TOOLS; RuleTools has one more

ASSUME RulesAssumption == Bytes \in Nat \ {0} /\ Bits \in Nat \ {0} /\ Bare \notin Int

VARIABLE case

\* 1 << n
Power[n \in 0..Bits] == IF n = 0 THEN 1 ELSE 2 * Power[n - 1]

Byte == 0..Power[Bits] - 1
Address == [1..Bytes -> Byte]
Prefix == 0..(Bytes * Bits)
Other == "other"
RuleTools == KnownTools \cup {Other}

\* b & (0xff << (8 - n)): the high n bits stay.
HighBits(b, n) == (b \div Power[Bits - n]) * Power[Bits - n]

(* mutant: the mask keeps the low bits *)
MutSameBits(a, b, n) == a % Power[n] = b % Power[n]

SameBits(a, b, n) == HighBits(a, n) = HighBits(b, n)

\* ipInNet: whole bytes, then the bits that remain.  Without a length the
\* number is NaN: no byte and no bit is compared.
InNet(ip, net, bits) ==
    \/ bits = Bare
    \/ /\ bits # Bare
       /\ \A i \in 1..(bits \div Bits) : ip[i] = net[i]
       /\ bits % Bits > 0 => SameBits(ip[(bits \div Bits) + 1], net[(bits \div Bits) + 1], bits % Bits)

InCidr(ip, net, bits) == ip = net \/ InNet(ip, net, bits)

-----------------------------------------------------------------------------
Effects == {"allow", "deny", "prompt", "confirm"}
\* A rule: the tools its glob matches, whether its conditions hold, its effect.
Rule == [tools : {{"shell"}, {Other}, RuleTools}, holds : BOOLEAN, effect : Effects]
Tiers == Effects \cup {"unset"}

\* firstMatchingRule
Matching(rules, tool) == {i \in DOMAIN rules : tool \in rules[i].tools /\ rules[i].holds}

Effect(policy, tool) ==
    IF Matching(policy.rules, tool) = {} THEN policy.default
    ELSE policy.rules[Min(Matching(policy.rules, tool))].effect

Tier(policy, tool) ==
    IF policy.tier # "unset" THEN policy.tier ELSE IF tool \in KnownTools THEN "allow" ELSE "deny"

\* check: the tier of the answer when the rate limit is not reached.
Check(policy, tool) ==
    IF policy.rules # <<>>
    THEN CASE Effect(policy, tool) \in {"prompt", "confirm"} -> "confirm"
           [] Effect(policy, tool) = "deny" -> "deny"
           [] OTHER -> "allow"
    ELSE CASE Tier(policy, tool) = "deny" -> "deny"
           [] Tier(policy, tool) = "confirm" -> "confirm"
           [] OTHER -> "allow"

\* shellCheck: which patterns a command meets - those nobody can lift, those the
\* policy denies, those it wants approved - in this order.
Patterns == {"base", "denied", "approval"}
ShellVerdict(cmd) ==
    CASE {"base", "denied"} \cap cmd # {} -> "deny" [] cmd = {"approval"} -> "confirm" [] OTHER -> "allow"
Gate(policy, tool, cmd) ==
    IF tool = "shell" /\ Check(policy, tool) = "allow" THEN ShellVerdict(cmd) ELSE Check(policy, tool)

\* explain: the same question, answered by code of its own.
ExplainRules(policy, tool) ==
    LET hit == Matching(policy.rules, tool)
        effect == policy.rules[CHOOSE i \in hit : \A j \in hit : i <= j].effect
    IN IF hit = {} THEN policy.default ELSE IF effect = "prompt" THEN "confirm" ELSE effect
Explain(policy, tool, cmd) ==
    IF policy.rules # <<>> THEN ExplainRules(policy, tool)
    ELSE IF tool = "shell" /\ Tier(policy, tool) = "allow" THEN ShellVerdict(cmd)
    ELSE Tier(policy, tool)

RulesInit ==
    \/ \E ip \in Address, net \in Address, bits \in Prefix \cup {Bare} :
          case = [kind |-> "address", ip |-> ip, net |-> net, bits |-> bits]
    \/ \E rules \in BoundedSeq(Rule, 2), default \in {"allow", "deny"}, tool \in RuleTools,
         cmd \in {{}, {"denied"}} :
          case = [kind |-> "rules", tool |-> tool, cmd |-> cmd,
                  policy |-> [rules |-> rules, default |-> default, tier |-> "unset"]]
    \/ \E tier \in Tiers, tool \in RuleTools, cmd \in SUBSET Patterns :
          case = [kind |-> "rules", tool |-> tool, cmd |-> cmd,
                  policy |-> [rules |-> <<>>, default |-> "deny", tier |-> tier]]

RulesNext == UNCHANGED case
RulesSpec == RulesInit /\ [][RulesNext]_case

-----------------------------------------------------------------------------
\* The k-th bit of an address, from the first byte on and the highest bit down.
BitOf(a, k) == (a[(k - 1) \div Bits + 1] \div Power[(Bits - 1) - ((k - 1) % Bits)]) % 2

(* Comparing whole bytes and then the bits that remain decides what a      *)
(* prefix means: the addresses agree in their first bits - at zero, at a   *)
(* byte's edge and at the full length as well (ipInNet, policy.js:128).    *)
PrefixIsPrefix ==
    case.kind = "address" /\ case.bits # Bare =>
       (InCidr(case.ip, case.net, case.bits) <=> \A k \in 1..case.bits : BitOf(case.ip, k) = BitOf(case.net, k))

(* What `policy explain` says of a call is what the gate decides of it, the *)
(* patterns of a shell command included.  Two exceptions: a legacy tier     *)
(* "prompt" is called so by the one and let through by the other, and      *)
(* under a rules array the patterns are left out of the explanation        *)
(* (check, policy.js:460; shellCheck, :518; explain, :546).                *)
ExplainTellsTheTruth ==
    case.kind = "rules" =>
       \/ Explain(case.policy, case.tool, case.cmd) = Gate(case.policy, case.tool, case.cmd)
       \/ case.policy.tier = "prompt"
       \/ case.policy.rules # <<>> /\ case.cmd # {}

(* What a policy says is what it does (policy.js:128, :546): a network     *)
(* prefix means its first bits, and the explanation of a call is the       *)
(* decision of the gate.                                                   *)
PolicyMeansWhatItSays == PrefixIsPrefix /\ ExplainTellsTheTruth
=============================================================================
