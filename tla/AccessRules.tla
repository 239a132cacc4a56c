----------------------------- MODULE AccessRules -----------------------------
(***************************************************************************)
(* The pure decisions of the data plane: CIDR matching (tunnel-common/src/ *)
(* cidr.rs), ACL evaluation (tunnel-core/src/acl.rs, AclStore::allows) and *)
(* the agent's target policy (tunnel-core/src/target_policy.rs).  An       *)
(* address is a record [family, bits]; Width gives the bits of a family    *)
(* (32 and 128 in the code).  An absent field of a rule is "any".          *)
(***************************************************************************)
EXTENDS Integers, Sequences

CONSTANTS Width, AnyValue

(* parse_cidr: a prefix longer than the address is no CIDR; a bare address *)
(* is given with the full width.                                           *)
ParseCidr(cidr) == cidr.prefix <= Width[cidr.ip.family]

(* The bits under the mask; a prefix of 0 is a case of its own because a   *)
(* shift by the full width overflows.                                      *)
Masked(bits, width, prefix) ==
    IF prefix = 0 THEN 0 ELSE bits - (bits % 2^(width - prefix))

CidrMatches(cidr, ip) ==
    /\ ParseCidr(cidr)
    /\ cidr.ip.family = ip.family
    /\ LET w == Width[ip.family]
       IN Masked(cidr.ip.bits, w, cidr.prefix) = Masked(ip.bits, w, cidr.prefix)

(* rule_matches: every field that is given must match.                     *)
RuleMatches(rule, src, target) ==
    /\ rule.source = AnyValue \/ CidrMatches(rule.source, src.ip)
    /\ rule.port = AnyValue \/ rule.port = src.port
    /\ rule.target = AnyValue \/ rule.target = target

(* evaluate_acl: the loop over the rules returns at the first deny that    *)
(* matches and otherwise remembers whether an allow did.                   *)
EvaluateAcl(rules, src, target) ==
    LET run[i \in 0..Len(rules)] ==
            IF i = 0 THEN "no"
            ELSE IF run[i - 1] = "denied" \/ ~RuleMatches(rules[i], src, target) THEN run[i - 1]
            ELSE IF rules[i].deny THEN "denied" ELSE "allowed"
    IN run[Len(rules)] = "allowed"

(* AclStore::allows: the global rules before those of the route; a route   *)
(* that has none of either is open to everyone.                            *)
AclAllows(global, ofRoute, src, target) ==
    \/ global = <<>> /\ ofRoute = <<>>
    \/ EvaluateAcl(global \o ofRoute, src, target)

(* What evaluate_acl is meant to decide: some allow and no deny matches.   *)
DenyWins(rules, src, target) ==
    LET hits == {i \in 1..Len(rules) : RuleMatches(rules[i], src, target)}
    IN (\E i \in hits : ~rules[i].deny) /\ ~\E i \in hits : rules[i].deny

(* target_allowed: an explicit allow wins, then a deny; an allow list      *)
(* closes everything else.                                                 *)
TargetAllowed(allow, deny, ip) ==
    \/ \E c \in allow : CidrMatches(c, ip)
    \/ allow = {} /\ ~\E c \in deny : CidrMatches(c, ip)

(* resolve_target: the addresses a name resolves to that may be dialled;   *)
(* the code takes the first.                                               *)
ResolveTarget(allow, deny, addrs) ==
    SelectSeq(addrs, LAMBDA ip : TargetAllowed(allow, deny, ip))
=============================================================================
