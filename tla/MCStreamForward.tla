--------------------------- MODULE MCStreamForward ---------------------------
EXTENDS StreamForward, TLC

CONSTANTS p1, p2

MCClient == {p1, p2}
MCProto == p1 :> {"tcp", "http", "tls"}

MCWidth == [v4 |-> 2, v6 |-> 3]
IP(f, b) == [family |-> f, bits |-> b]
Net(f, b, p) == [ip |-> IP(f, b), prefix |-> p]
MCSources == {[ip |-> IP("v4", 1), port |-> 1], [ip |-> IP("v4", 3), port |-> 1]}
Rule(s, p, d) == [source |-> s, port |-> p, target |-> AnyValue, deny |-> d]
MCGlobalRules == <<Rule(Net("v4", 2, 1), AnyValue, TRUE)>>
MCRouteRules == <<Rule(Net("v4", 0, 0), AnyValue, FALSE)>>
MCResolutions == {<<>>, <<IP("v4", 3), IP("v4", 1)>>}
MCDeny == {Net("v4", 3, 2)}

(* evaluate_acl decides as DenyWins says for all lists of up to two rules, *)
(* and masks agree with the prefix they stand for.                         *)
AllRules == {Rule(s, p, d) : s \in {AnyValue, Net("v4", 2, 1), Net("v4", 1, 2), Net("v6", 0, 0), Net("v4", 0, 3)},
                             p \in {AnyValue, 1}, d \in BOOLEAN}
ASSUME EvaluateIsDenyWins ==
    \A n \in 0..2 : \A rules \in [1..n -> AllRules] :
        \A b \in 0..3, port \in 1..2 :
            LET src == [ip |-> IP("v4", b), port |-> port]
            IN EvaluateAcl(rules, src, Target) = DenyWins(rules, src, Target)
ASSUME MaskIsPrefix ==
    \A f \in {"v4", "v6"} : \A p \in 0..MCWidth[f] : \A a, b \in 0..(2^MCWidth[f] - 1) :
        CidrMatches(Net(f, a, p), IP(f, b)) <=> a \div 2^(MCWidth[f] - p) = b \div 2^(MCWidth[f] - p)
=============================================================================
