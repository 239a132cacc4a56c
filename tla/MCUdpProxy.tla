----------------------------- MODULE MCUdpProxy -----------------------------
(* Small instances of UdpProxy: all clients have one IP address.           *)
EXTENDS UdpProxy, TLC

CONSTANT TheIp

Sym == Permutations(Client) \cup Permutations(Route)
MCIp == {TheIp}
MCIpOf == [c \in Client |-> TheIp]
=============================================================================
