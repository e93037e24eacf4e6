-------------------------- MODULE MCWireGuardPeers --------------------------
(* Instances of WireGuardPeers for TLC: a network of two hosts.            *)
EXTENDS WireGuardPeers, TLC

CONSTANTS k1, k2

None == [address |-> NoIP, peers |-> {}]
OnePeer == [address |-> 1, peers |-> {[key |-> k1, ip |-> 2]}]
TwoPeers == [address |-> NoIP, peers |-> {[key |-> k1, ip |-> 2], [key |-> k2, ip |-> 1]}]
Clashing == [address |-> 1, peers |-> {[key |-> k1, ip |-> 2], [key |-> k2, ip |-> 2]}]

MCInitialConfigs == {None, OnePeer, TwoPeers}

MCRequests ==
    [kind : {"create"}, key : {k2}, ip : {0, 2, 3, AnyFree}]
      \cup [kind : {"delete"}, key : {k1}]
      \cup [kind : {"restore"}, key : {k1}, ip : {2}]
      \cup [kind : {"update"}, key : {k1}, ip : {1, 3}]
      \cup [kind : {"interface"}, ip : {1}]
      \cup [kind : {"list", "restart", "start", "stop"}]
      \cup [kind : {"raw"}, config : {Clashing}]
      \cup [kind : {"copy"}, config : {TwoPeers}]

(* What leads to a second peer with an address, and two edits whose copies *)
(* overtake each other.                                                    *)
ReturningPeer ==
    [kind : {"delete"}, key : {k1}] \cup [kind : {"create"}, key : {k2}, ip : {AnyFree}]
      \cup [kind : {"restore"}, key : {k1}, ip : {2}]
TwoEdits == [kind : {"delete"}, key : {k1}] \cup [kind : {"create"}, key : {k2}, ip : {3}]

SymmetricHandlers == Permutations(Handlers)
=============================================================================
