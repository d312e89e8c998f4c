---------------------------- MODULE MCPlacement ----------------------------
(***************************************************************************)
(* Placement for TLC: two servers of two slots; one machine that the set   *)
(* has under two names; one whose bands meet at its third slot; one        *)
(* against the last port, with one scrape port for the machine.  Layouts   *)
(* of one and two nodes, pinned and not, and one that fills the set.  Two  *)
(* networks that the code means to keep apart, and one that lies elsewhere *)
(* and names the set differently.                                          *)
(***************************************************************************)
EXTENDS Placement, TLC

CONSTANTS w1, w2, away

B(b, s) == [base |-> b, step |-> s]
Two == <<[name |-> "a", addr |-> "10.0.0.1"], [name |-> "b", addr |-> "10.0.0.2"]>>
Same == <<[name |-> "a", addr |-> "10.0.0.1"], [name |-> "b", addr |-> "10.0.0.1"]>>
One == <<[name |-> "a", addr |-> "127.0.0.1"]>>

MCPools == {
    [hosts |-> Two, remote |-> "yes", slots |-> 2, p2p |-> B(31000, 3), rpc |-> B(8600, 4),
     ws |-> NoBand, auth |-> NoBand, metrics |-> NoBand],
    [hosts |-> Same, remote |-> "yes", slots |-> 2, p2p |-> B(31000, 3), rpc |-> B(8600, 4),
     ws |-> NoBand, auth |-> NoBand, metrics |-> NoBand],
    [hosts |-> One, remote |-> "no", slots |-> 3, p2p |-> B(8580, 10), rpc |-> B(8600, 3),
     ws |-> NoBand, auth |-> NoBand, metrics |-> NoBand],
    [hosts |-> One, remote |-> "no", slots |-> 3, p2p |-> B(65530, 2), rpc |-> B(8600, 1),
     ws |-> B(8700, 1), auth |-> B(8800, 1), metrics |-> B(6060, 0)] }

\* The sets in which each machine is one entry.
MCMachines == {p \in MCPools : p.hosts # Same}

Pins(p) == [auto |-> "no", pins |-> p]
Fill == [auto |-> "yes", others |-> 1]
Asks(l, v, s) == [layout |-> l, server |-> v, span |-> s]

\* On the whole set (0) or on one of its entries, with room for etcd (3) or without.
MCRequests == {
    Asks(Pins(<<"">>), 0, 1), Asks(Pins(<<"">>), 1, 3), Asks(Pins(<<"">>), 2, 1),
    Asks(Pins(<<"", "a">>), 0, 3), Asks(Pins(<<"", "a">>), 1, 1), Asks(Fill, 0, 1) }

MCLocks == [w \in Workspaces |-> IF w = away THEN "other" ELSE "set"]

Symmetry == Permutations({w1, w2})
=============================================================================
