--------------------------- MODULE MCComposition ----------------------------
(* Composition with two nodes, launched one after the other: the second waits for *)
(* the actions of the first.                                                      *)
EXTENDS Composition

MCPhases == <<{1}, {2}>>
MCActions == {1}
Req(g, c, s, m) == [genesis |-> g, config |-> c, stage |-> s, mode |-> m]

\* Two networks asked for in turn.
MCRequests == {Req("g1", "k1", "start", "fresh"), Req("g2", "k1", "start", "fresh")}

\* A config that changed under a reuse.
MCDrift == {Req("g1", "k1", "start", "reuse"), Req("g1", "k2", "start", "reuse")}

\* A fresh network, a composition that stops before the launch, a reuse of the first
\* and a reuse that wants another chain.
MCEvery == {Req("g1", "k1", "start", "fresh"), Req("g1", "k2", "deploy", "fresh"),
            Req("g1", "k1", "start", "reuse"), Req("g2", "k1", "start", "reuse")}
=============================================================================
