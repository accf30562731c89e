---------------------------- MODULE MCCoherence -----------------------------
(* An instance of Coherence for TLC: two slaves, of which one has lost a      *)
(* worker, and sessions that put, remove, or do both in either order.         *)
EXTENDS Coherence, TLC

CONSTANTS s1, s2, w1, w2, p1, p2

MCPool == {<<s1, w1>>, <<s1, w2>>, <<s2, w1>>}

\* config_master names the slaves by their addresses, after an empty line.
MCConfig == <<BLANK, "ip1", "ip2">>
MCIp     == (s1 :> "ip1") @@ (s2 :> "ip2")
MCHost   == ("ip1" :> s1) @@ ("ip2" :> s2)

\* What AddressesDo and SlavesConverge (CoherenceProof) assume.
ASSUME MCAddresses == ByAddress /\ RightList

PUT(p) == [type |-> "PUT", path |-> p]
RM(p)  == [type |-> "RM", path |-> p]

MCJournal == { <<RM(p1), PUT(p1)>>, <<PUT(p2), RM(p2)>>, <<PUT(p1), PUT(p2)>> }
=============================================================================
