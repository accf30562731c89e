----------------------------- MODULE MCCluster ------------------------------
(* An instance of Cluster for TLC: two lines in config_master, of which the  *)
(* first is empty.                                                           *)
EXTENDS Cluster, TLC

CONSTANTS c1, c2, c3, s1

MCConfig == <<EMPTY, s1>>

\* The clients are named in the order in which they connect: which of them is which
\* makes no difference to Spec, to its fairness or to the properties.  (They cannot
\* be a SYMMETRY, which TLC does not take for a liveness property.)  Nothing has to
\* connect, so that no fairness asks for a step that this rules out.
InOrder ==
  /\ st[c2] # "away" => st[c1] # "away"
  /\ st[c3] # "away" => st[c2] # "away"
=============================================================================
