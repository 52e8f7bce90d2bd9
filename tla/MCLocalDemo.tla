---------------------------- MODULE MCLocalDemo ----------------------------
(* Values for model checking LocalDemo: one session with two deployments   *)
(* (a demo replaced by a newer one of the same session) and one with one.  *)
EXTENDS LocalDemo

CONSTANTS s1, s2, a1, a2, b1

MCSessions == {s1, s2}
MCDeployments == {a1, a2, b1}
MCOwner == [d \in MCDeployments |-> IF d = b1 THEN s2 ELSE s1]

\* One deployment each, for the deletion that is retried.
MCPair == {a1, b1}
MCPairOwner == [d \in MCPair |-> IF d = b1 THEN s2 ELSE s1]
=============================================================================
