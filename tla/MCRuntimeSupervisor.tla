------------------------ MODULE MCRuntimeSupervisor ------------------------
(* Constants for TLC. *)
EXTENDS RuntimeSupervisor

CONSTANT k1  \* a descendant

OneKin == {k1}
Grouped == {n \in Nature : n.group}
(* Closes its output and ignores SIGTERM. *)
Daemons == {n \in Nature : n.group /\ ~n.pipe /\ n.stubborn}
=============================================================================
