--------------------------- MODULE MCDeviceManager ---------------------------
(* DeviceManager on small instances: what its cfg files need beside values. *)
EXTENDS DeviceManagerRefinement, TLC

\* Ids are compared and stored, never ordered: sound for invariants and
\* action properties, not used with liveness.
IdSymmetry == Permutations(Id)
==============================================================================
