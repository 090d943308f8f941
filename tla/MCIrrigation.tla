---------------------------- MODULE MCIrrigation ----------------------------
(* Irrigation on small instances.                                           *)
EXTENDS Irrigation

\* Negative, small and large: what memory that nobody wrote may be read as.
JunkNumbers == {-500, 2000}
==============================================================================
