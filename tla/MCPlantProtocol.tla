--------------------------- MODULE MCPlantProtocol ---------------------------
(* PlantProtocol on small instances, with words of two or three bytes.      *)
EXTENDS PlantProtocol, TLC

WholeIds == {<<1, 1>>, <<1, 2>>}

\* In a heartbeat one stays whole; the other is cut to 0, ...
CutToZero  == {<<1, 0>>, <<0, 1>>}
\* ... or to the first.
CutToOther == {<<1, 0, 0>>, <<1, 0, 1>>}

\* Sound for invariants: no plant is treated differently.
PlantSymmetry == Permutations(Plant)
==============================================================================
