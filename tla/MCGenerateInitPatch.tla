------------------------- MODULE MCGenerateInitPatch -------------------------
(* Model-checking instance of GenerateInitPatch: --num from -1 to 2; the   *)
(* .cfg cannot write a negative number.                                    *)
EXTENDS GenerateInitPatch

MCNums == {-1, 0, 1, 2}
=============================================================================
