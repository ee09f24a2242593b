--------------------------- MODULE MCFinalityTracker ---------------------------
(***************************************************************************)
(* An instance of FinalityTracker for TLC.                                 *)
(***************************************************************************)
EXTENDS FinalityTracker

CONSTANTS v1, v2, v3, c1, c2

MCValidators == {v1, v2, v3}
MCContracts  == {c1, c2}
\* getValidators() may return an empty, a short, or a repetitive vector
MCVectors    == {<<>>, <<v1, v2>>, <<v1, v2, v3>>, <<v1, v1, v2>>}
=============================================================================
