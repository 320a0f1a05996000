--------------------------- MODULE MilterSessionMC ---------------------------
(* Instances of MilterSession for TLC.                                     *)
EXTENDS MilterSession

TwoModules == <<"maildrop", "gzip">>
ThreeModules == <<"lda", "maildrop", "gzip">>
=============================================================================
