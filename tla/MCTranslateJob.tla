--------------------------- MODULE MCTranslateJob ---------------------------
(* Small instances of TranslateJob for TLC.                                *)
EXTENDS TranslateJob
=============================================================================
