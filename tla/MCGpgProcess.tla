---------------------------- MODULE MCGpgProcess ----------------------------
(* Model-checking instance of GpgProcess: two calls, with and without input, *)
(* whose children print up to twice what a pipe holds.                       *)
EXTENDS GpgProcess
=============================================================================
