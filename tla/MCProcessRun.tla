---------------------------- MODULE MCProcessRun ----------------------------
(* Instances of ProcessRun for TLC; the values are in the .cfg files.      *)
EXTENDS ProcessRun
=============================================================================
