--------------------------- MODULE MCSystemUpgrade ---------------------------
(* Instance of SystemUpgrade for TLC.                                        *)
EXTENDS SystemUpgrade
=============================================================================
