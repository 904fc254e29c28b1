----------------------------- MODULE MCDom0Life -----------------------------
(* Containers are model values.  One is enough: they take the same part, and *)
(* meet nowhere but in the loop that stops them.                             *)
EXTENDS Dom0Life
=============================================================================
