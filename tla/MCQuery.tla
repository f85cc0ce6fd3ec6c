------------------------------ MODULE MCQuery ------------------------------
(* The questions alone, with a user who types anything at any time.        *)
EXTENDS Query
=============================================================================
