-------------------------- MODULE MCExcludeParser --------------------------
(* All files of up to six bytes, read through a buffer of three.           *)
EXTENDS ExcludeParser

LOCAL INSTANCE Functions

MCChar == {"x", "y", " ", "n"}
MCEOL == {"n"}
MCBlank == {" ", "n"}
AllFailing == {"open", "stat", "short", "read"}
NoneFailing == {}
\* Codes that put the 0 on a leftover of three bytes, or in front of it.
MCReadErrors == {-1, -2, -5}
SixBytes == UNION {[1..k -> MCChar] : k \in 0..6}
NamesOfTwo == {t \in SixBytes : " " \notin Range(t) /\ \A name \in Names(t) : Len(name) = 2}
=============================================================================
