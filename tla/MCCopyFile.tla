----------------------------- MODULE MCCopyFile -----------------------------
(* Small instances of CopyFile: two contents of different length, one of   *)
(* them a prefix of neither, and reads of one or two units.                *)
EXTENDS CopyFile

MCData == {<<>>, <<1>>, <<2, 2>>}
MCVersion == {1, 2}
MCMode == {0, 4, 6}
\* The source is the adapter with more handles.
MCSlots == [src |-> 2, dst |-> 1]
\* All but the failures that a call that succeeds may hide.
Reported == Fault \ {"stat", "chmod", "utime"}
ReadFault == {"read"}
=============================================================================
