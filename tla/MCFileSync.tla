----------------------------- MODULE MCFileSync -----------------------------
(* Small instances of FileSync.                                            *)
EXTENDS FileSync

\* Two contents of one size and a longer one.
MCData == {<<1>>, <<2>>, <<1, 2>>}
MCVersion == {1, 2}
MCMode == {6}
AllOptions == Option
\* As many handles as two calls can leave open.
MCSlots == [src |-> 2, dst |-> 2]
NoFaults == {}
NoKeys == {}
AllButStat == Fault \ {"stat"}
AnswersLost == {"stat"}
WriteFault == {"write"}
AllKeys == Key
=============================================================================
