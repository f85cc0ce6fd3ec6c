---------------------------- MODULE CopyPromise ----------------------------
(***************************************************************************)
(* What a call of CopyFileToDest promises its callers, whatever the sizes  *)
(* of the reads and writes and whatever fails: a call that is refused has  *)
(* left both files alone, unless the target's adapter had no room for its  *)
(* handle; once the target has been cut it only ever grows, by the data of *)
(* the source in order; and success means all of it.  The process may die  *)
(* at any point, and between two calls anything may happen to the files.   *)
(***************************************************************************)
EXTENDS Files

VARIABLES
    fs,      \* the entry of the file on each side
    stage,   \* "idle", "called", "rewriting" (the target was cut), "returned"
    from,    \* the side that is copied
    result,
    full     \* the target's adapter has no room for another handle

promiseVars == <<fs, stage, from, result>>

Target == fs[Opposite(from)]
NewTarget == fs'[Opposite(from)]

SourceKept == fs'[from] = fs[from] /\ fs' \in [Side -> Entry]

Init ==
    /\ fs \in [Side -> Entry]
    /\ stage = "idle"
    /\ from \in Side
    /\ result \in Result

\* Between two calls.
Change ==
    /\ stage = "idle"
    /\ fs' \in [Side -> Entry]
    /\ UNCHANGED <<stage, from, result>>

Begin ==
    /\ stage = "idle"
    /\ stage' = "called"
    /\ from' \in Side
    /\ UNCHANGED <<fs, result>>

Refuse ==
    /\ stage = "called"
    /\ stage' = "returned"
    /\ result' \in {CFD_OPEN_FAIL, CFD_CREATE_FAIL}
    /\ UNCHANGED <<fs, from>>

\* The one refusal that costs the target its contents.
RefuseWhenFull ==
    /\ stage = "called"
    /\ full
    /\ stage' = "returned"
    /\ result' = CFD_CREATE_FAIL
    /\ SourceKept
    /\ NewTarget # Absent
    /\ NewTarget.data = <<>>
    /\ UNCHANGED from

Cut ==
    /\ stage = "called"
    /\ stage' = "rewriting"
    /\ fs[from] # Absent
    /\ SourceKept
    /\ NewTarget # Absent
    /\ NewTarget.data = <<>>
    /\ UNCHANGED <<from, result>>

Grows ==
    /\ SourceKept
    /\ fs[from] # Absent
    /\ NewTarget # Absent
    /\ PartOf(NewTarget, fs[from])
    /\ Len(Target.data) <= Len(NewTarget.data)

Extend ==
    /\ stage = "rewriting"
    /\ Grows
    /\ UNCHANGED <<stage, from, result>>

GiveUp ==
    /\ stage = "rewriting"
    /\ stage' = "returned"
    /\ Grows
    /\ result' \in Result \ {CFD_SUCCESS, CFD_CREATE_FAIL}
    /\ UNCHANGED from

Complete ==
    /\ stage = "rewriting"
    /\ stage' = "returned"
    /\ Grows
    /\ NewTarget.data = fs[from].data
    /\ result' = CFD_SUCCESS
    /\ UNCHANGED from

\* The caller goes on, or the process has died.
Leave ==
    /\ stage # "idle"
    /\ stage' = "idle"
    /\ from' \in Side
    /\ result' \in Result
    /\ UNCHANGED fs

Next ==
    \/ Change \/ Begin \/ Refuse \/ RefuseWhenFull
    \/ Cut \/ Extend \/ GiveUp \/ Complete \/ Leave

Spec == Init /\ [][Next]_promiseVars
=============================================================================
