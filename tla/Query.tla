-------------------------------- MODULE Query --------------------------------
(***************************************************************************)
(* The timed questions: AskTimedDeleteQuestion and AskTimedRestoreQuestion *)
(* with KeyPressWaiting, and the way a key takes to them.  It first waits  *)
(* in the terminal, where select sees it; getchar then takes all that the  *)
(* terminal has into the buffer of stdin, where select does not.           *)
(*                                                                         *)
(* At the end of its input (under cron, /dev/null) select is always ready  *)
(* and getchar answers EOF, which is no answer: such a round is a Quiet    *)
(* one here.                                                               *)
(***************************************************************************)
EXTENDS Integers, Sequences

CONSTANTS
    DEFAULT_QUERY_TIMER_LENGTH,
    MIN_QUERY_TIMER_LENGTH,
    SleepLen,      \* the milliseconds a round counts
    MaxQuestions,  \* bounds of the model: the questions of a run
    MaxKeys        \* and the keys typed during it

Default == DEFAULT_QUERY_TIMER_LENGTH
Least == MIN_QUERY_TIMER_LENGTH

ASSUME QueryAssumption ==
    /\ Default \in Nat
    /\ Least \in 1..Default
    /\ SleepLen \in 1..Least
    /\ MaxQuestions \in Nat
    /\ MaxKeys \in Nat

VARIABLES
    g_uiQueryTimeout,
    asking,    \* the question on the screen: "delete", "restore" or "none"
    iCur,      \* how long it has been there
    number,    \* the questions asked so far
    terminal,  \* the keys that nothing has read
    stdin,     \* the keys in stdin's buffer
    typed,     \* how many keys were typed
    hasty,     \* for the properties: whether a key was ever typed between the
               \* questions, or on top of another, or was still unread when
               \* its question timed out
    waited,    \* the time spent on questions that timed out since the last
    silent     \* answer, and how many these are

keyVars == <<terminal, stdin, typed, hasty>>
queryVars == <<g_uiQueryTimeout, asking, iCur, number, keyVars, waited, silent>>

\* "l" is any key that both questions take (l and r in either case, and Enter),
\* "d" and "b" are those that one of them takes, "x" is any other key.
Key == {"l", "d", "b", "x"}

\* A key, and the question it was typed at; 0 between the questions.
Press == [key : Key, at : Nat]

Accepts(question) == {"l", IF question = "delete" THEN "d" ELSE "b"}

Fresh ==
    /\ g_uiQueryTimeout = Default
    /\ asking = "none"
    /\ iCur = 0
    /\ number = 0
    /\ terminal = <<>> /\ stdin = <<>>
    /\ typed = 0 /\ hasty = FALSE
    /\ waited = 0
    /\ silent = 0

\* The same for a process that starts anew.
FreshAgain ==
    /\ g_uiQueryTimeout' = Default
    /\ asking' = "none"
    /\ iCur' = 0
    /\ number' = 0
    /\ terminal' = <<>> /\ stdin' = <<>>
    /\ typed' = 0 /\ hasty' = FALSE
    /\ waited' = 0
    /\ silent' = 0

Type(k) ==
    /\ typed < MaxKeys
    /\ typed' = typed + 1
    /\ terminal' = Append(terminal, [key |-> k, at |-> IF asking = "none" THEN 0 ELSE number])
    /\ hasty' = (hasty \/ asking = "none" \/ terminal # <<>>)
    /\ UNCHANGED <<g_uiQueryTimeout, asking, iCur, number, stdin, waited, silent>>

Ask(question) ==
    /\ asking = "none"
    /\ number < MaxQuestions
    /\ asking' = question
    /\ iCur' = 0
    /\ number' = number + 1
    /\ UNCHANGED <<g_uiQueryTimeout, keyVars, waited, silent>>

Waiting == asking # "none" /\ iCur < g_uiQueryTimeout

\* Mutant: the time is only counted when a key has come.
QuietForNothing ==
    /\ Waiting
    /\ terminal = <<>>
    /\ UNCHANGED queryVars

\* A round of the loop in which KeyPressWaiting finds nothing.
Quiet ==
    /\ Waiting
    /\ terminal = <<>>
    /\ iCur' = iCur + SleepLen
    /\ UNCHANGED <<g_uiQueryTimeout, asking, number, keyVars, waited, silent>>

NextKey == Head(IF stdin # <<>> THEN stdin ELSE terminal)

\* Mutant: the key is looked at and left there.
Peek == UNCHANGED keyVars

\* getchar, called only while the terminal has a key.
getchar ==
    /\ stdin' = Tail(IF stdin # <<>> THEN stdin ELSE terminal)
    /\ terminal' = IF stdin # <<>> THEN terminal ELSE <<>>
    /\ UNCHANGED <<typed, hasty>>

\* The question is no longer on the screen.
Closed == asking' = "none" /\ iCur' = 0 /\ UNCHANGED number

\* An answer restores the full time for the questions to come.
Answer ==
    /\ Waiting
    /\ terminal # <<>>
    /\ NextKey.key \in Accepts(asking)
    /\ getchar
    /\ g_uiQueryTimeout' = Default
    /\ Closed
    /\ waited' = 0
    /\ silent' = 0

\* Any other key changes nothing but what is left to read.
OtherKey ==
    /\ Waiting
    /\ terminal # <<>>
    /\ NextKey.key \notin Accepts(asking)
    /\ getchar
    /\ iCur' = iCur + SleepLen
    /\ UNCHANGED <<g_uiQueryTimeout, asking, number, waited, silent>>

\* Mutants: the time is halved without end; it is not halved.
HalvedToNothing == g_uiQueryTimeout \div 2
SameAgain == g_uiQueryTimeout

Halved ==
    IF g_uiQueryTimeout \div 2 < Least THEN Least ELSE g_uiQueryTimeout \div 2

\* '1' is returned, and the next question gets half the time.
TimeOut ==
    /\ asking # "none"
    /\ iCur >= g_uiQueryTimeout
    /\ g_uiQueryTimeout' = Halved
    /\ Closed
    /\ waited' = waited + iCur
    /\ silent' = silent + 1
    /\ hasty' = (hasty \/ terminal # <<>>)
    /\ UNCHANGED <<terminal, stdin, typed>>

Round == Quiet \/ Answer \/ OtherKey \/ TimeOut

QueryNext ==
    \/ Round
    \/ \E question \in {"delete", "restore"} : Ask(question)
    \/ \E k \in Key : Type(k)

\* usleep returns, and the loop goes on.
QuerySpec == Fresh /\ [][QueryNext]_queryVars /\ WF_queryVars(Round)

-----------------------------------------------------------------------------
(* Properties.                                                             *)

QueryTypeOK ==
    /\ g_uiQueryTimeout \in Least..Default
    /\ asking \in {"none", "delete", "restore"}
    /\ iCur \in Nat
    /\ number \in Nat
    /\ terminal \in Seq(Press)
    /\ stdin \in Seq(Press)
    /\ typed \in Nat
    /\ hasty \in BOOLEAN
    /\ waited \in Nat
    /\ silent \in Nat

\* A run that nobody answers is not held up for longer than twice the full
\* time, and the least time for each of its questions ("Question times out").
SilenceIsShort ==
    waited + iCur <= 2 * Default + silent * (Least + SleepLen)

\* As long as each key comes alone, at a question and in time, it answers that
\* question and no other: what a question does not take is gone when the next
\* one is asked. (KeyPressWaiting finds a key, AskTimed...Question reads it.)
OneKeyAnswers ==
    [][Answer /\ ~hasty => NextKey.at = number]_queryVars

\* A key typed at one question does not answer a later one: "d" is the consent
\* to the deletion of the file that the question names.
AnswerIsToThisQuestion ==
    [][Answer => NextKey.at \in {0, number}]_queryVars
=============================================================================
