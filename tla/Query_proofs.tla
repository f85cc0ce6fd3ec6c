---------------------------- MODULE Query_proofs ----------------------------
(***************************************************************************)
(* The timed questions, for every length of the times and any number of    *)
(* questions and keys: the silence of a user costs a bounded time, and a   *)
(* key that comes alone and in time answers the question it was typed at.  *)
(***************************************************************************)
EXTENDS Query, SequenceTheorems, TLAPS

\* What the silence has cost so far is paid for by what has been cut off the
\* time: the sum over the questions is not inductive by itself.
TimeInv ==
    /\ g_uiQueryTimeout \in Least..Default
    /\ asking \in {"none", "delete", "restore"}
    /\ iCur \in Nat
    /\ number \in Nat
    /\ waited \in Nat
    /\ silent \in Nat
    /\ asking = "none" => iCur = 0
    /\ iCur < g_uiQueryTimeout + SleepLen
    /\ waited <= 2 * (Default - g_uiQueryTimeout) + silent * (Least + SleepLen)

\* The keys of a user without haste: at most one is unread, and it belongs to the
\* question on the screen. (That an answer takes a key of its question is not
\* inductive by itself.)
OneKey ==
    /\ stdin = <<>>
    /\ Len(terminal) <= 1
    /\ terminal # <<>> => asking # "none" /\ terminal[1].at = number

KeyInv ==
    /\ terminal \in Seq(Press)
    /\ stdin \in Seq(Press)
    /\ typed \in Nat
    /\ hasty \in BOOLEAN
    /\ ~hasty => OneKey

QueryInv == TimeInv /\ KeyInv

-----------------------------------------------------------------------------
(* The time.                                                               *)

\* The next time is at least the least, and at most half the last one unless it
\* is the least.
LEMMA HalvedBounds ==
    ASSUME g_uiQueryTimeout \in Least..Default
    PROVE  /\ Halved \in Least..Default
           /\ 2 * Halved <= g_uiQueryTimeout + Least
<1>1. /\ g_uiQueryTimeout \div 2 \in Nat
      /\ 2 * (g_uiQueryTimeout \div 2) <= g_uiQueryTimeout
  BY QueryAssumption DEF Default, Least
<1> QED BY <1>1, QueryAssumption DEF Default, Least, Halved

LEMMA OneMore ==
    ASSUME NEW n \in Nat, NEW cost \in Nat
    PROVE  /\ (n + 1) * cost = n * cost + cost
           /\ n * cost \in Nat
OBVIOUS

LEMMA TimeStep ==
    ASSUME TimeInv, QueryNext
    PROVE  TimeInv'
<1> DEFINE cost == Least + SleepLen
<1>1. /\ Least \in Nat /\ Default \in Nat /\ SleepLen \in Nat
      /\ 1 <= SleepLen /\ SleepLen <= Least /\ Least <= Default
      /\ cost \in Nat
  BY QueryAssumption DEF Default, Least
<1>2. CASE Quiet \/ OtherKey
  <2>1. /\ iCur < g_uiQueryTimeout
        /\ asking # "none"
        /\ iCur' = iCur + SleepLen
        /\ UNCHANGED <<g_uiQueryTimeout, asking, number, waited, silent>>
    BY <1>2 DEF Quiet, OtherKey, Waiting, keyVars
  <2> QED BY <1>1, <2>1 DEF TimeInv
<1>3. CASE Answer
  <2>1. /\ g_uiQueryTimeout' = Default
        /\ asking' = "none" /\ iCur' = 0 /\ number' = number
        /\ waited' = 0 /\ silent' = 0
    BY <1>3 DEF Answer, Closed
  <2>2. Default - g_uiQueryTimeout' = 0
    BY <1>1, <2>1
  <2> QED BY <1>1, <2>1, <2>2 DEF TimeInv
<1>4. CASE TimeOut
  <2>1. /\ g_uiQueryTimeout' = Halved
        /\ asking' = "none" /\ iCur' = 0 /\ number' = number
        /\ waited' = waited + iCur
        /\ silent' = silent + 1
    BY <1>4 DEF TimeOut, Closed
  <2>2. /\ Halved \in Least..Default
        /\ 2 * Halved <= g_uiQueryTimeout + Least
    BY HalvedBounds DEF TimeInv
  <2>3. /\ silent' * cost = silent * cost + cost
        /\ silent * cost \in Nat
    BY <1>1, <2>1, OneMore DEF TimeInv
  <2>4. waited <= 2 * (Default - g_uiQueryTimeout) + silent * cost
    BY DEF TimeInv
  <2>5. waited' <= 2 * (Default - g_uiQueryTimeout') + silent' * cost
    BY <1>1, <2>1, <2>2, <2>3, <2>4 DEF TimeInv
  <2> QED BY <1>1, <2>1, <2>2, <2>5 DEF TimeInv
<1>5. CASE \E question \in {"delete", "restore"} : Ask(question)
  <2>1. /\ asking' \in {"delete", "restore"}
        /\ iCur' = 0
        /\ number' = number + 1
        /\ UNCHANGED <<g_uiQueryTimeout, waited, silent>>
    BY <1>5 DEF Ask
  <2> QED BY <1>1, <2>1 DEF TimeInv
<1>6. CASE \E k \in Key : Type(k)
  BY <1>6 DEF TimeInv, Type
<1> QED BY <1>2, <1>3, <1>4, <1>5, <1>6 DEF QueryNext, Round

-----------------------------------------------------------------------------
(* The keys.                                                               *)

\* To take the only key there is, of a sequence of one.
LEMMA TakeOnly ==
    ASSUME terminal \in Seq(Press), terminal # <<>>, Len(terminal) <= 1
    PROVE  /\ Head(terminal) = terminal[1]
           /\ Tail(terminal) = <<>>
<1>1. Len(terminal) = 1
  <2>1. PICK n : n = Len(terminal)
    OBVIOUS
  <2>2. n \in Nat \ {0}
    BY <2>1, EmptySeq
  <2>3. n <= 1
    BY <2>1
  <2>4. n = 1
    BY <2>2, <2>3
  <2> QED BY <2>1, <2>4
<1>2. Tail(terminal) \in Seq(Press) /\ Len(Tail(terminal)) = 0
  BY <1>1, HeadTailProperties
<1>3. Tail(terminal) = <<>>
  BY <1>2, EmptySeq
<1> QED BY <1>1, <1>3

LEMMA GetStep ==
    ASSUME KeyInv, terminal # <<>>, getchar
    PROVE  KeyInv'
<1>1. typed' = typed /\ hasty' = hasty
  BY DEF getchar
<1>2. CASE stdin # <<>>
  <2>1. stdin' = Tail(stdin) /\ terminal' = terminal
    BY <1>2 DEF getchar
  <2>2. Tail(stdin) \in Seq(Press)
    BY <1>2, HeadTailProperties DEF KeyInv
  <2>3. hasty
    BY <1>2 DEF KeyInv, OneKey
  <2> QED BY <1>1, <2>1, <2>2, <2>3 DEF KeyInv, OneKey
<1>3. CASE stdin = <<>>
  <2>1. stdin' = Tail(terminal) /\ terminal' = <<>>
    BY <1>3 DEF getchar
  <2>2. Tail(terminal) \in Seq(Press)
    BY HeadTailProperties DEF KeyInv
  <2>3. ~hasty => Tail(terminal) = <<>>
    BY TakeOnly DEF KeyInv, OneKey
  <2>4. <<>> \in Seq(Press) /\ Len(<<>>) = 0
    BY EmptySeq
  <2> QED BY <1>1, <2>1, <2>2, <2>3, <2>4 DEF KeyInv, OneKey
<1> QED BY <1>2, <1>3

LEMMA KeyStep ==
    ASSUME TimeInv, KeyInv, QueryNext
    PROVE  KeyInv'
<1>1. CASE Answer \/ OtherKey
  <2>1. KeyInv'
    BY <1>1, GetStep DEF Answer, OtherKey
  <2> QED BY <2>1
<1>2. CASE Quiet
  BY <1>2 DEF Quiet, keyVars, KeyInv, OneKey
<1>3. CASE TimeOut
  <2>1. /\ UNCHANGED <<terminal, stdin, typed, number>>
        /\ hasty' = (hasty \/ terminal # <<>>)
    BY <1>3 DEF TimeOut, Closed
  <2> QED BY <2>1 DEF KeyInv, OneKey
<1>4. CASE \E question \in {"delete", "restore"} : Ask(question)
  <2>1. asking = "none" /\ UNCHANGED keyVars
    BY <1>4 DEF Ask
  <2>2. ~hasty => terminal = <<>>
    BY <2>1 DEF KeyInv, OneKey
  <2> QED BY <2>1, <2>2 DEF KeyInv, OneKey, keyVars
<1>5. ASSUME NEW k \in Key, Type(k)
      PROVE  KeyInv'
  <2>1. PICK press : press = [key |-> k, at |-> IF asking = "none" THEN 0 ELSE number]
    OBVIOUS
  <2>2. press \in Press
    BY <1>5, <2>1 DEF TimeInv, Press
  <2>3. /\ terminal' = Append(terminal, press)
        /\ typed' = typed + 1
        /\ hasty' = (hasty \/ asking = "none" \/ terminal # <<>>)
        /\ UNCHANGED <<asking, number, stdin>>
    BY <1>5, <2>1 DEF Type
  <2>4. Append(terminal, press) \in Seq(Press)
    BY <2>2 DEF KeyInv
  <2>5. ASSUME ~hasty'
        PROVE  OneKey'
    <3>1. ~hasty /\ asking # "none" /\ terminal = <<>> /\ stdin = <<>>
      BY <2>3, <2>5 DEF KeyInv, OneKey
    <3>2. Append(terminal, press) = <<press>>
      BY <3>1
    <3>3. press.at = number
      BY <2>1, <3>1
    <3> QED BY <2>3, <3>1, <3>2, <3>3 DEF OneKey
  <2>6. hasty' \in BOOLEAN
    BY <2>3
  <2> QED BY <2>3, <2>4, <2>5, <2>6 DEF KeyInv
<1> QED BY <1>1, <1>2, <1>3, <1>4, <1>5 DEF QueryNext, Round

\* The key that an answer takes is the only one there is.
LEMMA OneAnswer ==
    ASSUME QueryInv
    PROVE  Answer /\ ~hasty => NextKey.at = number
BY TakeOnly DEF QueryInv, KeyInv, OneKey, Answer, NextKey

-----------------------------------------------------------------------------
(* Both, and what they imply.                                              *)

LEMMA FreshInv ==
    ASSUME Fresh
    PROVE  QueryInv
<1>1. TimeInv
  <2>1. Default - g_uiQueryTimeout = 0 /\ g_uiQueryTimeout \in Least..Default
    BY QueryAssumption DEF Fresh, Default, Least
  <2> QED BY <2>1, QueryAssumption DEF Fresh, TimeInv, Default, Least
<1>2. KeyInv
  <2>1. <<>> \in Seq(Press) /\ Len(<<>>) = 0
    BY EmptySeq
  <2>2. /\ terminal = <<>> /\ stdin = <<>>
        /\ typed = 0 /\ hasty = FALSE
    BY DEF Fresh
  <2>3. OneKey
    BY <2>1, <2>2 DEF OneKey
  <2> QED BY <2>1, <2>2, <2>3 DEF KeyInv
<1> QED BY <1>1, <1>2 DEF QueryInv

LEMMA QueryStep ==
    ASSUME QueryInv, [QueryNext]_queryVars
    PROVE  QueryInv'
<1>1. CASE QueryNext
  BY <1>1, TimeStep, KeyStep DEF QueryInv
<1>2. CASE UNCHANGED queryVars
  BY <1>2 DEF QueryInv, TimeInv, KeyInv, OneKey, queryVars, keyVars
<1> QED BY <1>1, <1>2

LEMMA InvImplies ==
    ASSUME QueryInv
    PROVE  QueryTypeOK /\ SilenceIsShort
<1>1. QueryTypeOK
  BY DEF QueryInv, TimeInv, KeyInv, QueryTypeOK
<1>2. /\ silent * (Least + SleepLen) \in Nat
      /\ Least \in Nat /\ Default \in Nat /\ SleepLen \in Nat /\ SleepLen <= Least
  BY QueryAssumption, OneMore DEF QueryInv, TimeInv, Default, Least
<1>3. SilenceIsShort
  BY <1>2 DEF QueryInv, TimeInv, SilenceIsShort
<1> QED BY <1>1, <1>3

\* The variables of the questions keep their types.
THEOREM QueryTypeCorrect == QuerySpec => []QueryTypeOK
<1>1. Fresh => QueryInv
  BY FreshInv
<1>2. QueryInv /\ [QueryNext]_queryVars => QueryInv'
  BY QueryStep
<1>3. QueryInv => QueryTypeOK
  BY InvImplies
<1> QED BY <1>1, <1>2, <1>3, PTL DEF QuerySpec
=============================================================================
