----------------------------- MODULE UdpServer ------------------------------
(***************************************************************************)
(* The figures kept for an upstream server and the choice made from them,  *)
(* dns/recursive/udp.go.  The three counters are int32 in the code: results *)
(* are taken modulo 2 * WordHalf into -WordHalf .. WordHalf - 1.            *)
(***************************************************************************)
EXTENDS Integers

CONSTANTS
    WordHalf,   (* 2^31 in the code, less in an instance                    *)
    NoServer    (* the nil SelectBest returns                               *)

ASSUME WordAssumption == WordHalf \in Nat /\ WordHalf > 1000

Word == -WordHalf .. WordHalf - 1

ToWord(n) == ((n + WordHalf) % (2 * WordHalf)) - WordHalf

(* Go's integer division truncates towards zero.                           *)
Quotient(a, b) == IF a >= 0 THEN a \div b ELSE -((-a) \div b)

Stats == [responseTime : Word, queriesCount : Word, repliesCount : Word]

NewStats == [responseTime |-> 0, queriesCount |-> 0, repliesCount |-> 0]

IncQueryCount(st) == [st EXCEPT !.queriesCount = ToWord(@ + 1)]

(* A mutant of IncReplyCount: only the first reply is counted.             *)
IncReplyCountOnce(st, delayMS) ==
    [st EXCEPT !.responseTime = ToWord(delayMS), !.repliesCount = 1]

(* The average is computed in float32 and truncated; for the times that    *)
(* occur here this is the truncation of the exact value.                   *)
IncReplyCount(st, delayMS) ==
    [st EXCEPT !.responseTime = IF st.repliesCount < 1
                                THEN ToWord(delayMS)
                                ELSE Quotient(85 * @ + 15 * ToWord(delayMS), 100),
               !.repliesCount = ToWord(@ + 1)]

UntestedScore == 400

SpeedScore(st) ==
    IF st.queriesCount = 0 THEN UntestedScore
    ELSE LET speed       == 1000 - st.responseTime
             reliability == Quotient(ToWord(st.repliesCount * 1000), st.queriesCount)
             score       == (speed * reliability) \div 4
         IN  IF score > 999 THEN 999 ELSE score

(* A mutant of Best: a score of zero is not good enough.                   *)
BestPositive(stats) ==
    LET Score(s)  == SpeedScore(stats[s])
        Usable    == {s \in DOMAIN stats : Score(s) > 0}
        IsBest(s) == \A o \in Usable : Score(o) < Score(s) \/ (Score(o) = Score(s) /\ s <= o)
    IN  IF Usable = {} THEN {NoServer} ELSE {s \in Usable : IsBest(s)}

(* The loop of SelectBest: the first server of the table with the highest   *)
(* score that is not negative, or none; a set with one member.              *)
Best(stats) ==
    LET Score(s)  == SpeedScore(stats[s])
        Usable    == {s \in DOMAIN stats : Score(s) >= 0}
        IsBest(s) == \A o \in Usable : Score(o) < Score(s) \/ (Score(o) = Score(s) /\ s <= o)
    IN  IF Usable = {} THEN {NoServer} ELSE {s \in Usable : IsBest(s)}

(* SelectBest, the servers it may return: one call in ten draws at random.  *)
SelectBest(stats) == DOMAIN stats \cup Best(stats)
=============================================================================
