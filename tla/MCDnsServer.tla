----------------------------- MODULE MCDnsServer ----------------------------
(* Two names and records for them; instances for the ids, the policy, the  *)
(* liveness and the upstream figures choose among them.                     *)
EXTENDS DnsServer

MCNames == {"a", "b"}
MCLower == [n \in MCNames |-> n]

QA  == [name |-> "a", type |-> "A"]
QB  == [name |-> "b", type |-> "A"]
QT  == [name |-> "a", type |-> "TXT"]
QL  == [name |-> "a", type |-> "AAAA"]

AddressA == [owner |-> "a", type |-> "A", target |-> "a"]
AddressB == [owner |-> "b", type |-> "A", target |-> "b"]
AliasAB  == [owner |-> "a", type |-> "CNAME", target |-> "b"]

MCResources == {AddressA, AddressB, AliasAB}

NoLocalAnswers == [q \in {} |-> {}]
LocalB == [q \in {QL} |-> {AddressA, AddressB}]

(* Ids: answers that are not cached, so that questions repeat.              *)
IdQuestions == {QA, QB}
IdContents == [q \in IdQuestions |->
                 {[r \in {IF q = QA THEN AddressA ELSE AddressB} |-> 0]}]
IdRules == [c \in Clients |-> {NoRule}]
NoStrays == {}

(* Policy: the port of a client on this host belongs to an application that  *)
(* may see b although b is blocked, or to another that may not see a.        *)
PolicyQuestions == {QA, QB, QT, QL}
PolicyContents == [q \in PolicyQuestions |->
                     CASE q = QA -> {[r \in {AliasAB, AddressB} |-> 1], [r \in {AddressA} |-> 2]}
                       [] q = QB -> {[r \in {AddressB} |-> 2]}
                       [] OTHER  -> {}]
AppRule   == [black |-> {}, white |-> {"b"}]
OtherRule == [black |-> {"a"}, white |-> {"b"}]
PolicyRules ==
    [c \in Clients |-> IF c \in Loopback THEN {AppRule, OtherRule} ELSE {NoRule}]
PolicyStrays ==
    {Request(0), Response(0, MinId + 1, QA, [r \in {AddressA} |-> 2])}
=============================================================================
