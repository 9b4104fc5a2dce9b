--------------------------- MODULE MCMessageCodec ---------------------------
(* Names with suffixes in common, at the same place in them and at different *)
(* places; a name with a label that is too long.  A record of every layout.  *)
EXTENDS MessageCodec

BA  == <<<<98>>, <<97>>>>
CA  == <<<<99>>, <<97>>>>
CBA == <<<<99>>, <<98>>, <<97>>>>
BBA == <<<<98>>, <<98>>, <<97>>>>
Root == <<>>
TooLong == <<[i \in 1 .. 64 |-> 97], <<97>>>>

Rec(name, type, body) == [name |-> name, type |-> type, class |-> 1, ttl |-> <<0, 300>>, body |-> body]

Flags == [response |-> TRUE, opCode |-> 2, authoritative |-> FALSE, truncated |-> TRUE,
          recursionDesired |-> TRUE, recursionAvailable |-> FALSE, rCode |-> 3]
MCHeaders == {[id |-> 515, flags |-> Flags]}
MCBuffers == {<<7, 7>>}

MCQuestionItems == {<<BA, TypeA, 1>>}

MCRecordItems ==
    {Rec(CA, TypeA, <<<<1, 2, 3, 4>>>>),
     Rec(BBA, TypeCNAME, <<CBA>>),
     Rec(CBA, TypeMX, <<258, BA>>),
     Rec(CA, TypeSOA, <<BA, CA, <<0, 1>>, <<0, 2>>, <<0, 3>>, <<1, 4>>, <<0, 5>>>>),
     Rec(BA, TypeSRV, <<1, 2, 3, CBA>>),
     Rec(Root, TypeOPT, <<<<[code |-> 10, data |-> <<1, 2>>], [code |-> 3, data |-> <<>>]>>>>),
     Rec(BA, TypeTXT, <<<<<<97>>, <<>>>>>>),
     Rec(BA, 99, <<<<192, 0>>>>),
     Rec(CBA, TypeCNAME, <<TooLong>>)}
=============================================================================
