--------------------------- MODULE LocalDatabase ----------------------------
(***************************************************************************)
(* The local database, config/database.go, and the records an entry of the  *)
(* configuration stands for, config/dns.go, as operators on a function       *)
(*                                                                         *)
(*     db : Names -> the list of records under that name                    *)
(*                                                                         *)
(* A record is [owner, type, target]; its target is a name or an address.    *)
(***************************************************************************)
EXTENDS Integers, SequencesExt

CONSTANTS
    Names,      \* names and addresses
    Lower,      \* strings.ToLower, a function on Names
    ReverseName,\* the name reverse4 or reverse6 makes of an address
    MaxDepth,   \* how many names a lookup follows, 3 in the code
    MaxCount    \* maxCount, the length of the result array, 32

ASSUME NamesAssumption ==
    /\ Lower \in [Names -> Names] /\ ReverseName \in [Names -> Names]
    /\ MaxDepth \in Nat \ {0} /\ MaxCount \in Nat

RecordTypes == {"A", "AAAA", "CNAME", "MX"}

DatabaseEntries == [name : Names, type : STRING, data : Names, valid : BOOLEAN]

Records == [owner : Names, type : RecordTypes \cup {"PTR"}, target : Names]
Databases == [Names -> Seq(Records)]

Record(owner, type, target) == [owner |-> owner, type |-> type, target |-> target]

(* toDnsResource of an entry [type, name, data, valid]: an address brings    *)
(* the record for the way back with it; the empty sequence is an error.     *)
ToResources(e) ==
    IF ~ e.valid \/ e.type \notin RecordTypes THEN <<>>
    ELSE IF e.type \in {"A", "AAAA"}
         THEN <<Record(e.name, e.type, e.data), Record(ReverseName[e.data], "PTR", e.name)>>
         ELSE <<Record(e.name, e.type, e.data)>>

NewDatabase == [n \in Names |-> <<>>]

AddRecord(db, r) == [db EXCEPT ![Lower[r.owner]] = Append(@, r)]

AddRecords(db, rs) == FoldLeft(LAMBDA d, r : AddRecord(d, r), db, rs)

(* A mutant of GetRecord: the name is not folded to lower case.            *)
GetRecordAsWritten(db, type, name) ==
    LET found[d \in 0 .. MaxDepth] ==
            [n \in Names |->
                IF d = 0 THEN <<>>
                ELSE FlattenSeq([i \in DOMAIN db[n] |->
                       IF type # "CNAME" /\ db[n][i].type = "CNAME"
                       THEN found[d - 1][db[n][i].target]
                       ELSE IF db[n][i].type = type THEN <<db[n][i]>> ELSE <<>>])]
    IN  found[MaxDepth][name]

(* getRecord: the records found for a name, the empty sequence for nil.  An *)
(* alias is replaced by what it leads to; the case of its target is kept.   *)
GetRecord(db, type, name) ==
    LET found[d \in 0 .. MaxDepth] ==
            [n \in Names |->
                IF d = 0 THEN <<>>
                ELSE FlattenSeq([i \in DOMAIN db[n] |->
                       IF type # "CNAME" /\ db[n][i].type = "CNAME"
                       THEN found[d - 1][db[n][i].target]
                       ELSE IF db[n][i].type = type THEN <<db[n][i]>> ELSE <<>>])]
    IN  found[MaxDepth][Lower[name]]

OtherFamily(type) == CASE type = "A" -> "AAAA" [] type = "AAAA" -> "A"

Additionals(db, q) ==
    IF q.type \in {"A", "AAAA"} THEN GetRecord(db, OtherFamily(q.type), q.name) ELSE <<>>

(* The limit is tested after the slot is written, as in the cache: a lookup *)
(* that collects more records than there are slots panics.                  *)
LookupPanics(db, q) ==
    \/ Len(GetRecord(db, q.type, q.name)) > MaxCount
    \/ Len(Additionals(db, q)) > MaxCount

(* LookupAnswer: a question about one family of addresses is answered, with *)
(* no answers in it, when only the other family is there.                   *)
LookupAnswer(db, q) ==
    LET answers == GetRecord(db, q.type, q.name)
    IN  [isLocal |-> answers # <<>> \/ Additionals(db, q) # <<>>,
         answers |-> answers,
         additionals |-> Additionals(db, q)]
=============================================================================
