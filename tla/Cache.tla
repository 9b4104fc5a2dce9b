------------------------------- MODULE Cache --------------------------------
(***************************************************************************)
(* The record cache under every sequence of replies, clean-ups and passing *)
(* time.  Its callers hold the mutex for a whole call, so a call is a step. *)
(* `granted` is not in the program: it remembers until when the last reply  *)
(* that carried a record lets it be used.                                   *)
(***************************************************************************)
EXTENDS RecordCache

CONSTANTS
    Replies,         (* the contents of replies: functions from records to TTLs *)
    Types,           (* the types of the questions                          *)
    CheckInterval,   (* cacheCheckInterval, 10 seconds in the code          *)
    MaxTime          (* bound: the clock                                    *)

ASSUME ReplyAssumption ==
    \A m \in Replies : DOMAIN m \subseteq Resources /\ \A r \in DOMAIN m : m[r] \in Nat
ASSUME IntervalAssumption == CheckInterval \in Nat /\ MaxTime \in Nat

VARIABLES
    cache,         (* the tree                                              *)
    nextCleanUp,
    now,           (* util.TimeNowSeconds                                   *)
    granted        (* [Resources -> Nat]                                    *)

vars == <<cache, nextCleanUp, now, granted>>

Questions == [name : Names, type : Types]

Init ==
    /\ cache = EmptyCache
    /\ nextCleanUp = 0
    /\ now = 0
    /\ granted = EmptyCache

AddReply(m) ==
    /\ cache' = AddAll(cache, m, now)
    /\ granted' = [r \in Resources |->
                      IF r \in DOMAIN m /\ m[r] > 0 /\ r.type \in KnownTypes
                      THEN now + m[r] ELSE granted[r]]
    /\ UNCHANGED <<nextCleanUp, now>>

CleanUp ==
    /\ nextCleanUp <= now
    /\ cache' = RemoveExpired(cache, now)
    /\ nextCleanUp' = now + CheckInterval
    /\ UNCHANGED <<now, granted>>

ClearAll ==
    /\ cache' = EmptyCache
    /\ granted' = EmptyCache
    /\ UNCHANGED <<nextCleanUp, now>>

Tick ==
    /\ now < MaxTime
    /\ now' = now + 1
    /\ UNCHANGED <<cache, nextCleanUp, granted>>

Next ==
    \/ \E m \in Replies : AddReply(m)
    \/ CleanUp
    \/ ClearAll
    \/ Tick

Spec == Init /\ [][Next]_vars

-----------------------------------------------------------------------------
TypeOK ==
    /\ cache \in [Resources -> Nat]
    /\ nextCleanUp \in Nat
    /\ now \in Nat
    /\ granted \in [Resources -> Nat]

(* No lookup, straight or through aliases, hands out a record after the     *)
(* time the last reply carrying it allowed, and the TTL it comes with ends  *)
(* MinTtl seconds beyond that time at most, though small TTLs are raised; a *)
(* lookup of a name finds every record of that name still allowed, and      *)
(* clean-ups never come between (cache.go, doAdd, getRecord, toResource,    *)
(* RemoveExpired).                                                          *)
LookupIsFresh ==
    \A q \in Questions :
        /\ \A r \in Get(cache, q, now) :
              /\ r.type = q.type /\ now <= granted[r]
              /\ now + ServedTtl(cache, r, now) <= granted[r] + MinTtl
        /\ \A r \in Resources :
              r.owner = Lower[q.name] /\ r.type = q.type /\ now < granted[r]
                => r \in Get(cache, q, now)

(* The name of the record handed out is the name asked for, or one that a   *)
(* chain of at most MaxDepth - 1 cached aliases leads to.                   *)
Reaches(cs, n) ==
    LET reach[d \in 0 .. MaxDepth - 1] ==
            IF d = 0 THEN {n}
            ELSE reach[d - 1] \cup {r.target : r \in {c \in cs : c.owner \in reach[d - 1]}}
    IN  reach[MaxDepth - 1]

AnswerFollowsAliases ==
    \A q \in Questions :
        LET aliases == {r \in Present(cache) : r.type = "CNAME"}
        IN  \A r \in Get(cache, q, now) : r.owner \in Reaches(aliases, Lower[q.name])

(* A clean-up is invisible to lookups but for what is due this very second, *)
(* which isExpired and RemoveExpired judge differently, and for names that  *)
(* only an alias past its time still leads to (cache.go, nodeFilterExpired). *)
StaleAliases == {r \in Present(cache) : r.type = "CNAME" /\ cache[r] <= now}

CleanUpInvisible ==
    [][CleanUp =>
         \A q \in Questions :
            LET before == Get(cache, q, now)
                after  == Get(cache', q, now)
            IN  /\ after \subseteq before
                /\ StaleAliases = {} => \A r \in before \ after : cache[r] = now]_vars

(* The code stops copying at maxCount records: "if rCount > maxCount"       *)
(* (cache.go:172, :183).                                                    *)
LookupStopsAtMaxCount == \A q \in Questions : ~GetPanics(cache, q, now)
=============================================================================
