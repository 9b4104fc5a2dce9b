---------------------------- MODULE ServerTable -----------------------------
(***************************************************************************)
(* The table of upstream servers, UdpRecursiveServers of                   *)
(* dns/recursive/udp.go, as operators on a value                           *)
(*                                                                         *)
(*     [filled |-> the indexes that hold a server, the others hold nil,     *)
(*      count  |-> servers.count,                                          *)
(*      locked |-> has a call returned without releasing the mutex?]       *)
(***************************************************************************)
EXTENDS Integers

CONSTANT MaxUDPServers   (* 16 in the code                                  *)

ASSUME TableAssumption == MaxUDPServers \in Nat

Indexes == 0 .. MaxUDPServers - 1

Table == [filled : SUBSET Indexes, count : 0 .. MaxUDPServers, locked : BOOLEAN]

NewTable == [filled |-> {}, count |-> 0, locked |-> FALSE]

(* Clear drops the servers and leaves count as it is.                       *)
ClearTable(t) == [t EXCEPT !.filled = {}]

(* Setup of n servers drops the old ones and adds the new from count        *)
(* upwards; when there is no room for one it returns with the mutex held.   *)
SetupTable(t, n) ==
    LET end == IF t.count + n <= MaxUDPServers THEN t.count + n ELSE MaxUDPServers
    IN  [filled |-> t.count .. end - 1,
         count  |-> end,
         locked |-> t.count + n > MaxUDPServers]

(* GetByAddress, and SelectBest in nine calls of ten, dereference the       *)
(* servers below count from the first on.                                   *)
HasNil(t) == \E i \in Indexes : i < t.count /\ i \notin t.filled
=============================================================================
