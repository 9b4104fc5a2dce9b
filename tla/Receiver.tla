------------------------------ MODULE Receiver ------------------------------
(***************************************************************************)
(* The goroutine a call of Run starts to read its socket                    *)
(* (receiveUdpMessages of dns/server.go), and the channel between it and     *)
(* the loop, beside the calls of Run and Stop of Lifecycle.  It shares with  *)
(* them the flag and srv.socket, takes no part in the shutdown, and may      *)
(* outlive its run.                                                         *)
(***************************************************************************)
EXTENDS Lifecycle

CONSTANTS
    Followed,   (* the runs whose receiver is looked at                      *)
    ChannelCap  (* the capacity of the channel, 128 in the code              *)

ASSUME ReceiverAssumption == Followed \subseteq Runs /\ ChannelCap \in Nat \ {0}

VARIABLES
    rxPc,       (* where each receiver is                                    *)
    rxSocket,   (* its local variable socket                                 *)
    pending     (* how many messages its channel holds                       *)

rxVars == <<rxPc, rxSocket, pending>>

serverVars == <<vars, rxVars>>

RxPcs == {"none", "start", "isOn", "read", "isOnAgain", "send", "done"}

ServerInit ==
    /\ Init
    /\ rxPc = [r \in Followed |-> "none"]
    /\ rxSocket = [r \in Followed |-> NoSocket]
    /\ pending = [r \in Followed |-> 0]

-----------------------------------------------------------------------------
(* The go statement comes after OnConfigUpdate.                             *)
StartsReceiver(r) ==
    r \in Followed /\ runPc[r] \in {"configure", "setup"} /\ runPc'[r] = "loop"

TakesMessage(r) ==
    r \in Followed /\ pending[r] > 0 /\ runPc[r] = "iterate" /\ runPc'[r] \in {"loop", "blocked"}

(* A step of Run.  An iteration takes a message if there is one; handling   *)
(* it is all that can panic in the loop, for the clean-ups of an empty       *)
(* channel need no context and pass over nil servers, and all that can do   *)
(* without the mutex of the table.                                          *)
RunAndReceiver(r) ==
    /\ RunStep(r)
    /\ (r \in Followed /\ runPc[r] = "iterate" /\ panicked') => pending[r] > 0
    /\ (r \in Followed /\ table.locked /\ runPc[r] = "iterate" /\ runPc'[r] = "loop")
         => pending[r] > 0
    /\ rxPc' = IF StartsReceiver(r) THEN [rxPc EXCEPT ![r] = "start"] ELSE rxPc
    /\ pending' = IF TakesMessage(r) THEN [pending EXCEPT ![r] = @ - 1] ELSE pending
    /\ UNCHANGED rxSocket

RxGoto(r, from, to) ==
    /\ ~panicked
    /\ rxPc[r] = from
    /\ rxPc' = [rxPc EXCEPT ![r] = to]
    /\ UNCHANGED vars

(* socket := srv.socket                                                     *)
RxStart(r) ==
    /\ RxGoto(r, "start", "isOn")
    /\ rxSocket' = [rxSocket EXCEPT ![r] = socket]
    /\ UNCHANGED pending

(* A mutant of RxIsOn: the loop has no condition.                           *)
RxIsOnForEver(r) ==
    /\ RxGoto(r, "isOn", "read")
    /\ UNCHANGED <<rxSocket, pending>>

RxIsOn(r) ==
    /\ RxGoto(r, "isOn", IF on THEN "read" ELSE "done")
    /\ UNCHANGED <<rxSocket, pending>>

RxReceive(r) ==
    /\ rxSocket[r] \in bound
    /\ RxGoto(r, "read", "isOnAgain")
    /\ UNCHANGED <<rxSocket, pending>>

(* Nothing came within the second, or the socket is closed.                 *)
RxError(r) ==
    /\ rxSocket[r] # NoSocket
    /\ RxGoto(r, "read", "isOn")
    /\ UNCHANGED <<rxSocket, pending>>

RxPanic(r) ==
    /\ ~panicked
    /\ rxPc[r] = "read" /\ rxSocket[r] = NoSocket
    /\ panicked' = TRUE
    /\ UNCHANGED <<on, ctx, socket, bound, table, runPc, stopPc, overlapped, rxVars>>

(* What was received may be no message.                                     *)
RxIsOnAgain(r) ==
    /\ \E to \in IF on THEN {"send", "isOn"} ELSE {"done"} : RxGoto(r, "isOnAgain", to)
    /\ UNCHANGED <<rxSocket, pending>>

RxSend(r) ==
    /\ pending[r] < ChannelCap
    /\ RxGoto(r, "send", "isOn")
    /\ pending' = [pending EXCEPT ![r] = @ + 1]
    /\ UNCHANGED rxSocket

RxStep(r) ==
    \/ RxStart(r) \/ RxIsOn(r) \/ RxReceive(r) \/ RxError(r) \/ RxPanic(r)
    \/ RxIsOnAgain(r) \/ RxSend(r)

ServerNext ==
    \/ \E r \in Runs : (CallRun(r) /\ UNCHANGED rxVars) \/ RunAndReceiver(r)
    \/ \E p \in Stops : (CallStop(p) \/ StopStep(p)) /\ UNCHANGED rxVars
    \/ \E r \in Followed : RxStep(r)

ServerFairness ==
    /\ \A r \in Runs : WF_serverVars(RunAndReceiver(r))
    /\ \A p \in Stops : WF_serverVars(StopStep(p) /\ UNCHANGED rxVars)
    /\ \A r \in Followed : WF_serverVars(RxStep(r))

ServerSpec == ServerInit /\ [][ServerNext]_serverVars /\ ServerFairness

-----------------------------------------------------------------------------
ServerTypeOK ==
    /\ TypeOK
    /\ rxPc \in [Followed -> RxPcs]
    /\ rxSocket \in [Followed -> Runs \cup {NoSocket}]
    /\ pending \in [Followed -> 0 .. ChannelCap]

Captured(r) == r \in Followed /\ rxPc[r] \notin {"none", "start"}

(* While a run serves and no calls overlap, the context is set, srv.socket   *)
(* is the socket it opened, still open, and its receiver reads that socket:  *)
(* the deferred function of another call clears the same fields, and the     *)
(* receiver looks at srv.socket whenever it comes to run (server.go:295,     *)
(* :361, :370-374).                                                         *)
RunKeepsItsFields ==
    /\ FieldsWhileServing
    /\ overlapped \/ \A r \in InLoop : Captured(r) => rxSocket[r] = r

Settled ==
    /\ \A p \in Stops : stopPc[p] \in {"new", "done"}
    /\ \/ on
       \/ /\ \A r \in Runs : runPc[r] \in {"new", "done"}
          /\ \A r \in Followed :
                \/ rxPc[r] \in {"none", "done"}
                \/ rxPc[r] = "send" /\ pending[r] = ChannelCap

(* However the calls overlap, in the end every Stop has returned, and the     *)
(* flag is on or every Run and every receiver has ended, but for receivers    *)
(* their loop has left with a full channel; unless the process has died or    *)
(* Setup has kept the mutex of the table (server.go:296, :309, :315, :389,    *)
(* runningState.go, SetOff and SignalShutdownComplete).                      *)
ServerSettles == <>[](Settled \/ panicked \/ table.locked)
=============================================================================
