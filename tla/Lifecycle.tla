------------------------------ MODULE Lifecycle -----------------------------
(***************************************************************************)
(* Starting and stopping the DNS server: Run and Stop of dns/server.go on   *)
(* goroutines of their own, around the flag and the condition variable of   *)
(* util/runningState.go.  Every step is what happens between two points     *)
(* where another goroutine can come in: under the mutex of the flag, or of  *)
(* the server table, or an access to a field without any lock.              *)
(***************************************************************************)
EXTENDS ServerTable, FiniteSets

CONSTANTS
    Runs,           (* the calls of Run                                     *)
    Stops,          (* the calls of Stop                                    *)
    NoSocket,       (* the nil socket                                       *)
    NumConfigured,  (* upstream servers in the configuration                *)
    PortFails       (* may opening port 53 fail while it is free?           *)

ASSUME LifecycleAssumption == NumConfigured \in Nat /\ NoSocket \notin Runs

VARIABLES
    on,         (* RunningState.on                                          *)
    ctx,        (* is srv.ctx set?                                          *)
    socket,     (* srv.socket, named by the run that opened it              *)
    bound,      (* the sockets that hold port 53                            *)
    table,      (* srv.udpServers                                           *)
    runPc,      (* where each call of Run is                                *)
    stopPc,     (* where each call of Stop is                               *)
    overlapped, (* not in the program: has a Run been called during a Stop, *)
                (* or a Stop during another, during the start of a Run, or  *)
                (* before the broadcast of a Run that has ended?            *)
    panicked    (* the process has died of a nil dereference                *)

vars == <<on, ctx, socket, bound, table, runPc, stopPc, overlapped,
          panicked>>

RunPcs == {"new", "isOn", "setCtx", "setOn", "openPort", "configure", "clear", "setup",
           "loop", "iterate", "blocked", "exitCtx", "exitSocket", "exitOff", "broadcast",
           "done"}

StopPcs == {"new", "setOff", "waiting", "reset", "done"}

Init ==
    /\ on = FALSE
    /\ ctx = FALSE
    /\ socket = NoSocket
    /\ bound = {}
    /\ table = NewTable
    /\ runPc = [r \in Runs |-> "new"]
    /\ stopPc = [p \in Stops |-> "new"]
    /\ overlapped = FALSE
    /\ panicked = FALSE

Move(r, from, to) ==
    /\ ~panicked
    /\ runPc[r] = from
    /\ runPc' = [runPc EXCEPT ![r] = to]

Goto(r, from, to) == Move(r, from, to) /\ UNCHANGED overlapped

Panic(r, at) ==
    /\ ~panicked
    /\ runPc[r] = at
    /\ panicked' = TRUE
    /\ UNCHANGED <<on, ctx, socket, bound, table, runPc, stopPc, overlapped>>

-----------------------------------------------------------------------------
StopInProgress == \E p \in Stops : stopPc[p] \notin {"new", "done"}

Unsettled == {"isOn", "setCtx", "setOn", "broadcast"}

(* Run                                                                     *)
CallRun(r) ==
    /\ Move(r, "new", "isOn")
    /\ overlapped' = (overlapped \/ StopInProgress)
    /\ UNCHANGED <<on, ctx, socket, bound, table, stopPc, panicked>>

RunIsOn(r) ==
    /\ Goto(r, "isOn", IF on THEN "done" ELSE "setCtx")
    /\ UNCHANGED <<on, ctx, socket, bound, table, stopPc, panicked>>

SetCtx(r) ==
    /\ Goto(r, "setCtx", "setOn")
    /\ ctx' = TRUE
    /\ UNCHANGED <<on, socket, bound, table, stopPc, panicked>>

(* Mutants of SetOn: its result is ignored; the deferred function is set up *)
(* before it, so that the second caller runs it.                            *)
SetOnIgnored(r) ==
    /\ Goto(r, "setOn", "openPort")
    /\ on' = TRUE
    /\ UNCHANGED <<ctx, socket, bound, table, stopPc, panicked>>

SetOnDeferredFirst(r) ==
    /\ Goto(r, "setOn", IF on THEN "exitCtx" ELSE "openPort")
    /\ on' = TRUE
    /\ UNCHANGED <<ctx, socket, bound, table, stopPc, panicked>>

(* SetOn; the second of two calls that both got here returns.              *)
SetOn(r) ==
    /\ Goto(r, "setOn", IF on THEN "done" ELSE "openPort")
    /\ on' = TRUE
    /\ UNCHANGED <<ctx, socket, bound, table, stopPc, panicked>>

OpenPort(r) ==
    /\ ctx
    /\ bound = {}
    /\ Goto(r, "openPort", "configure")
    /\ socket' = r
    /\ bound' = {r}
    /\ UNCHANGED <<on, ctx, table, stopPc, panicked>>

(* Opening fails too when a socket of another run still holds the port.     *)
OpenPortFails(r) ==
    /\ ctx
    /\ PortFails \/ bound # {}
    /\ Goto(r, "openPort", "exitCtx")
    /\ UNCHANGED <<on, ctx, socket, bound, table, stopPc, panicked>>

(* OnConfigUpdate                                                          *)
Configure(r) ==
    /\ Goto(r, "configure", IF on THEN "clear" ELSE "loop")
    /\ UNCHANGED <<on, ctx, socket, bound, table, stopPc, panicked>>

ResetForSetup(r) ==
    /\ ~table.locked
    /\ Goto(r, "clear", "setup")
    /\ table' = ClearTable(table)
    /\ UNCHANGED <<on, ctx, socket, bound, stopPc, panicked>>

(* The error of Setup is ignored.                                           *)
Setup(r) ==
    /\ ctx
    /\ ~table.locked
    /\ Goto(r, "setup", "loop")
    /\ table' = SetupTable(table, NumConfigured)
    /\ UNCHANGED <<on, ctx, socket, bound, stopPc, panicked>>

LoopIsOn(r) ==
    /\ Goto(r, "loop", IF on THEN "iterate" ELSE "exitCtx")
    /\ UNCHANGED <<on, ctx, socket, bound, table, stopPc, panicked>>

(* An iteration: a message answered without the upstream servers, or one,   *)
(* or a clean-up, that takes the mutex of the table and releases it.        *)
Iterate(r) ==
    /\ Goto(r, "iterate", "loop")
    /\ UNCHANGED <<on, ctx, socket, bound, table, stopPc, panicked>>

(* Or one of the latter, when Setup has kept the mutex for ever.            *)
IterateBlocks(r) ==
    /\ table.locked
    /\ Goto(r, "iterate", "blocked")
    /\ UNCHANGED <<on, ctx, socket, bound, table, stopPc, panicked>>

(* openPort, Setup and the handlers read the configuration through srv.ctx; *)
(* the handlers of responses and forwarding go through the table.           *)
CtxPanic(r) == ~ctx /\ \E at \in {"openPort", "setup", "iterate"} : Panic(r, at)

TablePanic(r) == ~table.locked /\ HasNil(table) /\ Panic(r, "iterate")

(* And they write to srv.socket.                                            *)
SocketPanic(r) == socket = NoSocket /\ Panic(r, "iterate")

(* The deferred function.                                                   *)
ExitCtx(r) ==
    /\ Goto(r, "exitCtx", "exitSocket")
    /\ ctx' = FALSE
    /\ UNCHANGED <<on, socket, bound, table, stopPc, panicked>>

ExitSocket(r) ==
    /\ Goto(r, "exitSocket", "exitOff")
    /\ bound' = bound \ {socket}
    /\ socket' = NoSocket
    /\ UNCHANGED <<on, ctx, table, stopPc, panicked>>

(* A mutant of ExitOff: the flag is left as it is.                         *)
ExitLeavesOn(r) ==
    /\ Goto(r, "exitOff", "broadcast")
    /\ UNCHANGED <<on, ctx, socket, bound, table, stopPc, panicked>>

(* SignalShutdownComplete releases the mutex before it broadcasts.          *)
ExitOff(r) ==
    /\ Goto(r, "exitOff", "broadcast")
    /\ on' = FALSE
    /\ UNCHANGED <<ctx, socket, bound, table, stopPc, panicked>>

Broadcast(r) ==
    /\ Goto(r, "broadcast", "done")
    /\ stopPc' = [p \in Stops |-> IF stopPc[p] = "waiting" THEN "reset" ELSE stopPc[p]]
    /\ UNCHANGED <<on, ctx, socket, bound, table, panicked>>

RunStep(r) ==
    \/ RunIsOn(r) \/ SetCtx(r) \/ SetOn(r) \/ OpenPort(r) \/ OpenPortFails(r)
    \/ Configure(r) \/ ResetForSetup(r) \/ Setup(r)
    \/ LoopIsOn(r) \/ Iterate(r) \/ IterateBlocks(r)
    \/ CtxPanic(r) \/ TablePanic(r) \/ SocketPanic(r)
    \/ ExitCtx(r) \/ ExitSocket(r) \/ ExitOff(r) \/ Broadcast(r)

-----------------------------------------------------------------------------
(* Stop                                                                    *)
StopMove(p, from, to) ==
    /\ ~panicked
    /\ stopPc[p] = from
    /\ stopPc' = [stopPc EXCEPT ![p] = to]

StopGoto(p, from, to) == StopMove(p, from, to) /\ UNCHANGED overlapped

CallStop(p) ==
    /\ StopMove(p, "new", "setOff")
    /\ overlapped' = (overlapped \/ StopInProgress \/ \E r \in Runs : runPc[r] \in Unsettled)
    /\ UNCHANGED <<on, ctx, socket, bound, table, runPc, panicked>>

(* A mutant of SetOff: it does not wait.                                    *)
SetOffReturns(p) ==
    /\ StopGoto(p, "setOff", "reset")
    /\ on' = FALSE
    /\ UNCHANGED <<ctx, socket, bound, table, runPc, panicked>>

(* SetOff: testing the flag and starting to wait are one step.              *)
SetOff(p) ==
    /\ StopGoto(p, "setOff", IF on THEN "waiting" ELSE "reset")
    /\ on' = FALSE
    /\ UNCHANGED <<ctx, socket, bound, table, runPc, panicked>>

Reset(p) ==
    /\ ~table.locked
    /\ StopGoto(p, "reset", "done")
    /\ table' = ClearTable(table)
    /\ UNCHANGED <<on, ctx, socket, bound, runPc, panicked>>

StopStep(p) == SetOff(p) \/ Reset(p)

Next ==
    \/ \E r \in Runs : CallRun(r) \/ RunStep(r)
    \/ \E p \in Stops : CallStop(p) \/ StopStep(p)

Fairness ==
    /\ \A r \in Runs : WF_vars(RunStep(r))
    /\ \A p \in Stops : WF_vars(StopStep(p))

Spec == Init /\ [][Next]_vars /\ Fairness

-----------------------------------------------------------------------------
TypeOK ==
    /\ on \in BOOLEAN /\ ctx \in BOOLEAN /\ panicked \in BOOLEAN /\ overlapped \in BOOLEAN
    /\ socket \in Runs \cup {NoSocket}
    /\ bound \subseteq Runs
    /\ table \in Table
    /\ runPc \in [Runs -> RunPcs]
    /\ stopPc \in [Stops -> StopPcs]

InLoop == {r \in Runs : runPc[r] \in {"loop", "iterate", "blocked"}}

(* Two loops never serve at once: SetOn lets one call of Run through, "already *)
(* running" (server.go:363-366).                                            *)
SingleLoop == Cardinality(InLoop) <= 1

(* It is so as long as no Run comes during a Stop and no Stop while a Run     *)
(* starts or has yet to broadcast, however many calls of Run come at once    *)
(* (server.go:363).                                                         *)
SingleLoopUnlessOverlapped == overlapped \/ SingleLoop

(* Then Stop returns, and resets the cache and the table, only when the loop *)
(* has ended (runningState.go SetOff, server.go Stop).                      *)
StopMeansStopped ==
    overlapped \/ ((\E p \in Stops : stopPc[p] = "reset") => InLoop = {})

(* And neither the context nor the socket is taken away from a loop, though  *)
(* the deferred function of an earlier call of Run clears the same fields    *)
(* (server.go:361, :370-374).                                               *)
FieldsWhileServing ==
    overlapped \/ \A r \in InLoop : ctx /\ socket = r /\ r \in bound

(* Whoever set the flag will clear it: a flag left on by nobody would make  *)
(* every later Run return at once and every later Stop wait for ever        *)
(* (server.go:363-376).                                                     *)
FlagHasOwner ==
    on => \E r \in Runs : runPc[r] \in {"openPort", "configure", "clear", "setup", "loop",
                                        "iterate", "blocked", "exitCtx", "exitSocket", "exitOff"}

(* After Setup the table holds the servers of the configuration and no nil, *)
(* calls that overlap aside, as the comment "clear" at udp.go:159 intends.   *)
SetupReplaces == overlapped \/ (InLoop # {} /\ ~StopInProgress => ~HasNil(table))
=============================================================================
