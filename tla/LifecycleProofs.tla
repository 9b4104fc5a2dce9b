--------------------------- MODULE LifecycleProofs --------------------------
(***************************************************************************)
(* Starting and stopping, for any number of calls of Run and Stop.          *)
(***************************************************************************)
EXTENDS Receiver, FiniteSetTheorems, TLAPS

(* The run that SetOn has let through, until it signals its end.            *)
OwnerPcs == {"openPort", "configure", "clear", "setup", "loop", "iterate", "blocked",
             "exitCtx", "exitSocket", "exitOff"}

Owns(r) == runPc[r] \in OwnerPcs

Starting(r) == runPc[r] \in {"isOn", "setCtx", "setOn"}

Serving(r) == runPc[r] \in {"configure", "clear", "setup", "loop", "iterate", "blocked"}

Stopping(p) == stopPc[p] \notin {"new", "done"}

PcsOK ==
    /\ runPc \in [Runs -> RunPcs]
    /\ stopPc \in [Stops -> StopPcs]
    /\ on \in BOOLEAN /\ overlapped \in BOOLEAN
    /\ socket \in Runs \cup {NoSocket}

(* SetOn lets one through until the flag is off.                            *)
OneOwner == \A r, s \in Runs : Owns(r) /\ Owns(s) => r = s

(* The flag goes off under an owner only by a Stop that then waits.         *)
OwnerSeen == \A r \in Runs : Owns(r) => on \/ \E p \in Stops : stopPc[p] = "waiting"

(* A Stop has come alone, and finds no Run that starts.                     *)
OneStop == \A p, q \in Stops : Stopping(p) /\ Stopping(q) => p = q

NobodyStarts == \A p \in Stops : Stopping(p) => \A r \in Runs : ~Starting(r)

(* The broadcast it waits for is that of the owner it found.                *)
OneToBroadcast ==
    \A p \in Stops : Stopping(p) =>
        \A r, s \in Runs : /\ Owns(r) \/ runPc[r] = "broadcast"
                           /\ Owns(s) \/ runPc[s] = "broadcast"
                           => r = s

ResetsAlone == \A p \in Stops : stopPc[p] = "reset" => \A r \in Runs : ~Owns(r)

KeepsItsFields == \A r \in Runs : Serving(r) => ctx /\ socket = r /\ r \in bound

Alone ==
    /\ OneOwner /\ OwnerSeen /\ OneStop /\ NobodyStarts
    /\ OneToBroadcast /\ ResetsAlone /\ KeepsItsFields

LInv == PcsOK /\ FlagHasOwner /\ (overlapped \/ Alone)

(* The receiver looks at srv.socket while its run holds it, or later.       *)
ReadsItsSocket ==
    /\ rxPc \in [Followed -> RxPcs]
    /\ rxSocket \in [Followed -> Runs \cup {NoSocket}]
    /\ overlapped \/ \A r \in Followed :
           runPc[r] \in {"loop", "iterate", "blocked"} /\ Captured(r) => rxSocket[r] = r

USE DEF PcsOK, RunPcs, StopPcs, OwnerPcs, Owns, Starting, Serving, Stopping, Alone

-----------------------------------------------------------------------------
(* The steps of a Run that has been called.                                  *)
LEMMA RunStepKeeps == ASSUME LInv, NEW r \in Runs, RunStep(r) PROVE LInv'
<1> USE DEF LInv
<1>1. CASE RunIsOn(r)
  BY <1>1 DEF RunIsOn, Goto, Move, FlagHasOwner, OneOwner, OwnerSeen, OneStop, NobodyStarts,
              OneToBroadcast, ResetsAlone, KeepsItsFields
<1>2. CASE SetCtx(r)
  BY <1>2 DEF SetCtx, Goto, Move, FlagHasOwner, OneOwner, OwnerSeen, OneStop, NobodyStarts,
              OneToBroadcast, ResetsAlone, KeepsItsFields
<1>3. CASE SetOn(r)
  BY <1>3 DEF SetOn, Goto, Move, FlagHasOwner, OneOwner, OwnerSeen, OneStop, NobodyStarts,
              OneToBroadcast, ResetsAlone, KeepsItsFields
<1>4. CASE OpenPort(r)
  BY <1>4 DEF OpenPort, Goto, Move, FlagHasOwner, OneOwner, OwnerSeen, OneStop, NobodyStarts,
              OneToBroadcast, ResetsAlone, KeepsItsFields
<1>5. CASE OpenPortFails(r) \/ Configure(r) \/ ResetForSetup(r) \/ Setup(r) \/ LoopIsOn(r)
             \/ Iterate(r) \/ IterateBlocks(r)
  BY <1>5 DEF OpenPortFails, Configure, ResetForSetup, Setup, LoopIsOn, Iterate,
              IterateBlocks, Goto, Move, FlagHasOwner, OneOwner, OwnerSeen, OneStop, NobodyStarts, OneToBroadcast,
              ResetsAlone, KeepsItsFields
<1>6. CASE CtxPanic(r) \/ TablePanic(r) \/ SocketPanic(r)
  BY <1>6 DEF CtxPanic, TablePanic, SocketPanic, Panic, FlagHasOwner, OneOwner, OwnerSeen,
              OneStop, NobodyStarts, OneToBroadcast, ResetsAlone, KeepsItsFields
<1>7. CASE ExitCtx(r) \/ ExitSocket(r)
  BY <1>7 DEF ExitCtx, ExitSocket, Goto, Move, FlagHasOwner, OneOwner, OwnerSeen, OneStop,
              NobodyStarts, OneToBroadcast, ResetsAlone, KeepsItsFields
<1>8. CASE ExitOff(r)
  BY <1>8 DEF ExitOff, Goto, Move, FlagHasOwner, OneOwner, OwnerSeen, OneStop, NobodyStarts,
              OneToBroadcast, ResetsAlone, KeepsItsFields
<1>9. CASE Broadcast(r)
  BY <1>9 DEF Broadcast, Goto, Move, FlagHasOwner, OneOwner, OwnerSeen, OneStop, NobodyStarts,
              OneToBroadcast, ResetsAlone, KeepsItsFields
<1> QED
  BY <1>1, <1>2, <1>3, <1>4, <1>5, <1>6, <1>7, <1>8, <1>9 DEF RunStep

(* The steps of a Stop that has been called.                                 *)
LEMMA StopStepKeeps == ASSUME LInv, NEW p \in Stops, StopStep(p) PROVE LInv'
<1> USE DEF LInv
<1>1. CASE SetOff(p)
  BY <1>1 DEF SetOff, StopGoto, StopMove, FlagHasOwner, OneOwner, OwnerSeen, OneStop,
              NobodyStarts, OneToBroadcast, ResetsAlone, KeepsItsFields
<1>2. CASE Reset(p)
  BY <1>2 DEF Reset, StopGoto, StopMove, FlagHasOwner, OneOwner, OwnerSeen, OneStop,
              NobodyStarts, OneToBroadcast, ResetsAlone, KeepsItsFields
<1> QED
  BY <1>1, <1>2 DEF StopStep

(* The calls themselves.                                                    *)
LEMMA CallsKeep ==
    ASSUME LInv, (\E r \in Runs : CallRun(r)) \/ (\E p \in Stops : CallStop(p))
    PROVE  LInv'
<1> USE DEF LInv
<1>1. ASSUME NEW r \in Runs, CallRun(r) PROVE LInv'
  BY <1>1 DEF CallRun, Move, StopInProgress, FlagHasOwner, OneOwner, OwnerSeen, OneStop,
              NobodyStarts, OneToBroadcast, ResetsAlone, KeepsItsFields
<1>2. ASSUME NEW p \in Stops, CallStop(p) PROVE LInv'
  BY <1>2 DEF CallStop, StopMove, StopInProgress, Unsettled, FlagHasOwner, OneOwner,
              OwnerSeen, OneStop, NobodyStarts, OneToBroadcast, ResetsAlone, KeepsItsFields
<1> QED
  BY <1>1, <1>2

(* LInv looks at these variables only.                                      *)
LEMMA LInvStutters == LInv /\ UNCHANGED <<on, ctx, socket, bound, runPc, stopPc, overlapped>>
                      => LInv'
BY DEF LInv, FlagHasOwner, OneOwner, OwnerSeen, OneStop, NobodyStarts, OneToBroadcast,
       ResetsAlone, KeepsItsFields

(* A receiver changes none of the fields.                                    *)
LEMMA RxStepChanges ==
    ASSUME NEW r \in Followed, RxStep(r)
    PROVE  UNCHANGED <<on, ctx, socket, bound, runPc, stopPc, overlapped>>
BY DEF RxStep, RxStart, RxIsOn, RxReceive, RxError, RxPanic, RxIsOnAgain, RxSend, RxGoto, vars

(* Every step of the whole.                                                  *)
LEMMA ServerStepKeeps == LInv /\ [ServerNext]_serverVars => LInv'
<1> SUFFICES ASSUME LInv, [ServerNext]_serverVars PROVE LInv'
  OBVIOUS
<1>1. ASSUME NEW r \in Runs, RunAndReceiver(r) PROVE LInv'
  BY <1>1, RunStepKeeps DEF RunAndReceiver
<1>2. ASSUME NEW p \in Stops, StopStep(p) PROVE LInv'
  BY <1>2, StopStepKeeps
<1>3. ASSUME NEW r \in Followed, RxStep(r) PROVE LInv'
  BY <1>3, RxStepChanges, LInvStutters
<1>4. CASE UNCHANGED serverVars
  BY <1>4, LInvStutters DEF serverVars, vars
<1> QED
  BY <1>1, <1>2, <1>3, <1>4, CallsKeep DEF ServerNext

(* Until its run has left the loop, only the receiver itself changes what it *)
(* reads, and srv.socket is then still that of its run.                      *)
LEMMA ReceiverKeeps ==
    LInv /\ ReadsItsSocket /\ [ServerNext]_serverVars => ReadsItsSocket'
<1> SUFFICES ASSUME LInv, ReadsItsSocket, [ServerNext]_serverVars PROVE ReadsItsSocket'
  OBVIOUS
<1> USE ReceiverAssumption DEF ReadsItsSocket, Captured, RxPcs
<1>1. ASSUME NEW r \in Runs, RunAndReceiver(r) PROVE ReadsItsSocket'
  <2>1. /\ rxSocket' = rxSocket
        /\ rxPc' = IF StartsReceiver(r) THEN [rxPc EXCEPT ![r] = "start"] ELSE rxPc
        /\ \A s \in Runs : s # r => runPc'[s] = runPc[s]
        /\ overlapped' = overlapped
    BY <1>1 DEF LInv, RunAndReceiver, RunStep, RunIsOn, SetCtx, SetOn, OpenPort, OpenPortFails,
                Configure, ResetForSetup, Setup, LoopIsOn, Iterate, IterateBlocks,
                CtxPanic, TablePanic, SocketPanic, Panic, ExitCtx, ExitSocket, ExitOff, Broadcast, Goto, Move
  <2>2. runPc'[r] \in {"loop", "iterate", "blocked"} =>
           StartsReceiver(r) \/ r \notin Followed \/ runPc[r] \in {"loop", "iterate", "blocked"}
    BY <1>1 DEF LInv, RunAndReceiver, RunStep, RunIsOn, SetCtx, SetOn, OpenPort, OpenPortFails,
                Configure, ResetForSetup, Setup, LoopIsOn, Iterate, IterateBlocks,
                CtxPanic, TablePanic, SocketPanic, Panic, ExitCtx, ExitSocket, ExitOff, Broadcast, Goto, Move,
                StartsReceiver
  <2>3. rxPc' \in [Followed -> RxPcs]
    BY <2>1 DEF StartsReceiver
  <2>4. ASSUME NEW s \in Followed, ~overlapped', Captured(s)',
               runPc'[s] \in {"loop", "iterate", "blocked"}
        PROVE  rxSocket'[s] = s
    <3>1. s \in Runs
      OBVIOUS
    <3>2. CASE s = r
      BY <2>1, <2>2, <2>4, <3>2 DEF StartsReceiver
    <3>3. CASE s # r
      BY <2>1, <2>4, <3>1, <3>3 DEF StartsReceiver
    <3> QED
      BY <3>2, <3>3
  <2>5. rxSocket' \in [Followed -> Runs \cup {NoSocket}]
    BY <2>1
  <2>6. \A s \in Followed : /\ ~overlapped' /\ Captured(s)'
                            /\ runPc'[s] \in {"loop", "iterate", "blocked"}
                            => rxSocket'[s] = s
    BY <2>4
  <2> QED
    BY <2>3, <2>5, <2>6
<1>2. ASSUME NEW r \in Followed, RxStep(r) PROVE ReadsItsSocket'
  <2>1. UNCHANGED <<socket, runPc, overlapped>>
    BY <1>2, RxStepChanges
  <2>2. CASE RxStart(r)
    <3>1. socket \in Runs \cup {NoSocket}
      BY DEF LInv
    <3> QED
      BY <2>1, <2>2, <3>1 DEF RxStart, RxGoto, LInv, KeepsItsFields
  <2>3. CASE ~RxStart(r)
    BY <1>2, <2>1, <2>3 DEF RxStep, RxIsOn, RxReceive, RxError, RxPanic, RxIsOnAgain, RxSend,
                            RxGoto, rxVars
  <2> QED
    BY <2>2, <2>3
<1>3. ASSUME NEW r \in Runs, CallRun(r), UNCHANGED rxVars PROVE ReadsItsSocket'
  BY <1>3 DEF CallRun, Move, rxVars, LInv
<1>4. ASSUME NEW p \in Stops, CallStop(p) \/ StopStep(p), UNCHANGED rxVars
      PROVE  ReadsItsSocket'
  BY <1>4 DEF CallStop, StopStep, SetOff, Reset, StopGoto, StopMove, rxVars
<1>5. CASE UNCHANGED serverVars
  BY <1>5 DEF serverVars, vars, rxVars
<1> QED
  BY <1>1, <1>2, <1>3, <1>4, <1>5 DEF ServerNext

-----------------------------------------------------------------------------
SInv == LInv /\ ReadsItsSocket

(* The inductive invariant all the others follow from (server.go:293-403).    *)
THEOREM ServerInvariant == ServerSpec => []SInv
<1>1. ServerInit => SInv
  BY ReceiverAssumption
     DEF ServerInit, Init, SInv, LInv, ReadsItsSocket, Captured, RxPcs, FlagHasOwner, OneOwner,
         OwnerSeen, OneStop, NobodyStarts, OneToBroadcast, ResetsAlone, KeepsItsFields
<1>2. SInv /\ [ServerNext]_serverVars => SInv'
  BY ServerStepKeeps, ReceiverKeeps DEF SInv
<1> QED
  BY <1>1, <1>2, PTL DEF ServerSpec

(* A flag that is on has a Run that will clear it, however calls of Run and  *)
(* Stop overlap (runningState.go, server.go:363-376).                        *)
THEOREM FlagIsOwned == ServerSpec => []FlagHasOwner
<1>1. SInv => FlagHasOwner
  BY DEF SInv, LInv
<1> QED
  BY <1>1, ServerInvariant, PTL

(* As long as no Run comes during a Stop, and no Stop while a Run starts or   *)
(* has yet to broadcast, any number of calls of Run leave one loop           *)
(* (server.go:363).                                                         *)
THEOREM OneLoop == ServerSpec => []SingleLoopUnlessOverlapped
<1>1. SInv => SingleLoopUnlessOverlapped
  <2> SUFFICES ASSUME SInv, ~overlapped PROVE Cardinality(InLoop) <= 1
    BY DEF SingleLoopUnlessOverlapped, SingleLoop
  <2>1. \A r, s \in InLoop : r = s
    BY DEF SInv, LInv, OneOwner, InLoop
  <2>2. CASE InLoop = {}
    BY <2>2, FS_EmptySet
  <2>3. CASE InLoop # {}
    <3>1. PICK r : r \in InLoop
      BY <2>3
    <3>2. InLoop = {r}
      BY <2>1, <3>1
    <3> QED
      BY <3>2, FS_Singleton
  <2> QED
    BY <2>2, <2>3
<1> QED
  BY <1>1, ServerInvariant, PTL

(* Then Stop resets cache and table only when no loop uses them             *)
(* (runningState.go, SetOff; server.go, Stop).                               *)
THEOREM StopWaits == ServerSpec => []StopMeansStopped
<1>1. SInv => StopMeansStopped
  BY DEF SInv, LInv, ResetsAlone, StopMeansStopped, InLoop
<1> QED
  BY <1>1, ServerInvariant, PTL

(* And the loop keeps its context and its socket, and its receiver reads     *)
(* that socket (server.go:295, :361, :370-374).                              *)
THEOREM FieldsStay == ServerSpec => []RunKeepsItsFields
<1>1. SInv => RunKeepsItsFields
  BY DEF SInv, LInv, KeepsItsFields, ReadsItsSocket, RunKeepsItsFields, FieldsWhileServing,
         InLoop, Captured
<1> QED
  BY <1>1, ServerInvariant, PTL
=============================================================================
