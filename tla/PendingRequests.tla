-------------------------- MODULE PendingRequests ---------------------------
(***************************************************************************)
(* What a table of forwarded requests promises: a set of pending requests, *)
(* each with a deadline.  Ids do not appear; all that is left of them is    *)
(* that a submission displaces the request submitted Capacity calls before. *)
(***************************************************************************)
EXTENDS Integers

CONSTANTS Capacity, MaxForwardDelay, MaxAdds, MaxTime

VARIABLES pending, clock, issued, settled, timedOut

absVars == <<pending, clock, issued, settled, timedOut>>

Init ==
    /\ pending = {}
    /\ clock = 0
    /\ issued = 0
    /\ settled = {}
    /\ timedOut = {}

Submit ==
    /\ issued < MaxAdds
    /\ issued' = issued + 1
    /\ pending' = {p \in pending : p.serial # issued' - Capacity}
                    \cup {[serial |-> issued', deadline |-> clock + MaxForwardDelay]}
    /\ UNCHANGED <<clock, settled, timedOut>>

Settle(p) ==
    /\ p \in pending
    /\ pending' = pending \ {p}
    /\ settled' = settled \cup {p.serial}
    /\ UNCHANGED <<clock, issued, timedOut>>

Overdue == {p \in pending : p.deadline < clock}

Sweep ==
    /\ pending' = pending \ Overdue
    /\ timedOut' = timedOut \cup {p.serial : p \in Overdue}
    /\ UNCHANGED <<clock, issued, settled>>

Discard ==
    /\ pending' = {}
    /\ UNCHANGED <<clock, issued, settled, timedOut>>

Advance ==
    /\ clock < MaxTime
    /\ clock' = clock + 1
    /\ UNCHANGED <<pending, issued, settled, timedOut>>

Next ==
    \/ Submit
    \/ \E p \in pending : Settle(p)
    \/ Sweep
    \/ Discard
    \/ Advance

Spec == Init /\ [][Next]_absVars
=============================================================================
