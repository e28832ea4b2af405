---------------------------- MODULE MCMessages ----------------------------
(***************************************************************************)
(* A message's way, for TLC, one model at a time: the first state chooses   *)
(* which, and the variables of the others never change.                     *)
(***************************************************************************)
EXTENDS Forwarding, MsgValues, GuestWindows

VARIABLE part

MCPerNotch == {1, 40, PageScroll}
MCDeltas == {-1, 1, 2, -4, 7}
NoValue == [way |-> "none"]

MCVars == <<part, fwdVars, q, wheelVars, paintVars, winVars>>

\* Nothing in flight, where that is not what is looked at.
NothingForwarded == FwdInit /\ subclassed = {} /\ kinds = {"answer"}

MCInit ==
    /\ part \in {"forwarding", "values", "wheel", "paints", "windows"}
    /\ WheelInit /\ PaintsInit /\ WindowsInit
    /\ IF part = "forwarding" THEN FwdInit ELSE NothingForwarded
    /\ IF part = "values" THEN ValuesAny ELSE q = NoValue

MCNext ==
    /\ UNCHANGED <<part, q>>
    /\ \/ part = "forwarding" /\ FwdStep /\ UNCHANGED <<wheelVars, paintVars, winVars>>
       \/ part = "wheel" /\ Turn /\ UNCHANGED <<fwdVars, paintVars, winVars>>
       \/ part = "paints" /\ PaintStep /\ UNCHANGED <<fwdVars, wheelVars, winVars>>
       \/ part = "windows" /\ WindowStep /\ UNCHANGED <<fwdVars, wheelVars, paintVars>>

MCSpec == MCInit /\ [][MCNext]_MCVars
=============================================================================
