------------------------------ MODULE MCMemory ------------------------------
(* The memory the program is given, one part at a time: the global heap, a  *)
(* local heap, the table of handles.  A behaviour is about one of them and  *)
(* the others keep their first state, since none of the three changes       *)
(* another.                                                                 *)
EXTENDS GlobalHeap, LocalHeap, HandleMap

VARIABLE part              \* which part the behaviour is about

MCInit ==
    /\ part \in {"global", "local", "handles"}
    /\ Init /\ LocalInit /\ HandleInit

MCNext ==
    /\ UNCHANGED part
    /\ \/ part = "global" /\ Next /\ UNCHANGED <<localVars, handleVars>>
       \/ part = "local" /\ LocalNext /\ UNCHANGED <<vars, handleVars>>
       \/ part = "handles" /\ HandleNext /\ UNCHANGED <<vars, localVars>>

MCSpec == MCInit /\ [][MCNext]_<<part, vars, localVars, handleVars>>

=============================================================================
