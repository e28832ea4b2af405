------------------------------ MODULE MCFiles ------------------------------
(***************************************************************************)
(* The files the guest writes, for TLC: one through a buffer, or a profile  *)
(* rewritten line by line.  The first state chooses which.  A buffer of two *)
(* bytes stands for 16 KB, so that strings shorter than it, as long as it   *)
(* and longer than it all occur.                                            *)
(***************************************************************************)
EXTENDS BufferedFile, Profiles

VARIABLE part

MCVars == <<part, vars, profileVars>>

MCData == {<<1>>, <<2, 3>>, <<2, 3, 2>>}
MCOffs == {-1, 0}

Text == [kind |-> "text"]
MCNames == {[kind |-> "none", length |-> 3, path |-> Own],
            [kind |-> "absolute", length |-> 5, path |-> Own],
            [kind |-> "bare", length |-> 4, path |-> "long"]}
MCFirst ==
    {<<Text, Heading("S"), PairLine("K", 1), Heading("T"), PairLine("K", 1), Heading("S"), PairLine("K", 2)>>,
     <<PairLine("K", 2), Heading(""), PairLine("K", 1), Heading("T"), PairLine("GS", 1), PairLine("GS", 2)>>}
MCLayout == <<"S", "K">>

ProfileIdle == /\ ini = 0 /\ tmp = 0 /\ job = Idle /\ prompt = FALSE /\ wanted = 0 /\ due = 0
               /\ lost = TRUE /\ writes = 0 /\ faults = 0

MCInit ==
    /\ part \in {"buffered", "profiles"}
    /\ Init
    /\ IF part = "profiles" THEN ProfileInit ELSE ProfileIdle

MCNext ==
    /\ UNCHANGED part
    /\ \/ part = "buffered" /\ Next /\ UNCHANGED profileVars
       \/ part = "profiles" /\ ProfileNext /\ UNCHANGED vars

MCSpec == MCInit /\ [][MCNext]_MCVars
=============================================================================
