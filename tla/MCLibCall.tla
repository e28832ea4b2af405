----------------------------- MODULE MCLibCall -----------------------------
(***************************************************************************)
(* The library's calls for TLC: two threads and two arenas, or one call     *)
(* that blanks a password in a turn file, whole or cut off anywhere.        *)
(***************************************************************************)
EXTENDS LibCall, PasswordFile

VARIABLE part

MCThreads == {1, 2}
MCArenas == {1, 2}
MCStart == <<1, 11>>
MCEnd == <<6, 12>>

MCKey(n, j) == ((n * n) + (n \div 2) + j) % 2
MCStartOf(header) == header[2] + (2 * header[3])
BlockOf(type, n) == [type : {type}, plain : [1 .. n -> {0, 1}]]
Headers == {h \in BlockOf("header", 3) : h.plain[3] = 1}
Players ==
    BlockOf("player", 4) \cup {b \in BlockOf("player", 5) : b.plain[2] = 1 /\ b.plain[5] = 0}
    \cup {[type |-> "footer", plain |-> <<1>>]}
Middles ==
    {b \in Players : b.plain[Len(b.plain)] = 1}
    \cup {b \in BlockOf("planets", 3) : b.plain[1] = 0}
    \cup {[type |-> "planets", plain |-> <<1>>], [type |-> "other", plain |-> <<1>>],
          [type |-> "other", plain |-> <<0, 1, 1>>]}
MCTurns ==
    {<<h, a, b>> : h \in Headers, a \in Middles, b \in Players}
    \cup {<<h, a, b, [type |-> "player", plain |-> <<owner, 0, 1, 1>>]>> :
             h \in Headers, a \in {x \in Middles : x.type # "player"},
             b \in {x \in BlockOf("planets", 3) : x.plain[1] = 0}, owner \in {0, 1}}

MCInit ==
    /\ part \in {"calls", "password"}
    /\ Init
    /\ IF part = "password" THEN PasswordInit ELSE turn = 0 /\ blanked = [answer |-> "none"]

MCNext ==
    /\ UNCHANGED part
    /\ \/ part = "calls" /\ Next /\ UNCHANGED passwordVars
       \/ part = "password" /\ BlankFile /\ UNCHANGED vars

MCSpec == MCInit /\ [][MCNext]_<<part, vars, passwordVars>> /\ \A t \in Threads : WF_vars(InCall(t))
=============================================================================
