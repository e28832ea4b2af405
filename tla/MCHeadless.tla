----------------------------- MODULE MCHeadless -----------------------------
(* The library's window system and its sounds, one part at a time: the      *)
(* windows, the queue, a list, the drawing objects, the mixer, the walk     *)
(* over a sound's chunks.  A behaviour is about one of them and the others  *)
(* keep their first state, since none of the six changes another.           *)
EXTENDS HeadlessWindows, HeadlessObjects, Mixer

VARIABLE part              \* which part the behaviour is about

\* The game has its main window and one in it, as it does most of the time.
Furnished(sys) ==
    [h \in Windows |->
        CASE h = 1 -> [used |-> TRUE, parent |-> None, sys |-> FALSE, shown |-> TRUE]
          [] h = 2 -> [used |-> TRUE, parent |-> 1, sys |-> sys, shown |-> TRUE]
          [] OTHER -> Free]

WindowsInit ==
    \/ Init
    \/ /\ \E sys \in BOOLEAN : wins = Furnished(sys)
       /\ named = [n \in Names |-> 2] /\ active = 1
       /\ stack = << >> /\ answer = 0 /\ calls = 0
       /\ told = [h \in Windows |-> IF wins[h].used /\ ~wins[h].sys
                                   THEN << "NCCREATE", "CREATE" >> ELSE << >>]

\* Two sounds in two formats.
TwoFormats == [r \in Resources |-> IF r = "r1" THEN "a" ELSE "b"]

NoWalk ==
    /\ len = 0 /\ end = 0 /\ at = 0 /\ fmtSeen = FALSE
    /\ data = 0 /\ datalen = 0 /\ walk = "refused"

MCInit ==
    /\ part \in {"windows", "queue", "list", "objects", "mixer", "riff"}
    /\ IF part = "windows" THEN WindowsInit ELSE Init
    /\ EmptyQueue /\ ListInit /\ ObjectInit /\ MixInit
    /\ IF part = "riff" THEN RiffAny ELSE NoWalk

Others(p) ==
    /\ part = p /\ UNCHANGED part
    /\ p # "windows" => UNCHANGED vars
    /\ p # "queue" => UNCHANGED queueVars
    /\ p # "list" => UNCHANGED listVars
    /\ p # "objects" => UNCHANGED objVars
    /\ p # "mixer" => UNCHANGED mixVars
    /\ p # "riff" => UNCHANGED riffVars

MCNext ==
    \/ Others("windows") /\ Next
    \/ Others("queue") /\ QueueStep
    \/ Others("list") /\ ListStep
    \/ Others("objects") /\ ObjectStep
    \/ Others("mixer") /\ MixStep
    \/ Others("riff") /\ RiffStep

MCSpec ==
    /\ MCInit /\ [][MCNext]_<<part, vars, queueVars, listVars, objVars, mixVars, riffVars>>
    /\ RiffRuns

=============================================================================
