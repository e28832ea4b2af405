---------------------------- MODULE GuestWindows ----------------------------
(***************************************************************************)
(* Whose procedure a window runs (the tables of winproc.c and dlg.c, and    *)
(* u_CreateWindow, u_SetWindowLong, u_DestroyWindow of api_user.c).  Every   *)
(* window of a guest class runs the bridge; the guest's procedure is looked  *)
(* up by window handle.  A window's first message comes before its handle is *)
(* known to whoever creates it, so that procedure waits to be adopted.      *)
(*                                                                         *)
(* The host does not give a handle out again while this is looked at.       *)
(***************************************************************************)
EXTENDS Naturals, Sequences, SequencesExt, Functions

CONSTANTS MAX_WINDOWS, MAX_DIALOGS,
          Procs,           \* procedures of the guest
          Stock,           \* procedures of the host's own controls
          MaxSaved,        \* BOUND: procedures replaced and not yet restored
          MaxNest,         \* BOUND: windows being made at once
          LastHwnd         \* BOUND: windows made, handles 1 .. LastHwnd

ASSUME WindowConstants ==
    /\ {MAX_WINDOWS, MAX_DIALOGS, MaxNest, MaxSaved} \subseteq Nat \ {0}
    /\ LastHwnd \in Nat /\ Procs \cap Stock = {}
    /\ {"none", "bridge", "dialog"} \cap (Procs \cup Stock) = {}

VARIABLES win,             \* the host's windows
          wins, dlgs,      \* the guest's procedures, by window
          pending, dlgPending,
          creating,        \* the windows being created, the innermost last
          stopped,         \* a stop is latched
          saved,           \* what the guest was given for what it replaced
          awaits,          \* the innermost has had no message yet
          strayed,         \* a message ran a procedure not meant for its window
          refused          \* a table was full once

winVars == <<win, wins, dlgs, pending, dlgPending, creating, stopped,
             saved, awaits, strayed, refused>>

Hwnds == 1 .. LastHwnd
NoProc == "none"
NoEntry == [hwnd |-> 0, proc |-> NoProc, modeless |-> FALSE]
NoWindow == [host |-> NoProc, parent |-> 0, alive |-> FALSE, meant |-> NoProc, modal |-> FALSE]

Alive == {h \in Hwnds : win[h].alive}
Fresh == {h \in Hwnds : win[h] = NoWindow /\ \A g \in Hwnds : g < h => win[g] # NoWindow}

---------------------------------------------------------------------------
(* The tables *)

\* The window's own place in a table, else the first free one, else none.
SlotOf(T, h) ==
    LET own == {i \in DOMAIN T : T[i].hwnd = h}
        free == {i \in DOMAIN T : T[i].hwnd = 0}
        S == IF own # {} THEN own ELSE free
    IN  IF S = {} THEN 0 ELSE CHOOSE i \in S : \A j \in S : i <= j

Has(T, h) == \E i \in DOMAIN T : T[i].hwnd = h
ProcOf(T, h) == IF Has(T, h) THEN T[SlotOf(T, h)].proc ELSE NoProc
Set(T, h, p, modeless) ==
    IF SlotOf(T, h) = 0 THEN T
    ELSE [T EXCEPT ![SlotOf(T, h)] = [hwnd |-> h, proc |-> p, modeless |-> modeless]]
Full(T, h) == SlotOf(T, h) = 0

\* A mistake it could have made: an entry once made stays.
ForgetNot(T, h) == T

Forget(T, h) == [i \in DOMAIN T |-> IF T[i].hwnd = h THEN NoEntry ELSE T[i]]

---------------------------------------------------------------------------
(* Creating *)

\* The window being made has its first message before anything else happens.
MayCreate == ~awaits /\ Len(creating) < MaxNest

Starts(h, w) == win' = [win EXCEPT ![h] = w] /\ creating' = Append(creating, h)

CreateWindow ==
    /\ MayCreate /\ ~stopped
    /\ \E h \in Fresh, p \in Procs, parent \in {0} \cup Alive :
       /\ Starts(h, [host |-> "bridge", parent |-> parent, alive |-> TRUE, meant |-> p, modal |-> FALSE])
       /\ pending' = p
    /\ awaits' = TRUE
    /\ UNCHANGED <<wins, dlgs, dlgPending, stopped, saved, strayed, refused>>

\* A control of the host's own is made at once.
CreateControl ==
    /\ MayCreate /\ ~stopped
    /\ \E h \in Fresh, s \in Stock, parent \in Alive :
          win' = [win EXCEPT ![h] = [host |-> s, parent |-> parent, alive |-> TRUE,
                                     meant |-> NoProc, modal |-> FALSE]]
    /\ pending' = NoProc
    /\ UNCHANGED <<wins, dlgs, dlgPending, creating, stopped, saved, awaits, strayed, refused>>

CreateDialog ==
    /\ MayCreate /\ ~stopped
    /\ \E h \in Fresh, p \in Procs, modal \in BOOLEAN :
       /\ Starts(h, [host |-> "dialog", parent |-> 0, alive |-> TRUE, meant |-> p, modal |-> modal])
       /\ dlgPending' = [proc |-> p, modeless |-> ~modal]
    /\ awaits' = TRUE
    /\ UNCHANGED <<wins, dlgs, pending, stopped, saved, strayed, refused>>

\* The call returns: a window of a guest class is entered once more.
Created ==
    /\ creating # << >> /\ ~awaits
    /\ LET h == Last(creating) IN
       /\ IF win[h].host = "bridge" /\ win[h].alive
          THEN /\ wins' = Set(wins, h, win[h].meant, FALSE)
               /\ refused' = (refused \/ Full(wins, h))
          ELSE UNCHANGED <<wins, refused>>
       /\ IF win[h].host = "dialog" THEN UNCHANGED pending ELSE pending' = NoProc
       /\ dlgPending' = IF win[h].host = "dialog" THEN [dlgPending EXCEPT !.proc = NoProc] ELSE dlgPending
    /\ creating' = Front(creating)
    /\ UNCHANGED <<win, dlgs, stopped, saved, awaits, strayed>>

---------------------------------------------------------------------------
(* A message comes *)

\* What waits after a message to a window that is known, or that adopts it.
AfterAdoption(known, p) == IF known THEN p ELSE NoProc

Message ==
    /\ \E h \in Alive :
       /\ win[h].host = "bridge" /\ (awaits => h = Last(creating))
       /\ LET known == ProcOf(wins, h) # NoProc
              p == IF known THEN ProcOf(wins, h) ELSE pending
          IN  /\ wins' = IF known \/ p = NoProc THEN wins ELSE Set(wins, h, p, FALSE)
              /\ refused' = (refused \/ (~known /\ p # NoProc /\ Full(wins, h)))
              /\ pending' = AfterAdoption(known, pending)
              /\ awaits' = FALSE
              /\ strayed' = (strayed \/ (~stopped /\ p # win[h].meant))
    /\ UNCHANGED <<win, dlgs, dlgPending, creating, stopped, saved>>

\* A mistake it could have made: a dialog is left to itself when nothing can run.
LeftOpen(D, h) == FALSE

\* A modal dialog the table has is closed when nothing can run.
Closes(D, h) == stopped /\ Has(D, h) /\ ~D[SlotOf(D, h)].modeless

Family(h) == {g \in Hwnds : g = h \/ win[g].parent = h}
Dead(S) == [g \in Hwnds |-> IF g \in S THEN [win[g] EXCEPT !.alive = FALSE] ELSE win[g]]

DialogMessage ==
    /\ \E h \in Alive :
       /\ win[h].host = "dialog" /\ (awaits => h = Last(creating))
       /\ LET known == ProcOf(dlgs, h) # NoProc
              p == IF known THEN ProcOf(dlgs, h) ELSE dlgPending.proc
          IN  /\ dlgs' = IF known \/ p = NoProc THEN dlgs ELSE Set(dlgs, h, p, dlgPending.modeless)
              /\ refused' = (refused \/ (~known /\ p # NoProc /\ Full(dlgs, h)))
              /\ dlgPending' = IF known THEN dlgPending ELSE [dlgPending EXCEPT !.proc = NoProc]
              /\ awaits' = FALSE
              /\ strayed' = (strayed \/ (~stopped /\ p # win[h].meant))
              /\ win' = IF p # NoProc /\ Closes(dlgs', h) THEN Dead(Family(h)) ELSE win
    /\ UNCHANGED <<wins, pending, creating, stopped, saved>>

---------------------------------------------------------------------------
(* Subclassing *)

\* BOUND: the guest destroys and subclasses nothing while a window is being made.
Quiet == creating = << >>

\* What GetWindowLong gives for the procedure: the guest's, or the host's as a
\* value of ours.
Given(h) == IF ProcOf(wins, h) # NoProc THEN ProcOf(wins, h) ELSE win[h].host

SetProc(h, val, meant) ==
    IF val \in Stock
    THEN /\ wins' = Forget(wins, h)
         /\ win' = [win EXCEPT ![h].host = val, ![h].meant = meant]
         /\ UNCHANGED refused
    ELSE /\ wins' = Set(wins, h, val, FALSE)
         /\ win' = [win EXCEPT ![h].host = "bridge", ![h].meant = meant]
         /\ refused' = (refused \/ Full(wins, h))

Subclass ==
    /\ Quiet /\ ~stopped
    /\ \E h \in Alive, p \in Procs :
       /\ win[h].host # "dialog" /\ SumFunction([g \in Hwnds |-> Len(saved[g])]) < MaxSaved
       /\ SetProc(h, p, p)
       /\ saved' = [saved EXCEPT ![h] = Append(@, [given |-> Given(h), meant |-> win[h].meant,
                                                   host |-> win[h].host])]
    /\ UNCHANGED <<dlgs, pending, dlgPending, creating, stopped, awaits, strayed>>

\* The guest gives back what it was given.
Unsubclass ==
    /\ Quiet /\ ~stopped
    /\ \E h \in Alive :
       /\ saved[h] # << >>
       /\ SetProc(h, Last(saved[h]).given, Last(saved[h]).meant)
       /\ saved' = [saved EXCEPT ![h] = Front(@)]
    /\ UNCHANGED <<dlgs, pending, dlgPending, creating, stopped, awaits, strayed>>

---------------------------------------------------------------------------
(* Destroying, and the stop *)

\* The host destroys a window's children with it, but only the window itself
\* is forgotten; the dialog's own last message clears its entry.
DestroyWindow ==
    /\ Quiet /\ ~stopped
    /\ \E h \in Alive :
       /\ win[h].host # "dialog"
       /\ win' = Dead(Family(h))
       /\ wins' = Forget(wins, h)
    /\ UNCHANGED <<dlgs, pending, dlgPending, creating, stopped, saved, awaits, strayed, refused>>

EndDialog ==
    /\ Quiet /\ ~stopped
    /\ \E h \in Alive :
       /\ win[h].host = "dialog"
       /\ win' = Dead(Family(h))
       /\ dlgs' = IF ProcOf(dlgs, h) # NoProc THEN Forget(dlgs, h) ELSE dlgs
    /\ UNCHANGED <<wins, pending, dlgPending, creating, stopped, saved, awaits, strayed, refused>>

Stop ==
    /\ stopped' = TRUE /\ ~stopped
    /\ UNCHANGED <<win, wins, dlgs, pending, dlgPending, creating, saved, awaits, strayed, refused>>

WindowsInit ==
    /\ win = [h \in Hwnds |-> NoWindow]
    /\ wins = [i \in 1 .. MAX_WINDOWS |-> NoEntry]
    /\ dlgs = [i \in 1 .. MAX_DIALOGS |-> NoEntry]
    /\ pending = NoProc
    /\ dlgPending = [proc |-> NoProc, modeless |-> FALSE]
    /\ creating = << >> /\ stopped = FALSE
    /\ saved = [h \in Hwnds |-> << >>]
    /\ awaits = FALSE /\ strayed = FALSE /\ refused = FALSE

WindowStep ==
    \/ CreateWindow \/ CreateControl \/ CreateDialog \/ Created
    \/ Message \/ DialogMessage \/ Subclass \/ Unsubclass
    \/ DestroyWindow \/ EndDialog \/ Stop

\* USER32 sends a window it makes its first message, and goes on sending a dialog
\* messages, as its modal loop does.
DialogsRun == /\ WF_winVars(DialogMessage /\ win' # win)
              /\ WF_winVars(awaits /\ (Message \/ DialogMessage))

---------------------------------------------------------------------------
(* Properties *)

\* The guest procedure a message runs is the one the guest means for that
\* window, from the first message on, however creations nest, and none runs for a
\* window of the host's own - as long as every procedure found a place.
RightProc == strayed => refused

\* Giving back what it was given, the guest gets the window as it was before it put
\* its procedure there, to be asked of and to run.
RestoresWhatWas ==
    [][ \A h \in Hwnds :
          Len(saved'[h]) < Len(saved[h]) /\ win'[h].alive /\ ~refused' =>
             /\ win'[h].host = Last(saved[h]).host
             /\ Given(h)' = Last(saved[h]).given ]_winVars

\* A window has the procedure the guest means for it, from its making through
\* every subclassing and its undoing.
ProcsRight == []RightProc /\ RestoresWhatWas

\* A stop leaves no modal dialog waiting for an answer nobody can give.
NoDialogOutlivesAStop ==
    \A h \in Hwnds : (stopped /\ win[h].modal) ~> (~win[h].alive \/ refused)

=============================================================================
