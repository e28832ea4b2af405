-------------------------- MODULE HeadlessWindows ---------------------------
(***************************************************************************)
(* The library's windows (headless.c): the table of them, the messages the  *)
(* host sends while it makes, shows, moves and destroys one, and the focus, *)
(* the capture and the active window.                                       *)
(*                                                                          *)
(* A message to a window of the guest's class is a call into the guest, and *)
(* the guest may call back for anything before it answers.  So a host       *)
(* function is a frame on `stack` that says where in the function it waits  *)
(* and for which window; under it is the guest code that called it, above   *)
(* it the handler it waits for.  A message to a predefined control is       *)
(* answered on the spot (defwndproc).                                       *)
(*                                                                          *)
(* The guest is any program that keeps the rules Windows has for programs:  *)
(* see "the guest's manners" below.  What a message carries is left out,    *)
(* and so are text, ids, styles and extra bytes.                            *)
(***************************************************************************)
EXTENDS Integers, Sequences, FiniteSets, SequencesExt, FiniteSetsExt

CONSTANTS MAX_WINS,        \* slots in the table: 256
          Names,           \* what else names a window: focus and capture
          MaxDepth,        \* handlers inside handlers: 32
          MaxCalls         \* BOUND: calls the guest makes in one play

ASSUME WindowConstants ==
    /\ MAX_WINS \in Nat \ {0}
    /\ MaxDepth \in Nat

VARIABLES wins,            \* the table
          named,           \* the focus and the capture
          active,
          stack,           \* frames of host and guest, innermost last
          answer,          \* what was answered, when u_CreateWindow asks
          told,            \* history: the messages of its life each window got
          calls            \* BOUND: counts the guest's calls

vars == <<wins, named, active, stack, answer, told, calls>>

Windows == 1 .. MAX_WINS
None == 0                  \* no window; handles are the numbers of the slots
Free == [used |-> FALSE, parent |-> None, sys |-> FALSE, shown |-> FALSE]
Life == << "NCCREATE", "CREATE", "DESTROY", "NCDESTROY" >>

-----------------------------------------------------------------------------
(* Windows and frames.                                                      *)

\* win_get.
Live(h) == h # None /\ wins[h].used
Children(h) == {k \in Windows : wins[k].used /\ wins[k].parent = h}

\* win_origin's way up: the window and those it is in.
Around(k) ==
    {h \in Windows : \A S \in SUBSET Windows :
         k \in S /\ (\A x \in S : wins[x].parent \in S \cup {None}) => h \in S}

Lowest(S) == IF S = {} THEN None ELSE Min(S)

\* u_GetWindow: the first child, and the next window with the same parent.
FirstChild(h) == Lowest(Children(h))
NextWindow(h) == Lowest({k \in Children(wins[h].parent) : k > h})

\* The child a walk along GW_CHILD and GW_HWNDNEXT comes to as its n-th.
NthChild(h, n) ==
    LET at[i \in 1 .. MAX_WINS] ==
          IF i = 1 THEN FirstChild(h)
          ELSE IF at[i - 1] = None THEN None ELSE NextWindow(at[i - 1])
    IN  at[n]

Top == Last(stack)
Below == Front(stack)
Handlers(s) == Cardinality({n \in DOMAIN s : s[n].at = "guest"})
Frames(at, h) == {n \in DOMAIN stack : stack[n].at \in at /\ stack[n].h = h}
BeingDestroyed(h) == Frames({"destroy", "kids", "freeing"}, h) # {}

\* What a predefined control's own procedure answers.
DefAnswer(m) == IF m = "NCCREATE" THEN 1 ELSE 0

\* What u_CreateWindow, waiting at pc, does with the answer r; nobody else asks.
Heard(s, r) == IF s # << >> /\ Last(s).at \in {"nccreated", "created"} THEN r ELSE 0

\* send and call_proc: the host goes on as s once the message is answered.
\* A handler too deep is refused, and the play is over: see GivenUp.
Send(s, h, m) ==
    \/ /\ ~Live(h) \/ wins[h].sys
       /\ stack' = s
       /\ answer' = Heard(s, IF Live(h) THEN DefAnswer(m) ELSE 0)
       /\ UNCHANGED told
    \/ /\ Live(h) /\ ~wins[h].sys /\ Handlers(s) < MaxDepth
       /\ stack' = Append(s, [at |-> "guest", h |-> h])
       /\ told' = IF Contains(Life, m) THEN [told EXCEPT ![h] = Append(@, m)]
                                       ELSE told
       /\ answer' = 0

-----------------------------------------------------------------------------
(* The host's functions, step by step.  Each is the frame on top.           *)

At(pc) == stack # << >> /\ Top.at = pc
Then(pc) == Append(Below, [Top EXCEPT !.at = pc])

\* destroy, from its beginning to the message it sends first.
DestroyBegins ==
    /\ At("destroy")
    /\ Send(Append(Below, [at |-> "kids", h |-> Top.h, i |-> 1]), Top.h, "DESTROY")
    /\ UNCHANGED <<wins, named, active, calls>>

\* destroy, the children still to go.
KidsFrom(h, i) == {k \in Children(h) : k >= i}

DestroyKids ==
    /\ At("kids")
    /\ LET kids == KidsFrom(Top.h, Top.i)
       IN  \/ /\ kids # {}
              /\ stack' = Below \o << [Top EXCEPT !.i = Min(kids) + 1],
                                      [at |-> "destroy", h |-> Min(kids)] >>
              /\ UNCHANGED <<answer, told>>
           \/ /\ kids = {}
              /\ Send(Append(Below, [at |-> "freeing", h |-> Top.h]), Top.h, "NCDESTROY")
    /\ UNCHANGED <<wins, named, active, calls>>

\* What else was in a free slot stays there, and nobody reads it but Shown.
Freed(h) == [wins EXCEPT ![h] = [Free EXCEPT !.parent = wins[h].parent]]

Cleared(name, h) == IF name = h THEN None ELSE name

DestroyEnds ==
    /\ At("freeing")
    /\ wins' = Freed(Top.h)
    /\ told' = [told EXCEPT ![Top.h] = << >>]
    /\ named' = [n \in Names |-> Cleared(named[n], Top.h)]
    /\ active' = Cleared(active, Top.h)
    /\ stack' = Below
    /\ UNCHANGED <<answer, calls>>

CreateAsked ==
    /\ At("nccreated")
    /\ \/ /\ answer = 0 \/ ~Live(Top.h)
          /\ wins' = Freed(Top.h)
          /\ told' = [told EXCEPT ![Top.h] = << >>]
          /\ stack' = Below
          /\ answer' = 0
       \/ /\ answer # 0 /\ Live(Top.h)
          /\ Send(Then("created"), Top.h, "CREATE")
          /\ UNCHANGED wins
    /\ UNCHANGED <<named, active, calls>>

\* A mistake it could have made: a window that failed is only forgotten.
Forget(h) == /\ stack' = Below
             /\ wins' = Freed(h)
             /\ told' = [told EXCEPT ![h] = << >>]

\* u_CreateWindow, when the answer to WM_CREATE was -1.
Undo(h) == /\ stack' = IF Live(h) THEN Append(Below, [at |-> "destroy", h |-> h])
                                  ELSE Below
           /\ UNCHANGED <<wins, told>>

CreateTold ==
    /\ At("created")
    /\ \/ /\ answer = -1
          /\ Undo(Top.h)
          /\ answer' = 0
       \/ /\ answer # -1 /\ ~Live(Top.h)
          /\ stack' = Below
          /\ answer' = 0
          /\ UNCHANGED <<wins, told>>
       \/ /\ answer # -1 /\ Live(Top.h)
          /\ Send(Then("sized"), Top.h, "SIZE")
          /\ UNCHANGED wins
    /\ UNCHANGED <<named, active, calls>>

\* place, and the same two messages at the end of u_CreateWindow.
Placed ==
    \/ /\ At("place")
       /\ Send(Then("sized"), Top.h, "SIZE")
       /\ UNCHANGED <<wins, named, active, calls>>
    \/ /\ At("sized")
       /\ Send(IF Top.show THEN Then("show") ELSE Below, Top.h, "MOVE")
       /\ UNCHANGED <<wins, named, active, calls>>

\* show, for a window that is not shown.
Show ==
    /\ At("show")
    /\ \/ /\ ~Live(Top.h) \/ wins[Top.h].shown
          /\ stack' = Below
          /\ UNCHANGED <<wins, answer, told>>
       \/ /\ Live(Top.h) /\ ~wins[Top.h].shown
          /\ wins' = [wins EXCEPT ![Top.h].shown = TRUE]
          /\ Send(Then("shown"), Top.h, "SHOWWINDOW")
    /\ UNCHANGED <<named, active, calls>>

Shown ==
    /\ At("shown")
    /\ active' = IF wins[Top.h].parent = None THEN Top.h ELSE active
    /\ stack' = Below
    /\ UNCHANGED <<wins, named, answer, told, calls>>

Hide ==
    /\ At("hide")
    /\ \/ /\ ~Live(Top.h) \/ ~wins[Top.h].shown
          /\ stack' = Below
          /\ UNCHANGED <<wins, answer, told>>
       \/ /\ Live(Top.h) /\ wins[Top.h].shown
          /\ wins' = [wins EXCEPT ![Top.h].shown = FALSE]
          /\ Send(Below, Top.h, "SHOWWINDOW")
    /\ UNCHANGED <<named, active, calls>>

HostStep ==
    \/ DestroyBegins \/ DestroyKids \/ DestroyEnds
    \/ CreateAsked \/ CreateTold \/ Placed
    \/ Show \/ Shown \/ Hide

-----------------------------------------------------------------------------
(* The guest's manners.  It names windows it has been given and that are    *)
(* there.  It does not destroy a window that is being destroyed or that one *)
(* being destroyed is inside, nor a window it is being told is shown; it    *)
(* makes nothing inside a window that is going away; and it makes no window *)
(* while the host is at work on one whose slot the new one would be given.  *)

GuestRuns == stack = << >> \/ At("guest")
MayCall == /\ GuestRuns /\ calls < MaxCalls
           /\ calls' = calls + 1

Known == {h \in Windows : Live(h) /\ Frames({"nccreated"}, h) = {}}
MayDestroy == {h \in Known : /\ Frames({"shown"}, h) = {}
                             /\ \A k \in Windows : BeingDestroyed(k) => h \notin Around(k)}
MayHouse == {h \in Known : ~BeingDestroyed(h)} \cup {None}
HostNames == {stack[n].h : n \in {k \in DOMAIN stack : stack[k].at # "guest"}}

Slot == Min({h \in Windows : ~wins[h].used})

Call(f) == stack' = Append(stack, f)

\* u_CreateWindow.  With no slot free, or a class nobody registered, nothing
\* is made.
CreateWindow(p, sys, show) ==
    /\ MayCall
    /\ p \in MayHouse
    /\ \E h \in Windows : ~wins[h].used
    /\ Slot \notin HostNames
    /\ wins' = [wins EXCEPT ![Slot] =
                  [used |-> TRUE, parent |-> p, sys |-> sys, shown |-> FALSE]]
    /\ LET created == [at |-> "nccreated", h |-> Slot, show |-> show]
       IN  \/ /\ sys
              /\ stack' = Append(stack, created) /\ answer' = 1
              /\ told' = [told EXCEPT ![Slot] = << >>]
           \/ /\ ~sys /\ Handlers(stack) < MaxDepth
              /\ stack' = stack \o << created, [at |-> "guest", h |-> Slot] >>
              /\ told' = [told EXCEPT ![Slot] = << "NCCREATE" >>]
              /\ answer' = 0
    /\ UNCHANGED <<named, active>>

\* u_DestroyWindow, and WM_CLOSE as DefWindowProc answers it.
DestroyWindow(h) ==
    /\ MayCall /\ h \in MayDestroy
    /\ Call([at |-> "destroy", h |-> h])
    /\ UNCHANGED <<wins, named, active, answer, told>>

\* u_ShowWindow, u_MoveWindow and u_SetWindowPos.
ShowWindow(h, f) ==
    /\ MayCall /\ h \in Known
    /\ Call([at |-> f, h |-> h, show |-> FALSE])
    /\ UNCHANGED <<wins, named, active, answer, told>>

\* u_SendMessage, u_DispatchMessage and the calls that are a message sent.
SendMessage(h) ==
    /\ MayCall /\ h \in Known
    /\ Send(stack, h, "USER")
    /\ UNCHANGED <<wins, named, active>>

\* u_SetFocus, u_SetCapture and u_ReleaseCapture.
SetNames(h) ==
    /\ MayCall /\ h \in Known \cup {None}
    /\ \E n \in Names : named' = [named EXCEPT ![n] = h]
    /\ UNCHANGED <<wins, active, stack, answer, told>>

\* u_SetWindowLong of the window procedure: a control is given a handler of
\* the guest's, or its own back.
Subclass(h) ==
    /\ MayCall /\ h \in Known /\ ~Contains(told[h], "NCCREATE")
    /\ wins' = [wins EXCEPT ![h].sys = ~@]
    /\ UNCHANGED <<named, active, stack, answer, told>>

HandlerAnswers(r) ==
    /\ At("guest")
    /\ stack' = Below
    /\ answer' = Heard(Below, r)
    /\ UNCHANGED <<wins, named, active, told, calls>>

\* The play is over: u_GetMessage with nothing to wait for, u_DialogBox,
\* u_ExitWindows, a handler too deep.  headless_reset comes before the next.
GivenUp ==
    /\ GuestRuns \/ Handlers(stack) = MaxDepth
    /\ wins' = [h \in Windows |-> Free]
    /\ named' = [n \in Names |-> None] /\ active' = None
    /\ stack' = << >> /\ answer' = 0
    /\ told' = [h \in Windows |-> << >>]
    /\ calls' = 0

WindowCall ==
    \/ \E p \in MayHouse, sys, show \in BOOLEAN : CreateWindow(p, sys, show)
    \/ \E h \in Windows : \/ DestroyWindow(h) \/ SendMessage(h) \/ Subclass(h)
                          \/ \E f \in {"show", "hide", "place"} : ShowWindow(h, f)
    \/ \E h \in Windows \cup {None} : SetNames(h)
    \/ \E r \in {-1, 0, 1} : HandlerAnswers(r)
    \/ GivenUp

-----------------------------------------------------------------------------
Init ==
    /\ wins = [h \in Windows |-> Free]
    /\ named = [n \in Names |-> None] /\ active = None
    /\ stack = << >> /\ answer = 0
    /\ told = [h \in Windows |-> << >>]
    /\ calls = 0

Next == HostStep \/ WindowCall

Spec == Init /\ [][Next]_vars

-----------------------------------------------------------------------------
TypeOK ==
    /\ wins \in [Windows -> [used : BOOLEAN, parent : Windows \cup {None},
                             sys : BOOLEAN, shown : BOOLEAN]]
    /\ Range(named) \cup {active} \subseteq Windows \cup {None}
    /\ answer \in {-1, 0, 1}
    /\ Handlers(stack) <= MaxDepth
    /\ \A h \in Windows : told[h] \in Seq(ToSet(Life))

\* destroy (headless.c:294) and the failures of u_CreateWindow: no window
\* outlives the one it is in, whatever the handlers make and destroy while
\* the host is between two messages.  So the way up from a window (win_origin)
\* comes to the screen and never into a slot that is free, and the way along
\* the children (u_GetWindow) meets each of them once.
NoOrphans ==
    \A h \in Windows : Live(h) =>
        /\ wins[h].parent = None \/ Live(wins[h].parent)
        /\ \E k \in Around(h) : wins[k].parent = None
        /\ LET walk == [n \in 1 .. MAX_WINS |-> NthChild(h, n)]
           IN  /\ Range(walk) \ {None} = Children(h)
               /\ Cardinality({n \in DOMAIN walk : walk[n] # None}) = Cardinality(Children(h))

\* The focus, the capture and the active window are windows that are there,
\* or none: a window gives up all three when its slot is freed, not when its
\* end begins.
NamedAreLive == \A h \in Range(named) \cup {active} : h = None \/ Live(h)

Rank(m) == SelectInSeq(Life, LAMBDA l : l = m)

\* What a window is told of its life comes in order and each but once, and a
\* window that was told it exists is told its end before its slot is free:
\* whether its making failed half way, its parent went, or it was asked to
\* go from inside its own handlers.
LifeInOrder ==
    [][\A h \in Windows :
         /\ \A i, j \in DOMAIN told'[h] : i < j => Rank(told'[h][i]) < Rank(told'[h][j])
         /\ HostStep /\ wins[h].used /\ ~wins'[h].used /\ ~wins[h].sys
            /\ Contains(told[h], "CREATE")
              => Contains(told[h], "DESTROY") /\ Contains(told[h], "NCDESTROY")]_vars

\* The windows as a whole: a tree of what is there, told of its life in order.
WindowsSound == []TypeOK /\ []NoOrphans /\ []NamedAreLive /\ LifeInOrder

-----------------------------------------------------------------------------
(***************************************************************************)
(* The queue of posted messages in headless.c: an array the messages go     *)
(* round in, the place of the oldest, and how many there are.               *)
(***************************************************************************)

CONSTANTS Messages,        \* what may be posted
          NoMessage,       \* what a place holds before its first message
          QLEN             \* places in the array: 256

ASSUME QueueConstants == QLEN \in Nat \ {0} /\ NoMessage \notin Messages

VARIABLES queue, qhead, qcount, quit_posted

queueVars == <<queue, qhead, qcount, quit_posted>>

\* A mistake it could have made: the place of a message does not come round.
PlaceNoWrap(k) == IF qhead + k < QLEN THEN qhead + k ELSE QLEN - 1

\* The place of the message that is k behind the oldest.
Place(k) == (qhead + k) % QLEN

\* u_PostMessage; when the queue is full the message is dropped, and the
\* caller is told.
PostMessage(m) ==
    /\ qcount < QLEN
    /\ queue' = [queue EXCEPT ![Place(qcount)] = m]
    /\ qcount' = qcount + 1
    /\ UNCHANGED <<qhead, quit_posted>>

\* u_PostQuitMessage.
PostQuitMessage == quit_posted' = TRUE /\ UNCHANGED <<queue, qhead, qcount>>

\* next_msg comes to the word to quit when no message is left.
QuitIsNext == qcount = 0 /\ quit_posted

\* next_msg, taking the oldest message out.
TakeMessage ==
    /\ qcount # 0
    /\ qhead' = Place(1)
    /\ qcount' = qcount - 1
    /\ UNCHANGED <<queue, quit_posted>>

TakeQuit ==
    /\ QuitIsNext
    /\ quit_posted' = FALSE
    /\ UNCHANGED <<queue, qhead, qcount>>

EmptyQueue ==
    /\ queue = [i \in 0 .. QLEN - 1 |-> NoMessage]
    /\ qhead = 0 /\ qcount = 0 /\ quit_posted = FALSE

\* headless_reset.
ResetQueue ==
    /\ queue' = [i \in 0 .. QLEN - 1 |-> NoMessage]
    /\ qhead' = 0 /\ qcount' = 0 /\ quit_posted' = FALSE

QueueStep ==
    \/ \E m \in Messages : PostMessage(m)
    \/ PostQuitMessage \/ TakeMessage \/ TakeQuit \/ ResetQueue

\* The messages that are waiting, oldest first.
Waiting == [k \in 1 .. qcount |-> queue[Place(k - 1)]]

\* The array is a queue: whatever is posted while the oldest place moves
\* round, messages come out in the order they went in and the word to quit
\* only behind them all (u_PostMessage, next_msg).
Queue == INSTANCE QueueSpec WITH posted <- Waiting, quitting <- quit_posted
QueueInOrder == Queue!Spec

=============================================================================
