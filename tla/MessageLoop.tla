---------------------------- MODULE MessageLoop ----------------------------
(***************************************************************************)
(* The guest's message loop over the host's queue: u_GetMessage,             *)
(* u_PeekMessage, drain_one and wheel_dispatch of api_user.c.                *)
(*                                                                         *)
(* A Win16 program has never heard of a wheel, so both are taken out of the   *)
(* queue and dispatched here before it is asked, and so is whatever else     *)
(* Win16 did not have, as it comes up.  The host gives the oldest posted     *)
(* message a filter lets through, else a quit whatever the filter says, and  *)
(* only then what the mouse did.                                            *)
(***************************************************************************)
EXTENDS Naturals, Sequences, SequencesExt

CONSTANT MaxArrivals       \* BOUND: what arrives in the queue

ASSUME MaxArrivals \in Nat

VARIABLES posted, input,   \* what waits: posted messages, and turns of a wheel
          quit,            \* a quit is posted
          arrived,         \* how many ever arrived
          at,              \* where the call of the guest is
          asked,           \* what it asked for: a filter, removing or not
          told,            \* what the guest was told last
          quitTold         \* it was told of the quit

loopVars == <<posted, input, quit, arrived, at, asked, told, quitTold>>

\* "key" and "paint" are Win16's, "icon" is not; a filter lets some through.
Win16s == {"key", "paint"}
News == {"icon"}
Wheels == <<"wheel", "hwheel">>
Everything == Win16s \cup News \cup Range(Wheels)
Filters == {Everything, {"paint"}, {"icon"}}
Win16(msg) == msg \in Win16s \cup {"quit"}

\* Where a call is: 1 and 2 are which wheel it looks for first.
Idle == 0
Calls == 3
Dispatching == 4

\* What a look at the queue gives: the message, or "nothing".
Looked(filter) ==
    LET p == SelectSeq(posted, LAMBDA m : m \in filter)
        i == SelectSeq(input, LAMBDA m : m \in filter)
    IN  IF p # << >> THEN Head(p)
        ELSE IF quit THEN "quit"
        ELSE IF i # << >> THEN Head(i) ELSE "nothing"

TakeFirst(q, m) == IF Contains(q, m) THEN RemoveAt(q, SelectInSeq(q, LAMBDA x : x = m)) ELSE q

\* The message leaves the queue, the quit its flag.
Removed(m) ==
    /\ posted' = TakeFirst(posted, m)
    /\ input' = TakeFirst(input, m)
    /\ quit' = (quit /\ m # "quit")

Stays == UNCHANGED <<posted, input, quit>>

---------------------------------------------------------------------------
(* The host, and the guest's own code *)

Arrive ==
    /\ arrived < MaxArrivals
    /\ arrived' = arrived + 1
    /\ \/ \E m \in Win16s \cup News : posted' = Append(posted, m) /\ UNCHANGED <<input, quit>>
       \/ \E m \in Range(Wheels) : input' = Append(input, m) /\ UNCHANGED <<posted, quit>>
    /\ UNCHANGED <<at, asked, told, quitTold>>

\* The guest's code, in its loop or in a message that is dispatched to it.
PostQuitMessage ==
    /\ ~quitTold /\ at \in {Idle, Dispatching}
    /\ quit' = TRUE
    /\ UNCHANGED <<posted, input, arrived, at, asked, told, quitTold>>

Ask ==
    /\ at = Idle /\ ~quitTold
    /\ \E f \in Filters, how \in {"get", "peek", "look"} :
          asked' = [filter |-> f, how |-> how]
    /\ at' = 1
    /\ UNCHANGED <<posted, input, quit, arrived, told, quitTold>>

---------------------------------------------------------------------------
(* The drain *)

\* A mistake it could have made: what a peek gives is taken out at once.
MayTakeAnything(found, m) == found # "nothing"

\* Looked at before it is taken: a peek may give the quit, which stays.
MayTake(found, m) == found = m

Drain ==
    /\ at \in {1, 2}
    /\ LET found == Looked({Wheels[at]}) IN
       IF MayTake(found, Wheels[at])
       THEN Removed(found) /\ UNCHANGED at    \* and is dispatched, delta and all
       ELSE at' = at + 1 /\ Stays
    /\ UNCHANGED <<arrived, asked, told, quitTold>>

---------------------------------------------------------------------------
(* The call itself *)

Tell(m) ==
    /\ told' = m /\ at' = Idle
    /\ quitTold' = (quitTold \/ m = "quit")

Given16(m) == Win16(m)

GetMessage ==
    /\ at = Calls /\ asked.how = "get"
    /\ LET m == Looked(asked.filter) IN
       /\ m # "nothing"                       \* or it waits
       /\ Removed(m)
       /\ IF Given16(m) THEN Tell(m) ELSE at' = Dispatching /\ UNCHANGED <<told, quitTold>>
    /\ UNCHANGED <<arrived, asked>>

\* Dispatched: a GetMessage drains again before it looks, a peek looks.
Dispatched ==
    /\ at = Dispatching
    /\ at' = IF asked.how = "get" THEN 1 ELSE Calls
    /\ UNCHANGED <<posted, input, quit, arrived, asked, told, quitTold>>

PeekNothing ==
    /\ at = Calls /\ asked.how # "get" /\ Looked(asked.filter) = "nothing"
    /\ at' = Idle /\ Stays
    /\ UNCHANGED <<arrived, asked, told, quitTold>>

PeekMessage ==
    /\ at = Calls /\ asked.how # "get"
    /\ LET m == Looked(asked.filter) IN
       /\ m # "nothing"
       /\ \/ /\ Given16(m) /\ Tell(m)
             /\ IF asked.how = "peek" THEN Removed(m) ELSE Stays
          \/ /\ ~Given16(m) /\ (asked.how = "peek" \/ MayTake(Looked({m}), m))
             /\ Removed(m) /\ at' = Dispatching /\ UNCHANGED <<told, quitTold>>
          \/ /\ ~Given16(m) /\ asked.how = "look" /\ ~MayTake(Looked({m}), m)
             /\ Tell(m) /\ Stays
    /\ UNCHANGED <<arrived, asked>>

LoopInit ==
    /\ posted = << >> /\ input = << >> /\ quit = FALSE /\ arrived = 0
    /\ at = Idle /\ asked = [filter |-> {}, how |-> "none"]
    /\ told = "nothing" /\ quitTold = FALSE

LoopStep ==
    \/ Arrive \/ PostQuitMessage \/ Ask \/ Drain
    \/ GetMessage \/ Dispatched \/ PeekNothing \/ PeekMessage

\* The guest's loop goes round: a call of its runs on, and again and again it is a
\* GetMessage for whatever there is.
LoopRuns ==
    /\ WF_loopVars(Ask \/ Drain \/ GetMessage \/ Dispatched \/ PeekNothing \/ PeekMessage)
    /\ SF_loopVars(Ask /\ asked' = [filter |-> Everything, how |-> "get"])

---------------------------------------------------------------------------
(* Properties *)

\* The guest is told of no wheel and of nothing else Win16 did not have, though one
\* may arrive while its call is waiting, or be all that a peek was asked for.
ToldOnlyWin16 == told = "nothing" \/ Win16(told)

\* A quit reaches the guest, whatever it peeks for meanwhile and however the
\* wheel turns: the flag is the only record there is of it.
QuitReachesGuest == quit ~> quitTold

\* The guest's loop is told what it asked for: nothing Win16 did not have, and
\* in the end its quit.
LoopHonest == []ToldOnlyWin16 /\ QuitReachesGuest

=============================================================================
