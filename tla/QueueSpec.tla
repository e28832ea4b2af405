----------------------------- MODULE QueueSpec -----------------------------
(***************************************************************************)
(* What a program may expect of its message queue: messages come out in the *)
(* order they were posted, as many as fit are kept, and the word to quit    *)
(* waits behind all of them.                                                *)
(***************************************************************************)
EXTENDS Naturals, Sequences

CONSTANTS Messages, QLEN

VARIABLES posted,          \* the messages not yet taken, oldest first
          quitting         \* the program has been asked to quit

Post(m) ==
    /\ Len(posted) < QLEN
    /\ posted' = Append(posted, m)
    /\ UNCHANGED quitting

Take ==
    /\ posted # << >>
    /\ posted' = Tail(posted)
    /\ UNCHANGED quitting

AskToQuit == quitting' = TRUE /\ UNCHANGED posted

TakeQuit ==
    /\ posted = << >> /\ quitting
    /\ quitting' = FALSE
    /\ UNCHANGED posted

\* Another play begins with nothing posted.
Empty == posted' = << >> /\ quitting' = FALSE

Init == posted = << >> /\ quitting = FALSE
Next == (\E m \in Messages : Post(m)) \/ Take \/ AskToQuit \/ TakeQuit \/ Empty
Spec == Init /\ [][Next]_<<posted, quitting>>

============================================================================
