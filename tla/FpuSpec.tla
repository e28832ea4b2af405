------------------------------ MODULE FpuSpec ------------------------------
(***************************************************************************)
(* The x87's stack as a guest sees it: ST(0) .. ST(N - 1), each with a value  *)
(* and held or free, that turn under it; and whether a push has overflowed   *)
(* since that was last cleared.                                             *)
(***************************************************************************)
EXTENDS Integers

CONSTANTS N, Vals
VARIABLES slots, overflowed

specVars == <<slots, overflowed>>
Slots == 0 .. N - 1

Wrapped(n) == IF n < N THEN n ELSE n - N

\* The stack turned up, as a pop turns it, and down, as a push does.
Up(s) == [i \in Slots |-> s[Wrapped(i + 1)]]
Down(s) == [i \in Slots |-> s[Wrapped(i + N - 1)]]
Put(s, i, v) == [s EXCEPT ![i] = [v |-> v, free |-> FALSE]]
Freed(s, i) == [s EXCEPT ![i] = [v |-> s[i].v, free |-> TRUE]]
Popped(s) == Up(Freed(s, 0))

SpecInit ==
    /\ slots = [i \in Slots |-> [v |-> 0, free |-> TRUE]]
    /\ overflowed = FALSE

Pushes(s, v) ==
    /\ slots' = Put(Down(s), 0, v)
    /\ overflowed' = (overflowed \/ ~Down(s)[0].free)

\* What an instruction may do to the registers, without overflowing.
Changes ==
    \/ slots' = slots \/ slots' = Popped(slots) \/ slots' = Popped(Popped(slots))
    \/ \E i \in Slots, v \in Vals :
          slots' = Put(slots, i, v) \/ slots' = Popped(Put(slots, i, v))
    \/ \E v \in Vals : slots' = Put(Popped(slots), 0, v)
    \/ \E i \in Slots : slots' = Put(Put(slots, 0, slots[i].v), i, slots[0].v)
    \/ \E i \in Slots : slots' = Freed(slots, i)
    \/ slots' = Up(slots) \/ slots' = Down(slots)

SpecNext ==
    \/ \E v \in Vals : Pushes(slots, v)
    \/ \E v, w \in Vals : Pushes(Put(slots, 0, v), w)
    \/ Changes /\ UNCHANGED overflowed
    \/ slots' = slots /\ overflowed' = FALSE
    \/ slots' = [i \in Slots |-> [v |-> 0, free |-> TRUE]] /\ overflowed' = FALSE
    \* FLDENV: which are free, how far the stack has turned, and the overflow
    \* are the stored environment's; the values are where they were.
    \/ \E free \in [Slots -> BOOLEAN], k \in Slots :
          slots' = [i \in Slots |-> [v |-> slots[Wrapped(i + k)].v, free |-> free[i]]]

SpecSpec == SpecInit /\ [][SpecNext]_specVars
=============================================================================
