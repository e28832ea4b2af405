----------------------------- MODULE Forwarding -----------------------------
(***************************************************************************)
(* Messages in flight between the host's windows and the guest's window     *)
(* procedures (winproc.c's bridge, msg16.c's ways out, u_DispatchMessage):  *)
(* the host calls a guest procedure, the procedure writes to the structure  *)
(* it was handed, sends, posts, passes the message on as it came or changed,*)
(* and returns, and anything may come in between.                           *)
(*                                                                          *)
(* The stack holds the calls of guest procedures and, above one, what the   *)
(* host is doing for it.  A host parameter no word can hold is the record   *)
(* of the frame it belongs to: what passing the original on hands back.     *)
(***************************************************************************)
EXTENDS Integers, Sequences, SequencesExt, FiniteSetsExt

CONSTANTS MAX_INFLIGHT,    \* messages remembered at a time
          Edits, Owns,     \* stock multiline edits, and windows of a guest class
          MaxDepth,        \* BOUND: frames on the stack
          MaxAsked         \* BOUND: selections the guest sends or posts

ASSUME ForwardingConstants ==
    /\ MAX_INFLIGHT \in Nat \ {0} /\ MaxDepth \in Nat /\ MaxAsked \in Nat
    /\ Edits \cap Owns = {}

VARIABLES stack,           \* the calls, the innermost last
          inflight,        \* the frames remembered, by their place on the stack
          setselOut,       \* the scroll flag on its way with an EM_SETSEL
          queue,           \* what the guest posted
          subclassed,      \* the edits the guest has put a procedure on
          asked, scrolled, \* scrolls the guest asked for, and scrolls there were
          tampered,        \* a guest procedure did not pass a selection on as it came
          kinds            \* BOUND: the messages this behaviour is about

fwdVars == <<stack, inflight, setselOut, queue, subclassed, asked, scrolled, tampered, kinds>>

NoSetsel == [hwnd |-> "none", ends |-> 0, flag |-> 0]

\* A structure's number as the host has it, and as sixteen bits do: 2 is too
\* wide, and narrows to 0.
Narrow(v) == v % 2
Narrowed == {0, 1}
Structs == {"answer", "draw"}     \* handed as a copy on the guest's stack
Pointers == {"text"}              \* handed as a host pointer, cut to size
Messages == Structs \cup Pointers \cup {"key", "setsel", "caret"}
MessagesOf(hwnd) ==
    kinds \cap (IF hwnd \in Edits THEN {"key", "setsel", "text"} ELSE {"key", "answer", "draw"})

Depth == Len(stack)
Top == stack[Depth]
GuestRuns == stack # << >> => Top.who = "guest"
HasGuestProc(hwnd) == hwnd \in Owns \cup subclassed
\* A send on this thread comes to its window before anything else happens.
OnItsWay == /\ stack # << >>
            /\ Top.who = "host" /\ Top.how = "send" /\ HasGuestProc(Top.hwnd)
WithTop(f) == [stack EXCEPT ![Depth] = f]

---------------------------------------------------------------------------
(* In: a guest procedure is called *)

\* Win32's EM_SETSEL does not scroll a multiline control, which is what a
\* flag of 1 says; one the guest sent carries its own.
Carried(hwnd, ends) == setselOut.hwnd = hwnd /\ setselOut.ends = ends
FlagFor(hwnd, ends) == IF Carried(hwnd, ends) THEN setselOut.flag ELSE 1

\* A mistake it could have made: the flag is left for the next that comes.
FlagLeft(hwnd, ends) == setselOut

AfterTaking(hwnd, ends) == IF Carried(hwnd, ends) THEN NoSetsel ELSE setselOut

Pushed(inf, n) == IF Len(inf) < MAX_INFLIGHT THEN Append(inf, n) ELSE inf

\* The call of a guest procedure.  What the host keeps in a structure is wide,
\* what the guest is handed of it a narrow copy; want is what was written last.
\* Mixed is a message another call, too deep to be remembered, was taken for.
Call(hwnd, msg, wp, lp, wide, sent) ==
    [who |-> "guest", hwnd |-> hwnd, msg |-> msg, wp |-> wp,
     lp |-> IF msg \in Pointers \cup Structs THEN Depth + 1 ELSE lp,
     wide |-> wide, copy |-> Narrow(wide), before |-> Narrow(wide), want |-> wide,
     noted |-> Len(inflight) < MAX_INFLIGHT, passed |-> 0, sent |-> sent,
     mixed |-> FALSE]

Enter(hwnd, msg, wp, lp, wide, sent) ==
    /\ stack' = Append(stack, Call(hwnd, msg, wp, lp, wide, sent))
    /\ inflight' = Pushed(inflight, Depth + 1)
    /\ setselOut' = IF msg = "setsel" THEN AfterTaking(hwnd, lp) ELSE setselOut

\* USER32 sends a message of its own: the dispatch of input, a control's
\* notification, what a call the guest makes brings about.
HostSends ==
    /\ ~OnItsWay /\ Depth < MaxDepth
    /\ \E hwnd \in Edits \cup Owns : \E msg \in MessagesOf(hwnd) :
       /\ HasGuestProc(hwnd)
       /\ IF msg = "setsel"
          THEN \E ends \in {10, 11} : Enter(hwnd, msg, FlagFor(hwnd, ends), ends, 0, -1)
          ELSE \E wp \in {0, 1} :
               \E wide \in (IF msg \in Structs THEN {0, 2} ELSE {0}) :
                  Enter(hwnd, msg, wp, 0, wide, -1)
    /\ UNCHANGED <<queue, subclassed, asked, scrolled, tampered, kinds>>

---------------------------------------------------------------------------
(* Out: what the host does for the guest *)

\* of is the frame whose parameters the host was given back, 0 for a message put
\* together from what the guest says; read is the pointer that was read
\* through to put it together.
HostFrame(how, hwnd, msg, wp, lp, of, after, read) ==
    [who |-> "host", how |-> how, hwnd |-> hwnd, msg |-> msg, wp |-> wp, lp |-> lp,
     of |-> of, after |-> after, read |-> read, asker |-> Depth,
     same |-> IF stack = << >> THEN FALSE
              ELSE msg = Top.msg /\ wp = Top.wp /\ lp = Top.lp /\ hwnd = Top.hwnd]

ScrollAfter(hwnd, flag) == hwnd \in Edits /\ flag = 0

Carries(hwnd, msg) == msg = "setsel" /\ hwnd \in subclassed

\* Sent to an edit the guest has subclassed, the scroll is the procedure's to ask.
Follows(hwnd, msg, flag) ==
    msg = "setsel" /\ ~Carries(hwnd, msg) /\ ScrollAfter(hwnd, flag)

\* msg16_send.  To an edit with a guest procedure the flag goes along and the
\* scroll is left to that procedure.  A structure is not sent by hand.
Send ==
    /\ GuestRuns /\ Depth < MaxDepth /\ asked < MaxAsked
    /\ \E hwnd \in Edits, msg \in kinds \cap {"setsel", "text"}, flag \in {0, 1} :
       \E lp \in IF msg = "setsel" THEN {10, 11} ELSE {-1} :
          /\ stack' = Append(stack, HostFrame("send", hwnd, msg, flag, lp, 0,
                                               Follows(hwnd, msg, flag), 0))
          /\ setselOut' = IF Carries(hwnd, msg) THEN [hwnd |-> hwnd, ends |-> lp, flag |-> flag]
                                                ELSE setselOut
          /\ asked' = IF msg = "setsel" /\ ScrollAfter(hwnd, flag) THEN asked + 1 ELSE asked
    /\ UNCHANGED <<inflight, queue, subclassed, scrolled, tampered, kinds>>

\* msg16_post: what needs a buffer of this side's cannot wait in a queue, and
\* is sent (Send); a selection that is to scroll has the scroll queued behind it.
Post ==
    /\ "setsel" \in kinds /\ GuestRuns /\ asked < MaxAsked /\ Len(queue) < 2
    /\ \E hwnd \in Edits, flag \in {0, 1}, ends \in {10, 11} :
       /\ queue' = queue \o << [hwnd |-> hwnd, msg |-> "setsel", lp |-> ends] >>
                   \o (IF ScrollAfter(hwnd, flag)
                       THEN << [hwnd |-> hwnd, msg |-> "caret", lp |-> 0] >> ELSE << >>)
       /\ asked' = IF ScrollAfter(hwnd, flag) THEN asked + 1 ELSE asked
    /\ UNCHANGED <<stack, inflight, setselOut, subclassed, scrolled, tampered, kinds>>

\* The guest's loop, its own or one a dialog runs: the message is packed for
\* the guest, which may change the flag, and dispatched.
LoopDispatches ==
    /\ GuestRuns /\ queue # << >> /\ Depth < MaxDepth
    /\ queue' = Tail(queue)
    /\ LET m == Head(queue)
           packed == IF m.msg = "setsel" THEN FlagFor(m.hwnd, m.lp) ELSE 0
       IN  \E flag \in (IF m.msg = "setsel" THEN {0, 1} ELSE {0}) :
              /\ stack' = Append(stack, HostFrame("send", m.hwnd, m.msg, flag, m.lp, 0,
                                                   Follows(m.hwnd, m.msg, flag), 0))
              /\ setselOut' = IF Carries(m.hwnd, m.msg)
                              THEN [hwnd |-> m.hwnd, ends |-> m.lp, flag |-> flag] ELSE setselOut
              /\ tampered' = (tampered \/ flag # packed)
    /\ UNCHANGED <<inflight, subclassed, asked, scrolled, kinds>>

\* A send comes to a window with a guest procedure.
SendArrives ==
    /\ OnItsWay
    /\ LET f == [Top EXCEPT !.how = "sent"]
       IN  /\ stack' = Append(WithTop(f),
                         Call(f.hwnd, f.msg,
                              IF f.msg = "setsel" THEN FlagFor(f.hwnd, f.lp) ELSE f.wp,
                              f.lp, 0, IF f.msg = "setsel" THEN f.wp ELSE -1))
           /\ inflight' = Pushed(inflight, Depth + 1)
           /\ setselOut' = IF f.msg = "setsel" THEN AfterTaking(f.hwnd, f.lp) ELSE setselOut
    /\ UNCHANGED <<queue, subclassed, asked, scrolled, tampered, kinds>>

---------------------------------------------------------------------------
(* A guest procedure passes a message on *)

\* The innermost message in flight to that window with that number.
Found(hwnd, msg) ==
    LET S == {i \in DOMAIN inflight : /\ inflight[i] \in DOMAIN stack
                                      /\ stack[inflight[i]].hwnd = hwnd
                                      /\ stack[inflight[i]].msg = msg}
    IN  IF S = {} THEN 0 ELSE inflight[CHOOSE i \in S : \A j \in S : i >= j]

\* The host's structure with what the guest wrote in the copy it passes on.
Widened(f, copy) == IF f.msg = "answer" /\ copy # Narrow(f.wide) THEN copy ELSE f.wide

\* What is read to put a message together: nothing through what was handed over.
ReadFor(msg, handed, lp) == IF msg \in Pointers /\ ~handed THEN lp ELSE 0

\* Passed on to how: the originals, when what comes back is what was handed
\* over, and for a structure in any case; otherwise put together again.
\* lp is what was handed over or a pointer of the guest's own, -1.
PassOn(how, wp, lp) ==
    LET g == Top
        i == Found(g.hwnd, g.msg)
        f == stack[i]
        handedLp == i # 0 /\ lp = f.lp
        original == /\ i # 0
                    /\ \/ g.msg \in Structs
                       \/ (handedLp /\ (wp = f.wp \/ g.msg \in Pointers))
        passer == [g EXCEPT !.passed = @ + 1]
    IN  IF original
        THEN LET base == WithTop(passer)
                 widened == [base EXCEPT ![i].wide = Widened(f, g.copy),
                                         ![i].mixed = @ \/ i # Depth]
             IN  stack' = Append(widened,
                     HostFrame(how, g.hwnd, g.msg, wp, lp, i,
                               g.msg = "setsel" /\ how = "proc" /\ ScrollAfter(g.hwnd, wp),
                               IF handedLp /\ wp = f.wp THEN 0
                                                       ELSE ReadFor(g.msg, handedLp, lp)))
        ELSE /\ g.msg \notin Structs
             /\ stack' = Append(WithTop(passer),
                     HostFrame(how, g.hwnd, g.msg, wp, lp, 0,
                               g.msg = "setsel" /\ how = "proc" /\ ScrollAfter(g.hwnd, wp),
                               ReadFor(g.msg, handedLp, lp)))

PassesOn ==
    /\ stack # << >> /\ Top.who = "guest" /\ Top.passed < 2 /\ Depth < MaxDepth
    /\ \E how \in {"proc", "default"}, wp \in {0, 1} :
       \E lp \in {Top.lp} \cup (CASE Top.msg \in Pointers -> {-1}
                                 [] Top.msg = "setsel" -> {10, 11} [] OTHER -> {}) :
          /\ (Top.hwnd \in Owns => how = "default")
          /\ PassOn(how, wp, lp)
          /\ tampered' = (tampered \/ ( /\ Top.msg \in {"setsel", "caret"}
                                        /\ \/ how = "default" \/ Top.passed > 0
                                           \/ wp # Top.wp \/ lp # Top.lp))
    /\ UNCHANGED <<inflight, setselOut, queue, subclassed, asked, scrolled, kinds>>

---------------------------------------------------------------------------
(* The host answers *)

\* The guest's copy of a structure the host has filled in.
Refreshed(f, v) == IF f.msg = "answer" THEN Narrow(v) ELSE f.copy

\* The control, or DefWindowProc, is done: it may have written its answer to
\* the structure, whose copy is made again; an edit's selection is followed
\* by the scroll.
Answers ==
    /\ stack # << >> /\ Top.who = "host" /\ ~OnItsWay
    /\ LET h == Top
           below == Front(stack)
           atControl == h.how # "default" /\ h.how # "sent"
       IN  /\ IF h.of # 0 /\ h.msg = "answer"
              THEN \E v \in {stack[h.of].wide, 1, 2} :
                     stack' = [below EXCEPT ![h.of].wide = v, ![h.of].want = v,
                                            ![h.asker].copy = Refreshed(stack[h.asker], v)]
              ELSE stack' = below
           /\ scrolled' = IF (h.after \/ (h.msg = "caret" /\ atControl)) /\ scrolled <= MaxAsked
                          THEN scrolled + 1 ELSE scrolled
           /\ setselOut' = IF h.how \in {"send", "sent"} /\ h.msg = "setsel" THEN NoSetsel
                                                                             ELSE setselOut
    /\ UNCHANGED <<inflight, queue, subclassed, asked, tampered, kinds>>

---------------------------------------------------------------------------
(* The guest procedure writes, and returns *)

\* What the host's structure already says is as good as not written.
Writes ==
    /\ stack # << >> /\ Top.who = "guest" /\ Top.msg = "answer"
    /\ \E c \in Narrowed :
          stack' = WithTop([Top EXCEPT !.copy = c,
                                       !.want = IF c = Narrow(Top.wide) THEN Top.wide ELSE c])
    /\ UNCHANGED <<inflight, setselOut, queue, subclassed, asked, scrolled, tampered, kinds>>

\* A mistake it could have made: the copy always goes back.
CopiedAlways(f) == IF f.msg = "answer" THEN f.copy ELSE f.wide

\* What the host finds in its structure.
CopiedBack(f) == IF f.msg = "answer" /\ f.copy # f.before THEN f.copy ELSE f.wide

Popped(f) == IF f.noted THEN Front(inflight) ELSE inflight

Returns ==
    /\ stack # << >> /\ Top.who = "guest"
    /\ inflight' = Popped(Top)
    /\ stack' = Front(stack)
    /\ tampered' = (tampered \/ (Top.msg \in {"setsel", "caret"} /\ Top.passed = 0))
    /\ UNCHANGED <<setselOut, queue, subclassed, asked, scrolled, kinds>>

FwdInit ==
    /\ stack = << >> /\ inflight = << >> /\ setselOut = NoSetsel /\ queue = << >>
    /\ subclassed \in SUBSET Edits
    /\ kinds \in {{"answer"}, {"draw"}, {"setsel"}, {"text", "key"}}
    /\ asked = 0 /\ scrolled = 0 /\ tampered = FALSE

FwdStep ==
    \/ HostSends \/ Send \/ Post \/ LoopDispatches \/ SendArrives
    \/ PassesOn \/ Answers \/ Writes \/ Returns

---------------------------------------------------------------------------
(* Properties *)

\* A guest procedure that passes its message on as it came gets the host's own
\* parameters of that very message back, however many calls are in between, as
\* long as the message was remembered.
OwnOriginals ==
    \A i \in DOMAIN stack :
        LET h == stack[i]
        IN  h.who = "host" /\ h.how \in {"proc", "default"} /\ h.same /\ stack[h.asker].noted
            => h.of = h.asker

\* A host pointer, cut to the guest's size, is never read through as if it
\* were the guest's.
NoHostPointerRead ==
    \A i \in DOMAIN stack :
        stack[i].who = "host" /\ stack[i].read > 0 => ~stack[stack[i].asker].noted

\* The window a structure is passed on to finds in it what was last written,
\* by the guest or by the window itself; what nobody wrote keeps its width.
LastWriterSeen ==
    \A i \in DOMAIN stack :
        LET h == stack[i]
        IN  h.who = "host" /\ h.msg = "answer" /\ h.of = h.asker /\ ~stack[h.of].mixed
            => stack[h.of].wide = stack[h.of].want

\* And so does the host when the guest returns, as long as the guest did not
\* put back what it was first handed over an answer it had passed the message on for.
AnswerComesBack ==
    [][ \A i \in {Depth} \cap DOMAIN stack :
          LET f == stack[i]
          IN  Depth' < Depth /\ f.who = "guest" /\ f.msg = "answer" /\ f.noted /\ ~f.mixed =>
                 /\ f.passed = 0 => CopiedBack(f) = f.want
                 /\ f.copy # f.before => Narrow(CopiedBack(f)) = Narrow(f.want) ]_fwdVars

\* What a guest wrote into the structure is what the host finds there.
LastWriteCounts ==
    [][ \A i \in {Depth} \cap DOMAIN stack :
          LET f == stack[i]
          IN  Depth' < Depth /\ f.who = "guest" /\ f.msg = "answer" /\ f.noted /\ ~f.mixed =>
                 Narrow(CopiedBack(f)) = Narrow(f.want) ]_fwdVars

\* A guest procedure is handed the scroll flag of the selection the guest sent
\* it, never one left from another.
FlagIsItsOwn ==
    \A i \in DOMAIN stack :
        LET f == stack[i]
        IN  f.who = "guest" /\ f.msg = "setsel" => f.wp = (IF f.sent = -1 THEN 1 ELSE f.sent)

\* When every procedure passes a selection on as it came, a multiline edit scrolls
\* once for each selection that asked for it, sent, posted or dispatched, and
\* whether the guest has subclassed the edit or not.
ScrollsAsAsked ==
    stack = << >> /\ queue = << >> /\ ~tampered => scrolled = asked

\* A message as a whole: whoever it is passed on to, and whoever answers it, deals
\* with the parameters that are its own and with what was last written.
MessagesHonest ==
    []OwnOriginals /\ []NoHostPointerRead /\ []LastWriterSeen /\ AnswerComesBack

\* A selection as a whole: its flag is its own, and the edit scrolls as often as asked.
SelectionsKept == FlagIsItsOwn /\ ScrollsAsAsked

-----------------------------------------------------------------------------
(***************************************************************************)
(* The structs BeginPaint fills, kept on this side for EndPaint (paint_save,  *)
(* paint_take, u_BeginPaint and u_EndPaint of api_user.c).  A procedure may   *)
(* be entered again while its window paints, so paints nest.                 *)
(***************************************************************************)

CONSTANTS MAX_PAINTS,
          PaintWindows,
          MaxBegun         \* BOUND: paints begun

ASSUME PaintConstants ==
    MAX_PAINTS \in Nat \ {0} /\ MaxBegun \in Nat /\ "free" \notin PaintWindows

VARIABLES paints,          \* the table: [hwnd, ps], "free" when not used
          painting,        \* what is begun and not ended, the innermost last
          begun,
          lost,            \* one begun had no place, and is not ended yet
          ended            \* the last EndPaint: the paint meant, the struct used

paintVars == <<paints, painting, begun, lost, ended>>

FreePaint == [hwnd |-> "free", ps |-> 0]

PaintSave(h, ps) ==
    LET free == {i \in 1 .. MAX_PAINTS : paints[i] = FreePaint}
    IN  IF free = {} THEN paints
        ELSE [paints EXCEPT ![Min(free)] = [hwnd |-> h, ps |-> ps]]

\* A mistake it could have made: the first of the window's is found first.
TakenFirst(S) == Min(S)

Taken(S) == Max(S)

BeginPaint ==
    /\ begun < MaxBegun
    /\ \E h \in PaintWindows :
       /\ paints' = PaintSave(h, begun + 1)
       /\ painting' = Append(painting, [hwnd |-> h, ps |-> begun + 1])
       /\ lost' = (lost \/ PaintSave(h, begun + 1) = paints)
    /\ begun' = begun + 1
    /\ UNCHANGED ended

\* A procedure ends what it began before it returns.  A paint the table has not
\* is rebuilt from the guest's copy, which keeps the drawing surface alone.
EndPaint ==
    /\ painting # << >>
    /\ LET own == {i \in 1 .. MAX_PAINTS : paints[i].hwnd = Last(painting).hwnd} IN
       /\ paints' = IF own = {} THEN paints ELSE [paints EXCEPT ![Taken(own)] = FreePaint]
       /\ ended' = [meant |-> Last(painting).ps,
                    used |-> IF own = {} THEN 0 ELSE paints[Taken(own)].ps]
    /\ painting' = Front(painting)
    /\ lost' = (lost /\ painting' # << >>)
    /\ UNCHANGED begun

PaintsInit ==
    /\ paints = [i \in 1 .. MAX_PAINTS |-> FreePaint]
    /\ painting = << >> /\ begun = 0 /\ lost = FALSE
    /\ ended = [meant |-> 0, used |-> 0]

PaintStep == BeginPaint \/ EndPaint

---------------------------------------------------------------------------
(* Properties *)

\* EndPaint is handed the very struct its own BeginPaint filled, however paints of
\* one window and of others nest; with another's, or a blank one, the window would
\* be dirty again the moment it has painted.
EndsWhatItBegan == [][ended' # ended /\ ~lost => ended'.used = ended'.meant]_paintVars

=============================================================================
