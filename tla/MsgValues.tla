----------------------------- MODULE MsgValues ------------------------------
(***************************************************************************)
(* A message between the guest and the host, by its values: the number it   *)
(* has on each side (the ctlblocks of winproc.c), and where each side keeps *)
(* what the message says (msg16_unpack of msg16.c, msg_to_16_values of      *)
(* winproc.c).  Both directions meet in the guest's message loop, where a   *)
(* message is packed for the guest and unpacked again to be dispatched.     *)
(*                                                                          *)
(* A word has W values and a long is hi * W + lo.  The host's numbers are   *)
(* integers; a host's handle is a number no word can hold.  Messages that   *)
(* are treated alike are one kind.                                          *)
(***************************************************************************)
EXTENDS Integers

CONSTANTS W,               \* values of a word: 2^16
          MaxHandle        \* BOUND: guest handles there are, from 1 up

ASSUME WordConstants == W \in Nat /\ W > 6 /\ W % 2 = 0 /\ MaxHandle \in 2 .. W - 1

Word == 0 .. W - 1
Lo(x) == x % W
Hi(x) == (x \div W) % W
Long(lo, hi) == hi * W + lo
Signed(w) == IF w >= W \div 2 THEN w - W ELSE w

---------------------------------------------------------------------------
(* Handles, and the one menu with a submenu in it *)

H32(w) == IF w \in 1 .. MaxHandle THEN W * W + w ELSE 0
H16(h) == IF h > W * W THEN h - W * W ELSE 0

Popup == W \div 2          \* the flag that says a menu item is a submenu
TheMenu == 1
TheSub == 2                \* the menu at position 1 of TheMenu
SubAt(h, pos) == IF h = H32(TheMenu) /\ pos = 1 THEN H32(TheSub) ELSE 0
PositionOf(h, sub) == IF h = H32(TheMenu) /\ sub = H32(TheSub) THEN 1 ELSE -1

IsPopup(flags) == flags >= Popup

---------------------------------------------------------------------------
(* Where the values are *)

HandleFirst == {"command", "birth", "keytoitem"}
InWParam == {"handle"}
\* A WM_CTLCOLOR is one of seven to the host: its type is part of its number.
Kinds == HandleFirst \cup InWParam \cup
    {"scroll", "menuselect", "menuchar", "click", "index", "lineindex",
     "lb_setsel", "linescroll", "setsel", "enteridle", "ctlcolor", "getdlgcode",
     "activateapp", "plain"}

\* From the guest's wParam and lParam to the host's: w, l and, for an
\* edit's selection, the scroll flag there is no room for.
Unpacked(k, wp, lp) ==
    CASE k \in HandleFirst -> [w |-> Long(wp, Hi(lp)), l |-> H32(Lo(lp))]
      [] k = "scroll" -> [w |-> Long(wp, Lo(lp)), l |-> H32(Hi(lp))]
      [] k = "menuchar" -> [w |-> Long(wp, Lo(lp)), l |-> H32(Hi(lp))]
      [] k = "menuselect" ->
            LET menu == H32(Hi(lp))
                pos == PositionOf(menu, H32(wp))
            IN  [w |-> Long(IF IsPopup(Lo(lp)) /\ pos # -1 THEN pos ELSE wp, Lo(lp)),
                 l |-> menu]
      [] k \in InWParam -> [w |-> H32(wp), l |-> lp]
      [] k = "index" -> [w |-> Signed(wp), l |-> lp]
      [] k = "lineindex" -> [w |-> IF wp = W - 1 THEN -1 ELSE wp, l |-> lp]
      [] k = "lb_setsel" -> [w |-> wp, l |-> Signed(Lo(lp))]
      [] k = "linescroll" -> [w |-> Signed(Hi(lp)), l |-> Signed(Lo(lp))]
      [] k = "setsel" ->
            IF Signed(Lo(lp)) = -1 THEN [w |-> -1, l |-> 0]
                                   ELSE [w |-> Lo(lp), l |-> Signed(Hi(lp))]
      [] k = "enteridle" -> [w |-> wp, l |-> H32(Lo(lp))]
      [] k = "ctlcolor" -> [w |-> H32(wp), l |-> H32(Lo(lp)),
                            type |-> IF Hi(lp) > 6 THEN 6 ELSE Hi(lp)]
      [] OTHER -> [w |-> wp, l |-> lp]

\* A mistake it could have made: a scroll's position goes back where a menu's
\* handle would be.
ScrollLikeCommand(k, m) ==
    CASE k \in HandleFirst \cup {"scroll"} -> <<Lo(m.w), Long(H16(m.l), Hi(m.w))>>
      [] k \in InWParam -> <<H16(m.w), Lo(m.l) + W * Hi(m.l)>>
      [] OTHER -> <<Lo(m.w), Lo(m.l) + W * Hi(m.l)>>

\* And back.  A handle in wParam and a plain value are cut to size.
Packed(k, m) ==
    CASE k \in HandleFirst -> <<Lo(m.w), Long(H16(m.l), Hi(m.w))>>
      [] k \in {"scroll", "menuchar"} -> <<Lo(m.w), Long(Hi(m.w), H16(m.l))>>
      [] k = "menuselect" ->
            LET sub == IF IsPopup(Hi(m.w)) THEN SubAt(m.l, Lo(m.w)) ELSE 0
            IN  <<IF sub # 0 THEN H16(sub) ELSE Lo(m.w), Long(Hi(m.w), H16(m.l))>>
      [] k \in InWParam -> <<H16(m.w), Long(Lo(m.l), Hi(m.l))>>
      [] k = "lb_setsel" -> <<Lo(m.w), Lo(m.l)>>
      [] k = "linescroll" -> <<0, Long(Lo(m.l), Lo(m.w))>>
      [] k = "setsel" -> <<0, Long(Lo(m.w), Lo(m.l))>>
      [] k = "enteridle" -> <<Lo(m.w), H16(m.l)>>
      [] k = "ctlcolor" -> <<H16(m.w), Long(H16(m.l), m.type)>>
      [] k = "getdlgcode" -> <<0, 0>>
      [] k = "activateapp" -> <<Lo(m.w), 0>>
      [] OTHER -> <<Lo(m.w), Long(Lo(m.l), Hi(m.l))>>

---------------------------------------------------------------------------
(* The numbers *)

WM_USER == 1024
Block(cls, first32, first16, count) ==
    [cls |-> cls, msg32 |-> first32, msg16 |-> first16, count |-> count]
CtlBlocks == { Block("Edit", 176, 1024, 35), Block("ScrollBar", 224, 1024, 5),
               Block("Button", 240, 1024, 5), Block("ComboBox", 320, 1024, 25),
               Block("Static", 368, 1024, 2), Block("ListBox", 384, 1025, 37),
               Block("ComboLBox", 384, 1025, 37) }
Classes == {b.cls : b \in CtlBlocks} \cup {"own"}

In(n, first, count) == n \in first .. first + count - 1

Msg16To32(cls, n) ==
    IF \E b \in CtlBlocks : b.cls = cls /\ In(n, b.msg16, b.count)
    THEN LET b == CHOOSE x \in CtlBlocks : x.cls = cls IN n - b.msg16 + b.msg32
    ELSE n

Msg32To16(n) ==
    IF \E b \in CtlBlocks : In(n, b.msg32, b.count)
    THEN LET b == CHOOSE x \in CtlBlocks : In(n, x.msg32, x.count)
         IN  n - b.msg32 + b.msg16
    ELSE n

KnownRanges == { <<0, 36>>, <<38, 57>>, <<65, 72>>, <<129, 137>>, <<160, 169>>,
    <<256, 264>>, <<272, 280>>, <<287, 289>>, <<305, 312>>, <<512, 521>>,
    <<528, 530>>, <<544, 564>>, <<768, 785>>, <<896, 927>>, <<928, 991>>,
    <<992, 1000>> }
Known(n) == \E r \in KnownRanges : n \in r[1] .. r[2]

\* Whether Win16 could have sent it: the bridge and the loop ask.
MsgWin16(n) ==
    IF n >= WM_USER THEN n < 49152
    ELSE Msg32To16(n) # n \/ Known(n)

---------------------------------------------------------------------------
(* What is asked *)

VARIABLE q                 \* one message, and the way it goes

\* The words that matter: zero, the small ones, those round the sign and -1.
Words == {0, 1, 2, W \div 2 - 1, W \div 2, W - 1}
Handles == 0 .. MaxHandle
Longs == {Long(lo, hi) : lo \in Words, hi \in Words}

\* What a host posts of a kind, within what sixteen bits can carry.
HostOf(k) ==
    LET pair(ws, ls) == [w : ws, l : ls]
        hands == {H32(h) : h \in Handles}
    IN  CASE k \in HandleFirst \cup {"scroll", "menuchar", "menuselect"} ->
                { m \in pair({Long(lo, hi) : lo \in Words, hi \in Words}, hands) :
                     k = "menuselect" /\ IsPopup(Hi(m.w)) /\ m.l = H32(TheMenu) => Lo(m.w) = 1 }
          [] k \in InWParam -> pair(hands, Longs)
          [] k = "index" -> pair({Signed(w) : w \in Words}, Longs)
          [] k = "lineindex" -> pair({-1} \cup (Words \ {W - 1}), Longs)
          [] k = "lb_setsel" -> pair(Words, {Signed(w) : w \in Words})
          [] k = "linescroll" -> pair({Signed(w) : w \in Words}, {Signed(w) : w \in Words})
          [] k = "setsel" -> pair(Words \ {W - 1}, {Signed(w) : w \in Words}) \cup {[w |-> -1, l |-> 0]}
          [] k = "enteridle" -> pair(Words, hands)
          [] k = "ctlcolor" -> [w : hands, l : hands, type : 0 .. 6]
          [] k = "getdlgcode" -> {[w |-> 0, l |-> 0]}
          [] k = "activateapp" -> pair(Words, {0})
          [] OTHER -> pair(Words, Longs)

\* A guest that says an item is a submenu names the submenu.
Sensible(k, wp, lp) ==
    k = "menuselect" /\ IsPopup(Lo(lp)) /\ Hi(lp) = TheMenu => wp = TheSub

ValuesAny ==
    \/ \E k \in Kinds, wp \in Words, lp \in Longs :
          Sensible(k, wp, lp) /\ q = [way |-> "guest", k |-> k, wp |-> wp, lp |-> lp]
    \/ \E k \in Kinds : \E m \in HostOf(k) : q = [way |-> "host", k |-> k, m |-> m]
    \/ \E cls \in Classes, n \in 0 .. WM_USER + 128 : q = [way |-> "number", cls |-> cls, n |-> n]

\* What Win16 reads of a message, for the kinds that do not read it all.  A
\* handle that is none is as good as 0.
Known16(w) == IF w \in Handles THEN w ELSE 0
Read16(k, wp, lp) ==
    CASE k \in HandleFirst \cup {"enteridle"} ->
            <<wp, Known16(Lo(lp)), IF k = "enteridle" THEN 0 ELSE Hi(lp)>>
      [] k \in {"scroll", "menuchar", "menuselect"} -> <<wp, Lo(lp), Known16(Hi(lp))>>
      [] k \in InWParam -> <<Known16(wp), lp>>
      [] k = "lb_setsel" -> <<wp, Lo(lp)>>
      [] k = "linescroll" -> <<lp>>
      [] k = "setsel" -> IF Lo(lp) = W - 1 THEN << -1 >> ELSE <<lp>>
      [] k = "ctlcolor" -> <<Known16(wp), Known16(Lo(lp)), IF Hi(lp) > 6 THEN 6 ELSE Hi(lp)>>
      [] k = "getdlgcode" -> <<>>
      [] k = "activateapp" -> <<wp>>
      [] OTHER -> <<wp, lp>>

\* A message the guest sends to a window of its own goes out through the host
\* and comes back saying what the guest said, as far as Win16 would have read
\* it (u_SendMessage sends everything through the host).
GuestWordsKept ==
    q.way = "guest" =>
        LET back == Packed(q.k, Unpacked(q.k, q.wp, q.lp))
        IN  Read16(q.k, back[1], back[2]) = Read16(q.k, q.wp, q.lp)

\* A message the host posts, taken by the guest's loop and dispatched as it was
\* taken, reaches its window as the host meant it (put_msg16, get_msg16).
HostWordsKept ==
    q.way = "host" =>
        LET p == Packed(q.k, q.m) IN Unpacked(q.k, p[1], p[2]) = q.m

\* A number the guest may use comes back as itself through a window of any class, is
\* not held back as one Win16 never had, and means nothing a control of another class
\* would do: Win16 gave the same numbers to every control (ctlblocks).
NumbersKept ==
    q.way = "number" /\ (q.n >= WM_USER \/ (Known(q.n) /\ Msg32To16(q.n) = q.n)) =>
        LET out == Msg16To32(q.cls, q.n)
        IN  /\ Msg32To16(out) = q.n
            /\ MsgWin16(out)
            /\ \A b \in CtlBlocks : out # q.n /\ In(out, b.msg32, b.count) =>
                  \E own \in CtlBlocks : own.cls = q.cls /\ own.msg32 = b.msg32

\* A message's words and its number survive the way to the other side and back.
ValuesKept == GuestWordsKept /\ HostWordsKept /\ NumbersKept

-----------------------------------------------------------------------------
(***************************************************************************)
(* A turn of the wheel as lines to scroll (winproc_wheel of winproc.c).  A    *)
(* trackpad reports less than a notch at a time; what is over is carried to  *)
(* the next turn over the same window, an axis for itself.                  *)
(***************************************************************************)

CONSTANTS WHEEL_DELTA,     \* a notch
          Deltas,          \* what one message may say
          PerNotch,        \* lines to a notch, PageScroll for a page
          MaxTurn          \* BOUND: how far it is turned over one window

ASSUME WheelConstants == WHEEL_DELTA \in Nat \ {0} /\ Deltas \subseteq Int

VARIABLES lastWindow, carry,
          turned, notched, \* since it came over the window: turned, and scrolled
          sent             \* the last turn's messages: which, and how many

wheelVars == <<lastWindow, carry, turned, notched, sent>>

PageScroll == -1
Panes == {"list", "map"}
Axes == {"vert", "horz"}
AbsOf(x) == IF x < 0 THEN -x ELSE x

\* C divides toward zero.
NotchesIn(c) == IF c < 0 THEN -((-c) \div WHEEL_DELTA) ELSE c \div WHEEL_DELTA

\* A mistake it could have made: a notch done, nothing is over.
NothingOver(c) == IF NotchesIn(c) = 0 THEN c ELSE 0

Over(c) == c - NotchesIn(c) * WHEEL_DELTA

\* A silly setting is still a cap.
CountOf(n, per) ==
    IF per = PageScroll THEN AbsOf(n)
    ELSE IF AbsOf(n) * per > 64 THEN 64 ELSE AbsOf(n) * per
CodeOf(n, per) == <<IF per = PageScroll THEN "page" ELSE "line", IF n > 0 THEN "up" ELSE "down">>

Zero == [a \in Axes |-> 0]

\* A window that scrolls that way; tilting right scrolls right, where turning away
\* scrolls up.
Turn ==
    \E h \in Panes, d \in Deltas, tilt \in BOOLEAN, shift \in BOOLEAN, per \in PerNotch :
       LET axis == IF tilt \/ shift THEN "horz" ELSE "vert"
           delta == IF tilt THEN -d ELSE d
           old == IF h = lastWindow THEN carry ELSE Zero
           was(f) == IF h = lastWindow THEN f ELSE Zero
           c == old[axis] + delta
           n == NotchesIn(c)
       IN  /\ AbsOf(was(turned)[axis] + delta) <= MaxTurn
           /\ lastWindow' = h
           /\ carry' = [old EXCEPT ![axis] = Over(c)]
           /\ turned' = [was(turned) EXCEPT ![axis] = @ + delta]
           /\ notched' = [was(notched) EXCEPT ![axis] = @ + n]
           /\ sent' = IF n = 0 THEN [code |-> <<"none", "none">>, count |-> 0]
                      ELSE [code |-> CodeOf(n, per), count |-> CountOf(n, per)]

WheelInit ==
    /\ lastWindow = "none" /\ carry = Zero
    /\ turned = Zero /\ notched = Zero
    /\ sent = [code |-> <<"none", "none">>, count |-> 0]

---------------------------------------------------------------------------
(* Properties *)

\* However finely a wheel reports, and turned back and forth, a window has scrolled
\* by the whole notches of the turning over it: no notch is lost or made up.
NotchesKept ==
    \A a \in Axes : AbsOf(turned[a] - WHEEL_DELTA * notched[a]) < WHEEL_DELTA

=============================================================================
