-------------------------- MODULE HeadlessObjects ---------------------------
(***************************************************************************)
(* The library's drawing objects and menus (headless.c): one table of them, *)
(* handles that are places in it, used again as soon as they are free, and  *)
(* the stock objects, which are made when they are first asked for.         *)
(***************************************************************************)
EXTENDS Integers, FiniteSets, FiniteSetsExt, Sequences, SequencesExt

CONSTANTS MAX_OBJS,        \* places in the table: 2048
          Submenus,        \* submenus a menu may have, from 0: 16
          ObjectCalls      \* BOUND: calls the guest makes

ASSUME ObjectConstants == MAX_OBJS \in Nat \ {0} /\ Submenus \in Nat

VARIABLES objs,            \* the table
          stock,           \* the handles of the stock objects, or Nothing
          fell,            \* the host has written through a null pointer
          asked            \* BOUND: counts the calls

objVars == <<objs, stock, fell, asked>>

Nothing == 0
Handles == 1 .. MAX_OBJS
Stock == 0 .. 19
ObjSlots == {"font", "pen", "brush", "bitmap"}
Kinds == ObjSlots \cup {"palette", "rgn", "dc", "menu"}
Unused == [kind |-> "free", has |-> [s \in ObjSlots \cup {"palette"} |-> Nothing],
           sub |-> [i \in 0 .. Submenus - 1 |-> Nothing]]

\* A table and the stock, and whether the host is still standing.
World == [objs |-> objs, stock |-> stock, fell |-> FALSE, made |-> Nothing]

\* obj_get.
There(w, h) == h # Nothing /\ w.objs[h].kind # "free"

\* obj_new: the first free place, all of it cleared.
New(w, kind) ==
    LET free == {h \in Handles : w.objs[h].kind = "free"}
    IN  IF free = {} THEN [w EXCEPT !.made = Nothing]
        ELSE [w EXCEPT !.objs[Min(free)] = [Unused EXCEPT !.kind = kind],
                       !.made = Min(free)]

StockKind(n) == IF n <= 5 THEN "brush" ELSE IF n <= 8 THEN "pen"
                ELSE IF n = 15 THEN "palette" ELSE "font"

\* stock_object.  The size of a font is written without a look at whether
\* there was room for the font.
StockObject(w, n) ==
    IF w.stock[n] # Nothing THEN [w EXCEPT !.made = w.stock[n]]
    ELSE LET v == New(w, StockKind(n))
         IN  [v EXCEPT !.stock[n] = v.made,
                       !.fell = @ \/ (v.made = Nothing /\ StockKind(n) = "font")]

\* dc_new.  The device context is made first, and what it draws with after.
DrawsWith(w, dc, slot, n) ==
    LET v == StockObject(w, n) IN [v EXCEPT !.objs[dc].has[slot] = v.made]

NewDC(w) ==
    LET v == New(w, "dc")
        dc == v.made
        font == DrawsWith(v, dc, "font", 13)
        pen == DrawsWith(font, dc, "pen", 7)
        brush == DrawsWith(pen, dc, "brush", 0)
    IN  IF dc = Nothing THEN v
        ELSE [DrawsWith(brush, dc, "palette", 15) EXCEPT !.made = dc]

\* obj_free: stock objects stay, and what names the object goes on naming it.
Erased(w, h) ==
    IF There(w, h) /\ \A n \in Stock : w.stock[n] # h
    THEN [w EXCEPT !.objs[h].kind = "free"] ELSE w

\* g_SelectObject.  A bitmap put where none was is answered with a new one.
Select(w, dc, h) ==
    LET kind == w.objs[h].kind
        old == w.objs[dc].has[kind]
        v == [w EXCEPT !.objs[dc].has[kind] = h, !.made = old]
    IN  IF ~There(w, dc) \/ ~There(w, h) \/ w.objs[dc].kind # "dc" \/ kind \notin ObjSlots
          THEN w
        ELSE IF old = Nothing /\ kind = "bitmap" THEN New(v, "bitmap") ELSE v

\* u_GetSubMenu: made when it is first asked for.
SubMenu(w, menu, pos) ==
    IF ~There(w, menu) \/ w.objs[menu].kind # "menu" \/ w.objs[menu].sub[pos] # Nothing THEN w
    ELSE LET v == New(w, "menu") IN [v EXCEPT !.objs[menu].sub[pos] = v.made]

\* A mistake it could have made: whatever has the font's handle is the font.
FontByHandle(w, dc) ==
    IF There(w, dc) /\ w.objs[dc].kind = "dc" /\ There(w, w.objs[dc].has["font"])
    THEN w.objs[dc].has["font"] ELSE w.stock[13]

\* dc_font: the handle a device context keeps may have become another's.
FontOf(w, dc) ==
    LET own == w.objs[dc].has["font"]
    IN  IF There(w, dc) /\ w.objs[dc].kind = "dc" /\ There(w, own)
           /\ w.objs[own].kind = "font"
        THEN own ELSE w.stock[13]

Becomes(w) == objs' = w.objs /\ stock' = w.stock /\ fell' = w.fell

ObjectStep ==
    /\ ~fell /\ asked < ObjectCalls
    /\ asked' = asked + 1
    /\ \/ \E k \in Kinds \ {"dc"} : Becomes(New(World, k))
       \/ \E n \in {0, 7, 13, 15} : Becomes(StockObject(World, n))
       \/ Becomes(NewDC(World))
       \/ \E h \in Handles : Becomes(Erased(World, h))
       \/ \E dc, h \in Handles : There(World, h) /\ Becomes(Select(World, dc, h))
       \/ \E h \in Handles, i \in 0 .. Submenus - 1 : Becomes(SubMenu(World, h, i))
       \/ \E dc \in Handles : FontOf(World, dc) = Nothing /\ Becomes(StockObject(World, 13))

ObjectInit ==
    /\ objs = [h \in Handles |-> Unused]
    /\ stock = [n \in Stock |-> Nothing]
    /\ fell = FALSE /\ asked = 0

\* What a device context measures text with is a font (dc_font): its own, or
\* the system's when its own has been deleted, even where another object has
\* been made under the deleted font's handle.  A stock object is there, and is
\* of its kind, however often the guest deletes it: the guest's other device
\* contexts draw with it too.
HandlesStayHonest ==
    /\ \A dc \in Handles : FontOf(World, dc) # Nothing => objs[FontOf(World, dc)].kind = "font"
    /\ \A n \in Stock : stock[n] # Nothing => objs[stock[n]].kind = StockKind(n)
    /\ fell => \A h \in Handles : objs[h].kind # "free"

-----------------------------------------------------------------------------
(***************************************************************************)
(* A list box or the list of a combo box of the library (list_proc,         *)
(* headless.c): how many items there are, which one is selected, and the    *)
(* word of data the program keeps with each.  The items' text is not kept.  *)
(***************************************************************************)

CONSTANTS MAX_ITEMS,       \* places for items' data: 256
          Data             \* what a program may keep with an item, 0 is in it

ASSUME ListConstants == MAX_ITEMS \in Nat \ {0} /\ Data \subseteq Nat /\ 0 \in Data

VARIABLES count, cursel, itemdata,
          reply,           \* what the list answered last
          items            \* history: what the program has set of each item

listVars == <<count, cursel, itemdata, reply, items>>

LB_ERR == 0 - 1            \* 0xFFFF, and 0xFFFFFFFF for an item's data
Unset == -1                \* an item whose data the program has not set
Places == 0 .. MAX_ITEMS - 1

\* memmove of n items from place `from` to place `to`.
Moved(to, from, n) ==
    [p \in Places |-> IF p \in to .. to + n - 1 THEN itemdata[p - to + from]
                                                ELSE itemdata[p]]

Add ==
    \/ /\ count >= MAX_ITEMS /\ reply' = LB_ERR
       /\ UNCHANGED <<count, items>>
    \/ /\ count < MAX_ITEMS
       /\ reply' = count /\ count' = count + 1
       /\ items' = Append(items, Unset)

\* Where an item goes: at the end unless there is an item there already.
Position(wp) == IF wp < 0 \/ wp > count THEN count ELSE wp

\* The data are moved up and the new item's is zero.
Inserted(at) == [Moved(at + 1, at, count - at) EXCEPT ![at] = 0]

Insert(wp) ==
    \/ /\ count >= MAX_ITEMS /\ reply' = LB_ERR
       /\ UNCHANGED <<count, itemdata, items>>
    \/ /\ count < MAX_ITEMS
       /\ itemdata' = Inserted(Position(wp))
       /\ count' = count + 1
       /\ reply' = Position(wp)
       /\ items' = InsertAt(items, Position(wp) + 1, 0)

\* The selection, when n items are left.
SelectionLeft(n) == IF cursel >= n THEN -1 ELSE cursel

\* A mistake it could have made: one item too few is moved down.
DeletedShort(wp) == Moved(wp, wp + 1, count - wp - 2)

Deleted(wp) == Moved(wp, wp + 1, count - wp - 1)

Delete(wp) ==
    \/ /\ wp >= count /\ reply' = LB_ERR
       /\ UNCHANGED <<count, cursel, itemdata, items>>
    \/ /\ wp < count
       /\ itemdata' = Deleted(wp)
       /\ count' = count - 1
       /\ cursel' = SelectionLeft(count - 1)
       /\ reply' = count - 1
       /\ items' = RemoveAt(items, wp + 1)

ResetContent ==
    /\ count' = 0 /\ cursel' = -1 /\ reply' = 0
    /\ itemdata' = [p \in Places |-> 0]
    /\ items' = << >>

SetCurSel(wp) ==
    /\ cursel' = IF wp >= 0 /\ wp < count THEN wp ELSE -1
    /\ reply' = cursel'

SetItemData(wp, d) ==
    \/ /\ wp >= count /\ reply' = LB_ERR
       /\ UNCHANGED <<itemdata, items>>
    \/ /\ wp < count /\ reply' = 0
       /\ itemdata' = [itemdata EXCEPT ![wp] = d]
       /\ items' = [items EXCEPT ![wp + 1] = d]

\* What is asked without changing anything: the data, the count, the selection.
Ask(wp) ==
    \/ reply' = IF wp < count THEN itemdata[wp] ELSE LB_ERR
    \/ reply' = count
    \/ reply' = cursel

\* The places a program may name: those there are, one past them, and, where
\* the number is read with its sign, one before them.
Named == 0 .. MAX_ITEMS

ListStep ==
    \/ Add /\ UNCHANGED <<cursel, itemdata>>
    \/ \E wp \in Named \cup {-1} : Insert(wp) /\ UNCHANGED cursel
    \/ \E wp \in Named : Delete(wp)
    \/ ResetContent
    \/ \E wp \in Named \cup {-1} : SetCurSel(wp) /\ UNCHANGED <<count, itemdata, items>>
    \/ \E wp \in Named, d \in Data : SetItemData(wp, d) /\ UNCHANGED <<count, cursel>>
    \/ \E wp \in Named : Ask(wp) /\ UNCHANGED <<count, cursel, itemdata, items>>

\* u_CreateWindow clears the window and selects nothing.
ListInit ==
    /\ count = 0 /\ cursel = -1 /\ reply = 0
    /\ itemdata = [p \in Places |-> 0]
    /\ items = << >>

\* What a program set of an item stays with that item while others come and
\* go around it, at the limit of the table as below it, and an inserted item
\* begins with zero; the selection is an item there is, or none.  (An item
\* that is added has what an item deleted before it left in its place: its
\* data say nothing until they are set.)
DataFollowsItems ==
    /\ Len(items) = count
    /\ \A n \in 1 .. count : items[n] \in {Unset, itemdata[n - 1]}
    /\ cursel \in -1 .. count - 1

=============================================================================
