----------------------------- MODULE Resources ------------------------------
(* api_res.c: the table of resources the guest has found, the global blocks
   they are loaded into, and the handles through which large ones are read.
   The heap is what the calls ask of it: a block that is free, or none. *)
EXTENDS Integers, FiniteSets, Sequences, SequencesExt

CONSTANTS
    MAX_RES,        \* slots of the table; the one numbered 0 is not used
    Table,          \* the resource table of the module: a sequence of entries
                    \* [type, name, string, inside]
    Asked,          \* how the guest names a type or a name: [by, value]
    Blocks,         \* the handles of the heap, above 0
    MostLoads       \* bound on the loads of one resource outstanding

ASSUME ResourceAssumption ==
    /\ MAX_RES \in Nat /\ Blocks \subseteq Nat \ {0}
    \* a name is spelled in the table once
    /\ \A i, j \in DOMAIN Table :
           Table[i].string = Table[j].string /\ Table[i].string # ""
               => Table[i].name = Table[j].name

VARIABLES rsrc,     \* the table: slots 1 .. MAX_RES - 1
          contents, \* contents[b] of each live block: a resource, "zeros" or "guest"
          loads,    \* loads[r]: how many loads of a resource the guest has not freed
          copies    \* blocks of AllocResource and of the guest itself

resVars == <<rsrc, contents, loads, copies>>

FreeSlot == [used |-> FALSE]
Slots == 1 .. MAX_RES - 1

Nameless == <<"none", 0>>

(* res_key: a number, its decimal spelling, and a name, which stands for the
   place of its string in the table, if there is one. *)
NameKey(asked) ==
    IF asked.by # "string" THEN <<"ordinal", asked.value>>
    ELSE LET at == SelectInSeq(Table, LAMBDA e : e.string = asked.value)
         IN  IF at = 0 THEN Nameless ELSE Table[at].name

Key(type, asked) == <<type, NameKey(asked)>>

(* ne_find_resource *)
InTable(key) == SelectInSeq(Table, LAMBDA e : <<e.type, e.name>> = key)
Types == {Table[i].type : i \in DOMAIN Table}
WithinFile(h) == Table[InTable(rsrc[h].key)].inside

(* r_FindResource: the slot of an earlier call for the same resource, or the
   first that is free; 0 when there is neither. *)
FindSlot(key) ==
    LET same == {i \in Slots : rsrc[i].used /\ rsrc[i].key = key}
        free == {i \in Slots : ~rsrc[i].used}
        Least(S) == CHOOSE i \in S : \A j \in S : i <= j
    IN  IF same # {} THEN Least(same) ELSE IF free # {} THEN Least(free) ELSE 0

FindResource(type, asked) ==
    LET key == Key(type, asked)
        h   == FindSlot(key)
    IN  /\ NameKey(asked) # Nameless /\ InTable(key) # 0 /\ h # 0
        /\ rsrc' = IF rsrc[h].used THEN rsrc
                   ELSE [rsrc EXCEPT ![h] = [used |-> TRUE, key |-> key, hglobal |-> 0, usage |-> 0]]
        /\ UNCHANGED <<contents, loads, copies>>

Live == DOMAIN contents
WithBlock(b, what) == [x \in Live \cup {b} |-> IF x = b THEN what ELSE contents[x]]
Without(b) == [x \in Live \ {b} |-> contents[x]]

(* r_LoadResource.  One that runs past the end of the file is refused, with
   the block made for it left in the table. *)
LoadAgain(h) ==
    /\ rsrc[h].hglobal # 0
    /\ rsrc' = [rsrc EXCEPT ![h].usage = @ + 1]
    /\ loads' = [loads EXCEPT ![h] = @ + 1]
    /\ UNCHANGED <<contents, copies>>

LoadFirst(h) ==
    /\ rsrc[h].hglobal = 0
    /\ \E b \in Blocks \ Live :
           IF WithinFile(h)
           THEN /\ rsrc' = [rsrc EXCEPT ![h].hglobal = b, ![h].usage = 1]
                /\ contents' = WithBlock(b, rsrc[h].key)
                /\ loads' = [loads EXCEPT ![h] = @ + 1]
           ELSE /\ rsrc' = [rsrc EXCEPT ![h].hglobal = b]
                /\ contents' = WithBlock(b, "zeros")
                /\ UNCHANGED loads
    /\ UNCHANGED copies

LoadResource(h) == rsrc[h].used /\ loads[h] < MostLoads /\ (LoadAgain(h) \/ LoadFirst(h))

\* A mistake it could have made: uses are not counted.
FreedAtOnce(b) ==
    LET of == {i \in Slots : rsrc[i].used /\ rsrc[i].hglobal = b}
    IN  /\ contents' = Without(b)
        /\ rsrc' = [i \in Slots |-> IF i \in of THEN [rsrc[i] EXCEPT !.usage = 0, !.hglobal = 0]
                                    ELSE rsrc[i]]

(* r_FreeResource: the first slot of that block loses a use; the last use, and
   a block that is no resource's, go back to the heap.  A slot found and never
   loaded answers to 0. *)
Freed(b) ==
    LET of == {i \in Slots : rsrc[i].used /\ rsrc[i].hglobal = b}
        h  == CHOOSE i \in of : \A j \in of : i <= j
    IN  IF of = {} THEN rsrc' = rsrc /\ contents' = Without(b)
        ELSE IF rsrc[h].usage - 1 > 0
        THEN rsrc' = [rsrc EXCEPT ![h].usage = @ - 1] /\ contents' = contents
        ELSE /\ rsrc' = [rsrc EXCEPT ![h].usage = @ - 1, ![h].hglobal = 0]
             /\ contents' = Without(b)

FreeLoaded(h) ==
    /\ loads[h] > 0 /\ loads' = [loads EXCEPT ![h] = @ - 1]
    /\ Freed(rsrc[h].hglobal) /\ UNCHANGED copies

FreeCopy(b) == b \in copies /\ Freed(b) /\ copies' = copies \ {b} /\ UNCHANGED loads

(* FreeResource(0), after a load that was refused. *)
FreeNothing ==
    /\ \A h \in Slots : rsrc[h].used => rsrc[h].usage > -2
    /\ Freed(0) /\ UNCHANGED <<loads, copies>>

(* r_AllocResource, and the guest's own allocations: a block of their own. *)
AllocResource(h) ==
    /\ rsrc[h].used
    /\ \E b \in Blocks \ Live : contents' = WithBlock(b, "guest") /\ copies' = copies \cup {b}
    /\ UNCHANGED <<rsrc, loads>>

ResourcesInit ==
    /\ rsrc = [i \in Slots |-> FreeSlot] /\ contents = <<>>
    /\ loads = [i \in Slots |-> 0] /\ copies = {}

ResourcesNext ==
    \/ \E type \in Types, asked \in Asked : FindResource(type, asked)
    \/ \E h \in Slots : LoadResource(h) \/ FreeLoaded(h) \/ AllocResource(h)
    \/ \E b \in Blocks : FreeCopy(b)
    \/ FreeNothing
-----------------------------------------------------------------------------
(* A resource has one slot, so its handles compare equal however the guest
   named it, and it holds a block, with its own contents and nobody else's,
   exactly while the guest has loads of it that it did not free. *)
ResourcesHeld ==
    /\ \A i, j \in Slots : rsrc[i].used /\ rsrc[j].used /\ rsrc[i].key = rsrc[j].key => i = j
    /\ \A h \in Slots : rsrc[h].used /\ WithinFile(h) =>
           /\ (loads[h] > 0 => rsrc[h].usage = loads[h]) /\ (loads[h] > 0 <=> rsrc[h].hglobal # 0)
           /\ loads[h] > 0 => /\ rsrc[h].hglobal \in Live \ copies
                              /\ contents[rsrc[h].hglobal] = rsrc[h].key
    /\ \A b \in Live \ copies : \E h \in Slots : rsrc[h].used /\ rsrc[h].hglobal = b
    /\ copies \subseteq Live

-----------------------------------------------------------------------------
(* resobj.c and dlg.c: menus and dialogs as the module holds them, and what
   the host is given.  A template is a sequence of bytes, a host template one of words; a
   string is its letters and a zero.  A menu is a sequence of items, a popup's
   item holding the items under it. *)

CONSTANTS
    Menus, DEEPEST,     \* menus to load; how deep menu_walk goes
    Dialogs,            \* dialogs to load
    Ratio(_, _)         \* hbase_ratio: of a point size and a face, <<num, den>>

ASSUME TemplateAssumption == DEEPEST \in Nat

VARIABLES template, made

templateVars == <<template, made>>

Word(n) == <<n % 256, n \div 256>>
(* Past the end of a template lies the rest of the module, any bytes: zeros here. *)
ByteAt(s, i) == IF i <= Len(s) THEN s[i] ELSE 0
WordAt(s, i) == ByteAt(s, i) + (256 * ByteAt(s, i + 1))

-----------------------------------------------------------------------------
(* Menus.  MF_POPUP and MF_END are the only flags told apart from the rest. *)
POPUP == 16
END16 == 128

(* The lists of items there are: the menus, and what is under their popups. *)
ItemLists ==
    LET down[n \in 0 .. DEEPEST + 1] ==
          IF n = 0 THEN Menus
          ELSE {e.items : e \in {e \in UNION {ToSet(list) : list \in down[n - 1]} : e.popup}}
    IN  UNION {down[n] : n \in 0 .. DEEPEST + 1}

(* A menu as the resource compiler of the guest writes it. *)
MenuBytes(menu) ==
    LET bytes[items \in ItemLists] ==
          FlattenSeq([i \in DOMAIN items |->
              LET e     == items[i]
                  flags == e.flags + IF i = Len(items) THEN END16 ELSE 0
              IN  IF e.popup THEN Word(flags + POPUP) \o e.text \o <<0>> \o bytes[e.items]
                  ELSE Word(flags) \o Word(e.id) \o e.text \o <<0>>])
    IN  bytes[menu]

(* menu_text: the letters up to the terminator, and the place after it. *)
TextAt(s, p) ==
    LET stops == {q \in p .. Len(s) : s[q] = 0}
        past  == IF p > Len(s) THEN p ELSE Len(s) + 1
        q     == IF stops = {} THEN past ELSE CHOOSE x \in stops : \A y \in stops : x <= y
    IN  [text |-> SubSeq(s, p, q - 1), next |-> IF q > Len(s) THEN q ELSE q + 1]

(* menu_walk, over the whole of s: the items appended, and where the list
   after them continues. *)
Plain(flags) == flags - (IF flags >= END16 THEN END16 ELSE 0)
IsPopup(flags) == (flags % (2 * POPUP)) >= POPUP

MenuWalk(s) ==
    LET walk[p \in 1 .. Len(s) + 1, depth \in 0 .. DEEPEST + 1] ==
          LET flags == WordAt(s, p)
              id    == WordAt(s, p + 2)
              label == TextAt(s, IF IsPopup(flags) THEN p + 2 ELSE p + 4)
              below == walk[label.next, depth + 1]
              item  == IF IsPopup(flags)
                       THEN [popup |-> TRUE, flags |-> Plain(flags) - POPUP,
                             text |-> label.text, items |-> below.items]
                       ELSE IF id = 0 /\ label.text = <<>>
                       THEN [popup |-> FALSE, flags |-> 0, id |-> 0, text |-> <<>>]
                       ELSE [popup |-> FALSE, flags |-> Plain(flags), id |-> id, text |-> label.text]
              next  == IF IsPopup(flags) THEN below.next ELSE label.next
              rest  == IF flags >= END16 THEN [items |-> <<>>, next |-> next]
                       ELSE walk[next, depth]
          IN  IF depth > DEEPEST THEN [items |-> <<>>, next |-> Len(s) + 1]
              ELSE IF p + 1 > Len(s) THEN [items |-> <<>>, next |-> p]
              ELSE IF ~IsPopup(flags) /\ p + 3 > Len(s) THEN [items |-> <<>>, next |-> p + 2]
              ELSE [items |-> <<item>> \o rest.items, next |-> rest.next]
    IN  walk[1, 0]

-----------------------------------------------------------------------------
(* Dialogs: dlg16_to_32 reads the bytes s from p on and writes words; `bad` is
   the jump to the end where it gives up. *)
SETFONT == 64
NOINTEGRALHEIGHT == 256
LISTBOX == 131
Wide(n) == <<n, 0>>             \* a dword whose value fits in its low word

MulDiv(v, num, den) == ((v * num) + (den \div 2)) \div den

(* w_sz_or_ord *)
StringTo(st, s) ==
    LET t == TextAt(s, st.p) IN [st EXCEPT !.p = t.next, !.out = @ \o t.text \o <<0>>]

StringOrOrdinal(st, s) ==
    IF st.p <= Len(s) /\ s[st.p] = 255
    THEN [st EXCEPT !.p = @ + 3, !.out = @ \o <<65535, WordAt(s, st.p + 1)>>]
    ELSE StringTo(st, s)

(* skip_sz_or_ord *)
Skipped(s, p) ==
    IF p <= Len(s) /\ s[p] = 255 THEN (IF p + 3 <= Len(s) THEN p + 3 ELSE Len(s) + 1)
    ELSE TextAt(s, p).next

(* The font, read ahead of the three strings it lies behind. *)
FontRatio(s, style) ==
    LET q == Skipped(s, Skipped(s, Skipped(s, 14)))
    IN  IF (style % (2 * SETFONT)) >= SETFONT /\ q + 2 <= Len(s)
        THEN Ratio(WordAt(s, q), TextAt(s, q + 2).text) ELSE <<1, 1>>

(* A mistake it could have made: those down are changed too. *)
GeometryBoth(s, p, ratio) ==
    [i \in 1 .. 4 |-> MulDiv(WordAt(s, p + (2 * (i - 1))), ratio[1], ratio[2])]

(* Four words of geometry, those across in the units of the host. *)
Geometry(s, p, ratio) ==
    [i \in 1 .. 4 |-> LET v == WordAt(s, p + (2 * (i - 1)))
                      IN  IF i \in {1, 3} THEN MulDiv(v, ratio[1], ratio[2]) ELSE v]

(* Writing the items one after the other. *)
Aligned(out) == IF Len(out) % 2 = 1 THEN Append(out, 0) ELSE out

(* The creation data: its length as the host counts it, and its bytes, two to a word. *)
ExtraTo(st, s) ==
    IF st.p > Len(s) THEN [st EXCEPT !.bad = TRUE]
    ELSE LET extra == s[st.p]
             byte(k) == IF k <= extra THEN s[st.p + k] ELSE 0
             words == [k \in 1 .. (extra + 1) \div 2 |->
                          byte((2 * k) - 1) + (256 * byte(2 * k))]
         IN  IF extra = 0 THEN [st EXCEPT !.p = @ + 1, !.out = Append(@, 0)]
             ELSE IF st.p + extra > Len(s) THEN [st EXCEPT !.bad = TRUE]
             ELSE [st EXCEPT !.p = @ + 1 + extra, !.out = Append(@, extra + 2) \o words]

ClassTo(st, s) ==
    IF st.p <= Len(s) /\ s[st.p] >= 128
    THEN [st EXCEPT !.p = @ + 1, !.out = @ \o <<65535, s[st.p]>>]
    ELSE StringTo(st, s)

ItemStyle(s, p) ==
    LET style == WordAt(s, p + 10)
    IN  IF p + 14 <= Len(s) /\ s[p + 14] = LISTBOX /\ (style % (2 * NOINTEGRALHEIGHT)) < NOINTEGRALHEIGHT
        THEN style + NOINTEGRALHEIGHT ELSE style

ItemTo(st, s, ratio) ==
    IF st.bad \/ st.p + 13 > Len(s) THEN [st EXCEPT !.bad = TRUE]
    ELSE LET head == [st EXCEPT !.p = @ + 14,
                                !.out = Aligned(@) \o Wide(ItemStyle(s, st.p)) \o Wide(0)
                                            \o Geometry(s, st.p, ratio) \o <<WordAt(s, st.p + 8)>>]
         IN  ExtraTo(StringOrOrdinal(ClassTo(head, s), s), s)

Converted(s) ==
    IF Len(s) < 14 THEN [bad |-> TRUE, out |-> <<>>]
    ELSE LET style == WordAt(s, 1)
             ratio == FontRatio(s, style)
             head  == [p |-> 14, bad |-> FALSE,
                       out |-> Wide(style) \o Wide(0) \o <<s[5]>> \o Geometry(s, 6, ratio)]
             named == StringOrOrdinal(StringOrOrdinal(StringOrOrdinal(head, s), s), s)
             font  == IF (style % (2 * SETFONT)) < SETFONT THEN named
                      ELSE IF named.p + 1 > Len(s) THEN [named EXCEPT !.bad = TRUE]
                      ELSE StringTo([named EXCEPT !.p = @ + 2, !.out = Append(@, WordAt(s, named.p))], s)
             all   == FoldLeft(LAMBDA st, i : IF st.bad THEN st ELSE ItemTo(st, s, ratio),
                               font, [i \in 1 .. s[5] |-> i])
         IN  [bad |-> all.bad, out |-> all.out]

(* The bytes of a dialog, as the resource compiler of the guest lays them out. *)
NameBytes(n) == IF n.ordinal THEN <<255>> \o Word(n.value) ELSE n.letters \o <<0>>
GeometryBytes(g) == FlattenSeq([i \in 1 .. 4 |-> Word(g[i])])

ItemBytes(e) ==
    GeometryBytes(e.geometry) \o Word(e.id) \o Word(e.style) \o Word(0)
        \o (IF e.class.ordinal THEN <<e.class.value>> ELSE NameBytes(e.class))
        \o NameBytes(e.text) \o <<Len(e.extra)>> \o e.extra

DialogBytes(d) ==
    Word(d.style) \o Word(0) \o <<Len(d.items)>> \o GeometryBytes(d.geometry)
        \o NameBytes(d.menu) \o NameBytes(d.class) \o NameBytes(d.caption)
        \o (IF d.style >= SETFONT THEN Word(d.points) \o d.face \o <<0>> ELSE <<>>)
        \o FlattenSeq([i \in DOMAIN d.items |-> ItemBytes(d.items[i])])

(* USER32 reading the words it is given: an item begins on an even word and
   counts its creation data with the word that counts it. *)
ReadName(w, p) ==
    IF w[p] = 65535 THEN [name |-> [ordinal |-> TRUE, value |-> w[p + 1]], next |-> p + 2]
    ELSE LET t == TextAt(w, p) IN [name |-> [ordinal |-> FALSE, letters |-> t.text], next |-> t.next]

ReadItem(st, w) ==
    LET p     == IF st.p % 2 = 0 THEN st.p + 1 ELSE st.p
        class == ReadName(w, p + 9)
        text  == ReadName(w, class.next)
        count == w[text.next]
        bytes == IF count = 0 THEN 0 ELSE count - 2
        data  == [k \in 1 .. bytes |->
                     LET v == w[text.next + ((k + 1) \div 2)]
                     IN  IF k % 2 = 1 THEN v % 256 ELSE v \div 256]
    IN  [p |-> text.next + 1 + ((bytes + 1) \div 2),
         items |-> Append(st.items,
             [style |-> w[p], geometry |-> SubSeq(w, p + 4, p + 7), id |-> w[p + 8],
              class |-> class.name, text |-> text.name, extra |-> data])]

ReadDialog(w) ==
    LET menu    == ReadName(w, 10)
        class   == ReadName(w, menu.next)
        caption == ReadName(w, class.next)
        font    == w[1] >= SETFONT
        face    == TextAt(w, caption.next + 1)
    IN  [style |-> w[1], geometry |-> SubSeq(w, 6, 9), menu |-> menu.name, class |-> class.name,
         caption |-> caption.name, points |-> IF font THEN w[caption.next] ELSE 0,
         face |-> IF font THEN face.text ELSE <<>>,
         items |-> FoldLeft(LAMBDA st, i : ReadItem(st, w),
                            [p |-> IF font THEN face.next ELSE caption.next, items |-> <<>>],
                            [i \in 1 .. w[5] |-> i]).items]

-----------------------------------------------------------------------------
(* A template is loaded whole, or cut off after some of its bytes. *)
TemplatesInit ==
    /\ \/ \E menu \in Menus : template = [kind |-> "menu", of |-> menu, bytes |-> MenuBytes(menu)]
       \/ \E d \in Dialogs : \E n \in 0 .. Len(DialogBytes(d)) :
              template = [kind |-> "dialog", of |-> d, bytes |-> SubSeq(DialogBytes(d), 1, n)]
    /\ made = [kind |-> "nothing"]

MenuLoad ==
    /\ template.kind = "menu" /\ made.kind = "nothing"
    /\ made' = [kind |-> "menu", items |-> MenuWalk(template.bytes).items]
    /\ UNCHANGED template

TemplateFor ==
    /\ template.kind = "dialog" /\ made.kind = "nothing"
    /\ made' = LET c == Converted(template.bytes)
               IN  [kind |-> "dialog", refused |-> c.bad, words |-> c.out]
    /\ UNCHANGED template

TemplatesNext == MenuLoad \/ TemplateFor

(* The dialog the guest's compiler described, in the host's units. *)
Widened(d) ==
    LET ratio == IF d.style >= SETFONT THEN Ratio(d.points, d.face) ELSE <<1, 1>>
        wide(g) == [i \in 1 .. 4 |-> IF i \in {1, 3} THEN MulDiv(g[i], ratio[1], ratio[2]) ELSE g[i]]
        shown(e) == [e EXCEPT !.geometry = wide(@),
                              !.style = IF e.class = [ordinal |-> TRUE, value |-> LISTBOX]
                                        THEN @ + NOINTEGRALHEIGHT ELSE @]
    IN  [d EXCEPT !.geometry = wide(@), !.items = [i \in DOMAIN d.items |-> shown(d.items[i])]]

(* A menu comes out with the items it was written with, each under the popup it
   was written under, whatever ends where; and a dialog as the host reads its
   words is the one the guest's compiler described, with every item where
   alignment puts it, or is refused when bytes are missing. *)
TemplatesRight ==
    /\ made.kind = "menu" => made.items = template.of
    /\ made.kind = "dialog" =>
           IF Len(template.bytes) = Len(DialogBytes(template.of))
           THEN ~made.refused /\ ReadDialog(made.words) = Widened(template.of)
           ELSE template.of.items # <<>> => made.refused

=============================================================================
