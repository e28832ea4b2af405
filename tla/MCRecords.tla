------------------------------ MODULE MCRecords ------------------------------
(* What the emulator reads and writes in formats of its own or Windows', one  *)
(* part at a time: the packed executable, the loader, resources, menus and   *)
(* dialogs, a printer's pages, and the library's files in memory.  A         *)
(* behaviour is about one part, and the others keep a state in which they    *)
(* have not begun.                                                           *)
EXTENDS DosFiles, PackFile, Loader, Resources, Printing, TLC

VARIABLE part

Parts == {"pack", "loader", "resources", "templates", "printing", "dos"}
recordVars == <<vars, packVars, loaderVars, resVars, templateVars, printVars>>

---------------------------------------------------------------------------
(* Modules to pack *)

CostOf(p) == <<768, 768, 512, 362, 256, 173, 106, 49, 0>>[p + 1]
Stray == [k |-> "magic",
          info |-> [rawlen |-> 2, complen |-> 2, crc |-> <<>>, version |-> 0, delta |-> <<>>]]
ModuleTails == UNION {[1 .. n -> {1, 3, 0}] : n \in 0 .. 4}
MCModules == {<<2, 2, 1>> \o t : t \in ModuleTails}
MCEmulators == {<<>>, <<Byte(2), Byte(3), Stray, Byte(0)>>}

---------------------------------------------------------------------------
(* Modules to load: what the linker wrote for each reference, its bytes at   *)
(* the sites and its record, beside what it meant.                           *)

WithBytes(code, at, v) == [i \in DOMAIN code |-> IF i = at + 1 THEN v % BV ELSE IF i = at + 2 THEN v \div BV ELSE code[i]]
Chained(code, sites, last) ==
    FoldLeft(LAMBDA c, k : WithBytes(c, sites[k], IF k = Len(sites) THEN last ELSE sites[k + 1]),
             code, [k \in DOMAIN sites |-> k])
References == {[kind |-> "internal", t1 |-> 2, t2 |-> 5, to |-> "segment", of |-> 2, off |-> 5],
               [kind |-> "internal", t1 |-> MOVEABLE, t2 |-> 3, to |-> "segment", of |-> 1, off |-> 11],
               [kind |-> "internal", t1 |-> MOVEABLE, t2 |-> 4, to |-> "number", of |-> 0, off |-> 9],
               [kind |-> "ordinal", t1 |-> 1, t2 |-> 7, to |-> "import", of |-> <<1, 7>>, off |-> 0]}
Filler == <<7, 7, 7, 7, 7, 7, 7, 7, 7, 7, 7, 7, 7, 7, 7, 7, 7, 7, 7, 7>>
PrologBytes == {<<PushDs, PopAx, NOP>>, <<7, 7, 7>>, <<PushDs, PopAx, 7>>}
MovProlog == <<MovAxDs, Ds, NOP>>
Code(prolog) == prolog \o SubSeq(Filler, 4, 20)
Orders == {<<4>>, <<4, 12>>, <<12, 4>>, <<8, 4, 16>>}
Record(r, atype, additive, off) ==
    [kind |-> r.kind, t1 |-> r.t1, t2 |-> r.t2, atype |-> atype, additive |-> additive, off |-> off]
Atypes == {"lobyte", "offset", "selector", "far"}
Program(code, prolog, relocs, meant, flags, multiple, extra) ==
    [segs |-> <<[code |-> TRUE, bytes |-> code, minalloc |-> 0, iterated |-> FALSE, runs |-> <<>>, relocs |-> relocs],
                [code |-> FALSE, bytes |-> <<1, 2, 3>>, minalloc |-> 8, iterated |-> TRUE,
                 runs |-> <<[rep |-> 2, bytes |-> <<3, 4>>], [rep |-> 3, bytes |-> <<5, 6, 1>>]>>,
                 relocs |-> <<>>]>>,
     autodata |-> 2, extra |-> extra, multiple |-> multiple, meant |-> meant,
     entries |-> <<[type |-> 0, count |-> 1, list |-> <<>>],
                   [type |-> 1, count |-> 1, list |-> <<[seg |-> 1, off |-> 0, flags |-> flags]>>],
                   [type |-> MOVEABLE, count |-> 1, list |-> <<[seg |-> 1, off |-> 11, flags |-> {}]>>],
                   [type |-> ABSOLUTE, count |-> 1, list |-> <<[seg |-> ABSOLUTE, off |-> 9, flags |-> {}]>>]>>]
ChainPrograms ==
    {Program(Chained(Code(<<7, 7, 7>>), sites, CASE end = "end" -> END [] end = "self" -> Last(sites) [] end = "past" -> 40),
             <<>>, <<[Record(r, at, FALSE, 0) EXCEPT !.kind = "osfixup"], Record(r, at, FALSE, sites[1])>>,
             {[seg |-> 1, at |-> s, atype |-> at, addend |-> 0, to |-> r.to, of |-> r.of, off |-> r.off] : s \in Range(sites)},
             {}, FALSE, 60) :
        sites \in Orders, at \in Atypes, r \in References, end \in {"end", "self", "past"}}
AdditivePrograms ==
    {Program(WithBytes(Code(<<7, 7, 7>>), 4, a), <<>>, <<Record(r, at, TRUE, 4)>>,
             {[seg |-> 1, at |-> 4, atype |-> at, addend |-> a, to |-> r.to, of |-> r.of, off |-> r.off]}, {}, FALSE, 4) :
        at \in Atypes, r \in References, a \in {0, 3}}
PrologPrograms(bytes) ==
    {Program(Code(b), b, <<>>, {}, flags, multiple, 4) : b \in bytes, flags \in SUBSET {"shared", "exported"}, multiple \in BOOLEAN}
MCPrograms == {p \in ChainPrograms \cup AdditivePrograms \cup PrologPrograms(PrologBytes \cup {MovProlog}) :
    \A s \in p.meant : s.atype = "selector" => s.addend = 0}
MCImports == (<<1, 7>> :> [sel |-> 30, off |-> 20])
GoodPrologs == {p \in MCPrograms : p.segs[1].bytes[1] # MovAxDs}

---------------------------------------------------------------------------
(* Resources *)

Entry(type, name, string, inside) ==
    [type |-> type, name |-> name, string |-> string, inside |-> inside]
MCTable == <<Entry("bitmap", <<"ordinal", 1>>, "", TRUE), Entry("bitmap", <<"at", 1>>, "Logo", TRUE),
             Entry("menu", <<"at", 1>>, "Logo", TRUE), Entry("menu", <<"ordinal", 1>>, "", FALSE)>>
MCAsked == {[by |-> "number", value |-> 1], [by |-> "hash", value |-> 1],
            [by |-> "string", value |-> "Logo"], [by |-> "string", value |-> "Gone"]}

---------------------------------------------------------------------------
(* Menus and dialogs *)

Spelled(letters) == [ordinal |-> FALSE, letters |-> letters]
Numbered(n) == [ordinal |-> TRUE, value |-> n]
Leaf(text, id) == [popup |-> FALSE, flags |-> 0, id |-> id, text |-> text]
Popup(flags, text, items) == [popup |-> TRUE, flags |-> flags, text |-> text, items |-> items]
Leaves == {Leaf(<<>>, 0), [Leaf(<<65, 66>>, 300) EXCEPT !.flags = 8]}
Lists(S) == {<<a>> : a \in S} \cup (S \X S)
Popups == {Popup(0, <<70>>, items) : items \in Lists(Leaves)}
MCMenus ==
    Lists(Leaves \cup Popups)
    \cup {<<Popup(1, <<71>>, <<p, q>>), leaf>> :
             p \in Popups, q \in Leaves \cup {Popup(0, <<72>>, <<Leaf(<<65>>, 2)>>)}, leaf \in Leaves}

Controls ==
    [style : {2}, geometry : {<<10, 20, 31, 40>>}, id : {500},
     class : {Numbered(131), Numbered(128), Spelled(<<67>>)},
     text : {Spelled(<<65>>), Numbered(7)}, extra : {<<>>, <<9>>, <<9, 8>>}]
FirstControls == {i \in Controls : i.text # Numbered(7) /\ i.class = Spelled(<<67>>)}
LastControls == {i \in Controls : i.extra = <<>>}
\* Only a dialog with a font of its own (style 64) names one.
Dialog(style, menu, caption, face, items) ==
    [style |-> style, geometry |-> <<5, 6, 7, 8>>, menu |-> menu, class |-> Spelled(<<>>),
     caption |-> caption, points |-> IF style >= 64 THEN 8 ELSE 0,
     face |-> IF style >= 64 THEN face ELSE <<>>, items |-> items]
MCDialogs ==
    {Dialog(s, m, Spelled(c), f, items) :
        s \in {3, 67}, m \in {Spelled(<<>>), Numbered(7)}, c \in {<<65>>, <<65, 66>>},
        f \in {<<77>>, <<77, 78>>},
        items \in {<<>>} \cup {<<a>> : a \in Controls} \cup (FirstControls \X LastControls)}
MCRatio(points, face) == IF face = <<77>> THEN <<7, 6>> ELSE <<1, 1>>

---------------------------------------------------------------------------
(* Files in memory: a name that is a file or a directory, a path through it   *)
(* that names the caller's file while it is none, and an arena of a few bytes. *)

MCPaths == {<<"B">>, <<"B", "G">>}
MCDirPaths == {<<"B">>}
MCStrings == {<<1>>}
MCInputs ==
  LET whole == [name |-> <<"C", "G">>, at |-> 1, len |-> 1]
  IN  {<< >>, << whole >>, << [whole EXCEPT !.len = 0], whole >>}
MCCallerMem == <<1>>
MCOffs == {-1, 1}

\* Files that differ only in what the last call answered are one state: every
\* step out of them is the same, and each is checked with its own answer.
MCView == <<part, fs, fds, over, packVars, loaderVars, resVars, templateVars,
            printVars>>

---------------------------------------------------------------------------
DosIdle == /\ fs = Reset(Memory) /\ fds = [fd \in 1 .. NFiles |-> NoFd] /\ over = FALSE
           /\ ret = Answer("end", 0, <<>>)
PackIdle == /\ raw = 0 /\ depthOf = 0 /\ work = 0 /\ toks = 0 /\ best = 0 /\ probs = 0
            /\ rounds = 0 /\ image = 0 /\ opened = 0 /\ phase = "read"
LoaderIdle == /\ program = 0 /\ sels = 0 /\ sizes = 0 /\ mem = 0
              /\ stage = "unread" /\ next = 0 /\ errors = 0 /\ reloads = 0

MCInit ==
    /\ part \in Parts
    /\ IF part = "dos" THEN Init ELSE DosIdle
    /\ IF part = "pack" THEN PackInit ELSE PackIdle
    /\ IF part = "loader" THEN LoaderInit /\ program \in GoodPrologs ELSE LoaderIdle
    /\ ResourcesInit /\ PrintInit
    /\ IF part = "templates" THEN TemplatesInit ELSE template = 0 /\ made = [kind |-> "nothing"]

Only(p) ==
    /\ part = p /\ UNCHANGED part
    /\ p # "dos" => UNCHANGED vars
    /\ p # "pack" => UNCHANGED packVars
    /\ p # "loader" => UNCHANGED loaderVars
    /\ p # "resources" => UNCHANGED resVars
    /\ p # "templates" => UNCHANGED templateVars
    /\ p # "printing" => UNCHANGED printVars

MCNext ==
    \/ Only("dos") /\ Next
    \/ Only("pack") /\ PackNext
    \/ Only("loader") /\ LoaderNext
    \/ Only("resources") /\ ResourcesNext
    \/ Only("templates") /\ TemplatesNext
    \/ Only("printing") /\ PrintNext

MCSpec == MCInit /\ [][MCNext]_<<part, recordVars>>

---------------------------------------------------------------------------
(* The loader alone, over every prolog. *)

PrologInit ==
    /\ part = "loader" /\ DosIdle /\ PackIdle /\ LoaderInit /\ ResourcesInit /\ PrintInit
    /\ template = 0 /\ made = [kind |-> "nothing"]
PrologSpec == PrologInit /\ [][MCNext]_<<part, recordVars>>

=============================================================================
