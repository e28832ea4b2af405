------------------------------ MODULE Printing ------------------------------
(* api_gdi.c: the drawing calls of the guest, and the documents it prints
   through Escape, which ejects pages, on a host that opens and closes them.
   A device context is known to the guest by its handle and to the emulator
   by the host's context, which is used again once it has been deleted. *)
EXTENDS Naturals, FiniteSets, Sequences, SequencesExt

CONSTANTS
    Handles, Contexts,  \* guest handles and host contexts
    MostDrawn,          \* bounds on the drawings and on the
    MostDocs            \* documents that are ended

NoDC == "none"

ASSUME PrintingAssumption == MostDrawn \in Nat /\ MostDocs \in Nat /\ NoDC \notin Contexts

VARIABLES dc,       \* dc[h]: the host's context behind a handle, or NoDC
          esc_doc,  \* the context with a document open
          esc_page, \* and whether a page is open on it
          printer,  \* printer[c]: the host's document on a context
          finished, \* the documents that were ended, as the host printed them
          asked,    \* asked[c]: what the guest has drawn since the last eject, and before
          printed,  \* the documents the guest meant
          drawn

printVars == <<dc, esc_doc, esc_page, printer, finished, asked, printed, drawn>>

(* The host: StartPage needs a document without an open page, EndPage an open
   one; what is drawn outside a page of the document is lost. *)
NoDoc == [open |-> FALSE, page |-> FALSE, pages |-> <<>>]
StartPage(d) == IF d.open /\ ~d.page THEN [d EXCEPT !.page = TRUE, !.pages = Append(@, <<>>)] ELSE d
EndPage(d) == [d EXCEPT !.page = FALSE]
DrawOn(d, x) == IF d.page THEN [d EXCEPT !.pages[Len(d.pages)] = Append(@, x)] ELSE d

NoPages == <<>>
LiveDC(h) == dc[h] # NoDC

PrintInit ==
    /\ dc = [h \in Handles |-> NoDC] /\ esc_doc = NoDC /\ esc_page = FALSE
    /\ printer = [c \in Contexts |-> NoDoc] /\ finished = <<>>
    /\ asked = [c \in Contexts |-> [page |-> <<>>, pages |-> NoPages]]
    /\ printed = <<>> /\ drawn = 0

(* g_CreateCompatibleDC and its like: a context that is free behind a handle
   that is. *)
CreateDC(h) ==
    /\ ~LiveDC(h)
    /\ \E c \in Contexts \ {dc[x] : x \in Handles} : dc' = [dc EXCEPT ![h] = c]
    /\ UNCHANGED <<esc_doc, esc_page, printer, finished, asked, printed, drawn>>

(* gdc: the first call that names the printing context opens its page, on a
   host that does not refuse it. *)
Opens(c) == c = esc_doc /\ ~esc_page
Gdc(c) == [page    |-> esc_page \/ Opens(c),
           printer |-> IF Opens(c) THEN StartPage(printer[c]) ELSE printer[c]]

(* A call that draws, or only measures: both take the context through gdc, so a
   page measured on and never drawn on is printed, and comes out blank. *)
Draw(h) ==
    /\ LiveDC(h) /\ drawn < MostDrawn /\ drawn' = drawn + 1
    /\ LET c == dc[h]
       IN  /\ esc_page' = Gdc(c).page
           /\ printer' = [printer EXCEPT ![c] = DrawOn(Gdc(c).printer, drawn)]
           /\ asked' = [asked EXCEPT ![c].page =
                           IF printer[c].open THEN Append(@, drawn) ELSE @]
    /\ UNCHANGED <<dc, esc_doc, finished, printed>>

(* What the guest means by an eject: the page so far, unless it is blank. *)
Ejected(a) == IF a.page = <<>> THEN a ELSE [page |-> <<>>, pages |-> Append(a.pages, a.page)]

PageBreak(c) ==
    /\ printer' = IF esc_page THEN [printer EXCEPT ![c] = EndPage(@)] ELSE printer
    /\ esc_page' = FALSE
    /\ asked' = [asked EXCEPT ![c] = Ejected(@)]

(* STARTDOC again on the same context, and NEWFRAME. *)
NextPage(h) ==
    /\ LiveDC(h) /\ dc[h] = esc_doc /\ PageBreak(dc[h])
    /\ UNCHANGED <<dc, esc_doc, finished, printed, drawn>>

(* STARTDOC.  The guest prints one document at a time. *)
StartDoc(h) ==
    /\ LiveDC(h) /\ dc[h] # esc_doc /\ esc_doc = NoDC /\ Len(finished) < MostDocs
    /\ ~printer[dc[h]].open
    /\ printer' = [printer EXCEPT ![dc[h]] = [NoDoc EXCEPT !.open = TRUE]]
    /\ asked' = [asked EXCEPT ![dc[h]] = [page |-> <<>>, pages |-> NoPages]]
    /\ esc_doc' = dc[h] /\ esc_page' = FALSE
    /\ UNCHANGED <<dc, finished, printed, drawn>>

EndDoc(h) ==
    /\ LiveDC(h) /\ dc[h] = esc_doc
    /\ LET c == dc[h]
           d == IF esc_page THEN EndPage(printer[c]) ELSE printer[c]
       IN  /\ finished' = Append(finished, d.pages)
           /\ printed' = Append(printed, Ejected(asked[c]).pages)
           /\ printer' = [printer EXCEPT ![c] = NoDoc]
           /\ asked' = [asked EXCEPT ![c] = [page |-> <<>>, pages |-> NoPages]]
    /\ esc_page' = FALSE /\ esc_doc' = NoDC
    /\ UNCHANGED <<dc, drawn>>

AbortDoc(h) ==
    /\ LiveDC(h) /\ dc[h] = esc_doc
    /\ printer' = [printer EXCEPT ![dc[h]] = NoDoc]
    /\ asked' = [asked EXCEPT ![dc[h]] = [page |-> <<>>, pages |-> NoPages]]
    /\ esc_page' = FALSE /\ esc_doc' = NoDC
    /\ UNCHANGED <<dc, finished, printed, drawn>>

\* A mistake it could have made: only the handle is forgotten.
DeleteForgetting(h) ==
    /\ LiveDC(h)
    /\ printer' = [printer EXCEPT ![dc[h]] = NoDoc]
    /\ asked' = [asked EXCEPT ![dc[h]] = [page |-> <<>>, pages |-> NoPages]]
    /\ dc' = [dc EXCEPT ![h] = NoDC]
    /\ UNCHANGED <<esc_doc, esc_page, finished, printed, drawn>>

(* g_DeleteDC: the document goes with the context, on the host too. *)
DeleteDC(h) ==
    /\ LiveDC(h)
    /\ IF dc[h] = esc_doc THEN esc_doc' = NoDC /\ esc_page' = FALSE
       ELSE UNCHANGED <<esc_doc, esc_page>>
    /\ printer' = [printer EXCEPT ![dc[h]] = NoDoc]
    /\ asked' = [asked EXCEPT ![dc[h]] = [page |-> <<>>, pages |-> NoPages]]
    /\ dc' = [dc EXCEPT ![h] = NoDC]
    /\ UNCHANGED <<finished, printed, drawn>>

PrintNext ==
    \E h \in Handles :
        CreateDC(h) \/ Draw(h) \/ StartDoc(h) \/ NextPage(h) \/ EndDoc(h) \/ AbortDoc(h) \/ DeleteDC(h)
-----------------------------------------------------------------------------
(* Every document that was ended came out as the pages the guest drew between
   its ejects: nothing drawn is lost or lands on another page, and no page is
   without a call that named its context, whether the guest ejects the last one or not, and the emulator's
   idea of the open document and page is the host's. *)
PagesAsDrawn ==
    /\ finished = printed
    /\ \A c \in Contexts : /\ printer[c].open <=> esc_doc = c
                           /\ printer[c].page <=> esc_doc = c /\ esc_page
=============================================================================
