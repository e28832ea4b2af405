------------------------------- MODULE Mixer --------------------------------
(***************************************************************************)
(* The sound effects (audio.c): a session, channels that each have an       *)
(* output device of the host's and a few buffers queued on it, and waves    *)
(* whose samples lie in the guest's memory, where the device reads them     *)
(* while the guest goes on running.  The host never calls back: it marks a  *)
(* buffer done, some time, and the mixer finds the mark when it next looks. *)
(*                                                                          *)
(* Loops, volumes and what a wave sounds like are left out; of a wave's     *)
(* format only whether two are the same.                                    *)
(***************************************************************************)
EXTENDS Naturals, FiniteSets, FiniteSetsExt

CONSTANTS NCHAN,           \* channels: 16
          NHDR,            \* buffers queued on one: 4
          NWAVE,           \* waves open at once: 16
          Resources,       \* the sounds in the module's resources
          Format,          \* the format each is in
          Pointers,        \* far pointers to blocks of the guest's memory
          MaxPlays         \* BOUND: plays that are begun in one session

NoFormat == "none"         \* no device is open

ASSUME MixerConstants ==
    /\ {NCHAN, NHDR, NWAVE} \subseteq Nat \ {0}
    /\ MaxPlays \in Nat
    /\ \A r \in Resources : Format[r] # NoFormat

VARIABLES up,              \* a session exists
          suspended, nodevice,
          ch,              \* the channels
          wave,            \* the waves that are open
          seq              \* plays begun

mixVars == <<up, suspended, nodevice, ch, wave, seq>>

Channels == 1 .. NCHAN
Headers == 1 .. NHDR
Slots == 1 .. NWAVE

NoWave == [used |-> FALSE]

\* A header that is not in flight, and one that is: the samples it plays, and
\* whether the host has marked it done.
Idle == [busy |-> FALSE]
Playing(p) == [busy |-> TRUE, data |-> p, done |-> FALSE]

Closed == [open |-> FALSE, dev |-> NoFormat, hdr |-> [h \in Headers |-> Idle],
           inflight |-> 0, seq |-> 0]

HasDevice(c) == c.dev # NoFormat
Busy(c) == {h \in Headers : c.hdr[h].busy}
Done(c) == {h \in Busy(c) : c.hdr[h].done}

\* chan_service: the buffers the host has marked are reclaimed.
Serviced(c) ==
    IF ~HasDevice(c) \/ c.inflight = 0 THEN c
    ELSE [c EXCEPT !.hdr = [h \in Headers |-> IF h \in Done(c) THEN Idle ELSE c.hdr[h]],
                   !.inflight = @ - Cardinality(Done(c))]

\* chan_reset: the host marks all of them, and then they are reclaimed.
Reset(c) ==
    IF ~HasDevice(c) THEN c
    ELSE Serviced([c EXCEPT !.hdr = [h \in Headers |->
             IF c.hdr[h].busy THEN [c.hdr[h] EXCEPT !.done = TRUE] ELSE Idle]])

\* chan_close.
Shut(c) == IF ~HasDevice(c) THEN c
           ELSE [Reset(c) EXCEPT !.dev = NoFormat, !.inflight = 0,
                                 !.hdr = [h \in Headers |-> Idle]]

\* chan_device's first look.
MayOpen == ~nodevice /\ ~suspended

\* chan_device: the channel with a device in format f, and whether there is
\* one.  The host may refuse to open it.
WithDevice(c, f) ==
    IF ~MayOpen THEN {[c |-> c, ok |-> FALSE, asked |-> FALSE]}
    ELSE IF c.dev = f THEN {[c |-> c, ok |-> TRUE, asked |-> FALSE]}
    ELSE {[c |-> [Shut(c) EXCEPT !.dev = f], ok |-> TRUE, asked |-> TRUE],
          [c |-> Shut(c), ok |-> FALSE, asked |-> TRUE]}

\* A mistake it could have made: the channel that was begun first, idle or not.
PickOldest(cs) ==
    LET open == {i \in Channels : cs[i].open}
    IN  {i \in open : \A j \in open : cs[i].seq <= cs[j].seq}

\* chan_pick: an idle channel, the first of them, or the one begun longest ago.
Pick(cs) ==
    LET open == {i \in Channels : cs[i].open}
        idle == {i \in open : cs[i].inflight = 0}
        oldest == {i \in open : \A j \in open : cs[i].seq <= cs[j].seq}
    IN  IF idle # {} THEN {Min(idle)} ELSE IF open = {} THEN {} ELSE {Min(oldest)}

\* chan_play, on a channel whose device has been seen to: the wave goes on the
\* first header that is free, unless the host refuses it.
Queued(c, w) ==
    LET s == Serviced(c)
        free == Headers \ Busy(s)
    IN  IF free = {} THEN {s}
        ELSE {s, [s EXCEPT !.hdr[Min(free)] = Playing(w.ptr),
                           !.inflight = @ + 1, !.seq = seq + 1]}

-----------------------------------------------------------------------------
(* The guest's calls.  Each begins, or nearly, with a look for buffers that *)
(* are done.                                                                *)

AllServiced == [i \in Channels |-> Serviced(ch[i])]

\* wm_ConfigureInit: a session there is already is left alone.
ConfigureInit ==
    /\ ~up
    /\ up' = TRUE /\ suspended' = FALSE /\ nodevice' = FALSE
    /\ ch' = [i \in Channels |-> Closed]
    /\ wave' = [s \in Slots |-> NoWave]
    /\ seq' = 0

\* wm_OpenChannel, which does not ask for a session.
OpenChannel(i) ==
    /\ ch' = [j \in Channels |-> Serviced([ch[j] EXCEPT !.open = @ \/ j = i])]
    /\ UNCHANGED <<up, suspended, nodevice, wave, seq>>

Opened == {s \in Slots : wave[s].used}
Find(p) == {s \in Opened : wave[s].ptr = p}

\* wm_OpenWave: the same wave for the same resource; else its samples go into
\* a block of their own, if there is one and a slot for it.
OpenWave(r) ==
    /\ up
    /\ \A s \in Opened : wave[s].id # r
    /\ Opened # Slots
    /\ \E p \in Pointers \ {wave[s].ptr : s \in Opened} :
         wave' = [wave EXCEPT ![Min(Slots \ Opened)] =
                     [used |-> TRUE, ptr |-> p, fmt |-> Format[r], id |-> r]]
    /\ UNCHANGED <<up, suspended, nodevice, ch, seq>>

\* wm_Play, on channel i.
PlayOn(cs, i, w, clear) ==
    \E d \in WithDevice(IF clear THEN Reset(cs[i]) ELSE cs[i], w.fmt) :
      LET others == {j \in Channels \ {i} : HasDevice(cs[j])}
      IN  /\ nodevice' = (nodevice \/ (d.asked /\ ~d.ok /\ others = {}))
          /\ \/ /\ ~d.ok
                /\ ch' = [cs EXCEPT ![i] = d.c]
                /\ UNCHANGED seq
             \/ /\ d.ok
                /\ \E c \in Queued(d.c, w) :
                      /\ ch' = [cs EXCEPT ![i] = c]
                      /\ seq' = IF c.seq = seq + 1 THEN seq + 1 ELSE seq

Play(p, clear, where) ==
    /\ up /\ seq < MaxPlays
    /\ \E s \in Find(p), i \in where : PlayOn(AllServiced, i, wave[s], clear)
    /\ UNCHANGED <<up, suspended, wave>>

PlayAnywhere(p, clear) == Play(p, clear, Pick(AllServiced))
PlayThere(p, clear, i) == Play(p, clear, {j \in {i} : ch[j].open})

\* wm_Pump, and what else only looks: a play that is refused at the door.
Pump == /\ ch' = AllServiced
        /\ UNCHANGED <<up, suspended, nodevice, wave, seq>>

\* wm_FlushChannel.
Flush(S) == /\ ch' = [i \in Channels |-> IF i \in S THEN Reset(ch[i]) ELSE ch[i]]
            /\ UNCHANGED <<up, suspended, nodevice, wave, seq>>

\* wm_CloseChannel.
CloseChannel(S) ==
    /\ ch' = [i \in Channels |-> IF i \in S THEN [Shut(ch[i]) EXCEPT !.open = FALSE]
                                            ELSE ch[i]]
    /\ UNCHANGED <<up, suspended, nodevice, wave, seq>>

\* wave_free stops every channel before the samples go.
Stopped(cs) == [i \in Channels |-> Reset(cs[i])]

\* wm_FreeWave; a pointer nobody knows is refused.
FreeWave(p) ==
    /\ \E s \in Find(p) : wave' = [wave EXCEPT ![s] = NoWave]
    /\ ch' = Stopped(ch)
    /\ UNCHANGED <<up, suspended, nodevice, seq>>

\* wm_Activate.
Activate(on) ==
    /\ suspended = on
    /\ suspended' = ~on
    /\ ch' = IF on THEN ch ELSE [i \in Channels |-> Shut(ch[i])]
    /\ UNCHANGED <<up, nodevice, wave, seq>>

\* audio_shutdown: wm_CloseSession, and main on the way out.
CloseSession ==
    /\ ch' = [i \in Channels |-> [Shut(ch[i]) EXCEPT !.open = FALSE]]
    /\ wave' = [s \in Slots |-> NoWave]
    /\ up' = FALSE /\ suspended' = FALSE
    /\ UNCHANGED <<nodevice, seq>>

\* The host comes to the end of a buffer.
HostDone(i, h) ==
    /\ h \in Busy(ch[i]) \ Done(ch[i])
    /\ ch' = [ch EXCEPT ![i].hdr[h].done = TRUE]
    /\ UNCHANGED <<up, suspended, nodevice, wave, seq>>

MixInit ==
    /\ up = FALSE /\ suspended = FALSE /\ nodevice = FALSE
    /\ ch = [i \in Channels |-> Closed]
    /\ wave = [s \in Slots |-> NoWave]
    /\ seq = 0

MixStep ==
    \/ ConfigureInit \/ Pump \/ CloseSession
    \/ \E r \in Resources : OpenWave(r)
    \/ \E p \in Pointers, clear \in BOOLEAN :
         PlayAnywhere(p, clear) \/ \E i \in Channels : PlayThere(p, clear, i)
    \/ \E p \in Pointers : FreeWave(p)
    \/ \E i \in Channels : OpenChannel(i) \/ Flush({i}) \/ CloseChannel({i})
    \/ Flush(Channels) \/ CloseChannel(Channels)
    \/ \E on \in BOOLEAN : Activate(on)
    \/ \E i \in Channels, h \in Headers : HostDone(i, h)

-----------------------------------------------------------------------------
\* Where the device may still be reading.
Read(c) == {c.hdr[h].data : h \in Busy(c) \ Done(c)}

\* audio.c:163: whatever the device still reads lies in a wave that is open,
\* through every order of plays, frees, closings and ends the mixer has not
\* looked for yet; and a channel's count of buffers, by which idle channels
\* are told, is the number there are.
SamplesStayPut ==
    \A i \in Channels :
      /\ Read(ch[i]) \subseteq {wave[s].ptr : s \in Opened}
      /\ ch[i].inflight = Cardinality(Busy(ch[i]))
      /\ Busy(ch[i]) # {} => HasDevice(ch[i])

\* wm_Activate and audio_shutdown give the device back, and nothing takes it
\* again before the mixer is active or there is a session: an effect the guest
\* plays late opens nothing.
DeviceGivenBack == suspended \/ nodevice \/ ~up => \A i \in Channels : ~HasDevice(ch[i])

\* The buffers a channel had in flight that are gone before their end.
Cut(i) == {h \in Busy(ch[i]) \ Done(ch[i]) : ch'[i].hdr[h] = Idle}

\* chan_pick: a sound the guest leaves to the mixer to place cuts none off
\* while there is an open channel with nothing to play; and when there is not,
\* only one in a format of its own.
PlayCutsNothing ==
    [][\A p \in Pointers : PlayAnywhere(p, FALSE) =>
         \A i \in Channels : Cut(i) # {} =>
           /\ \A j \in Channels : ch[j].open => Busy(ch[j]) # Done(ch[j])
           /\ \A s \in Find(p) : wave[s].fmt # ch[i].dev]_mixVars

\* The mixer as a whole: nothing plays from memory that is gone or on a device
\* that was given back, and no sound is cut off that could have been let be.
SoundsSound == []SamplesStayPut /\ []DeviceGivenBack /\ PlayCutsNothing

-----------------------------------------------------------------------------
(***************************************************************************)
(* The walk over the chunks of a sound (riff_parse, audio.c).  The resource *)
(* is given with its own length and with the length its header claims; what *)
(* stands where a chunk would begin is a kind and a length, any at all, for *)
(* the walk cannot know whether it reads a chunk or what is inside one.     *)
(*                                                                          *)
(* Lengths are in units of four bytes: a chunk's header is two of them, the *)
(* resource's three.  Two of the units stand for a word, so that a length   *)
(* may be odd.                                                              *)
(***************************************************************************)

CONSTANTS FmtLen,          \* what a format takes: 16 bytes
          MaxLen,          \* BOUND: the longest resource
          MaxClaim,        \* BOUND: the longest length a header claims
          Wrap             \* one more than the largest length: 2^32

ASSUME RiffConstants == FmtLen \in Nat /\ MaxLen \in Nat /\ MaxClaim \in Nat /\ Wrap > MaxLen + 3

VARIABLES len,             \* the resource's length
          end, at,         \* where the walk ends, and where it is
          fmtSeen,         \* a format was found, and what it takes was there
          data, datalen,   \* the samples, or 0
          walk             \* "walks", "refused" or "parsed"

riffVars == <<len, end, at, fmtSeen, data, datalen, walk>>

ChunkHead == 2
Chunk == [id : {"fmt", "data", "other"}, size : 0 .. MaxClaim]
Least(a, b) == IF a < b THEN a ELSE b

\* The end the resource's header claims, or the resource's own.
EndOf(size) == Least((size + ChunkHead) % Wrap, len)

\* What is there of the chunk the walk is at.
SizeAt(size) == Least(size, end - at - ChunkHead)

\* A mistake it could have made: the walk goes on by what the chunk holds.
NextPastContents(sz) == at + sz + (sz % 2)

\* Where the next chunk begins.
NextChunk(sz) == at + ChunkHead + sz + (sz % 2)

\* The walk comes to a place but once, so what it finds there may be chosen
\* when it comes.
Step ==
    /\ walk = "walks" /\ at + ChunkHead <= end
    /\ \E ck \in Chunk :
       LET sz == SizeAt(ck.size)
       IN  /\ fmtSeen' = (fmtSeen \/ (ck.id = "fmt" /\ sz >= FmtLen))
           /\ IF ck.id = "data" THEN data' = at + ChunkHead /\ datalen' = sz
                                ELSE UNCHANGED <<data, datalen>>
           /\ at' = NextChunk(sz)
    /\ UNCHANGED <<len, end, walk>>

Finish ==
    /\ walk = "walks" /\ at + ChunkHead > end
    /\ walk' = IF fmtSeen /\ datalen # 0 THEN "parsed" ELSE "refused"
    /\ UNCHANGED <<len, end, at, fmtSeen, data, datalen>>

RiffAny ==
    /\ len \in 3 .. MaxLen
    /\ \E size \in 0 .. MaxClaim : end = EndOf(size)
    /\ at = 3 /\ fmtSeen = FALSE /\ data = 0 /\ datalen = 0
    /\ walk = "walks"

RiffStep == Step \/ Finish
RiffRuns == WF_riffVars(RiffStep)

\* What the walk takes for samples, and every header it reads, is inside the
\* resource, whatever lengths the chunks and the header claim (a resource is
\* padded, and the lengths are data).
SamplesInside ==
    /\ walk = "parsed" => data + datalen <= len
    /\ walk = "walks" /\ at + ChunkHead <= end => at + ChunkHead <= len

\* The walk comes to an end, over chunks of no length too.
WalkEnds == walk = "walks" ~> walk # "walks"

\* The walk as a whole: it stays inside the resource and comes to its end.
WalkSound == []SamplesInside /\ WalkEnds

=============================================================================
