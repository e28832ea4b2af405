--------------------------- MODULE LibCallProofs ---------------------------
(***************************************************************************)
(* The safety properties of LibCall, for any number of threads and arenas  *)
(* and any sizes.  The invariant that carries them says what the flag, the *)
(* one run and the arenas have to do with the thread that is inside:       *)
(*                                                                         *)
(*   Alone        it has the flag and is alone there                       *)
(*   EntryIsBeg   its arena's beg is still what it was when it was let in  *)
(*   RunIsMine    the run lies in what was free of its arena, and its log, *)
(*                if there is one, is the first of it                      *)
(*   GuestInRun   only it may have the guest's floating point, and the run *)
(*                says so                                                  *)
(***************************************************************************)
EXTENDS LibCall, TLAPS

Held == {"let in", "leaving"} \cup Working
HasRun == Working \cup {"leaving", "left"}

Ranges == [arena : Arenas, lo : Nat, hi : Nat]

Typed ==
  /\ pc \in [Threads -> {"idle", "called"} \cup Inside]
  /\ rc \in [Threads -> Errors \cup {"OK", "EBUSY"}]
  /\ arena \in [Threads -> Arenas] /\ logs \in [Threads -> BOOLEAN] /\ busy \in BOOLEAN
  /\ run \in [beg : Nat, end : Nat, log : Nat, loglen : 0 .. LOG_CAP, fpu : BOOLEAN]
  /\ run.beg <= run.end
  /\ beg \in [Arenas -> Nat]
  /\ \A a \in Arenas : beg[a] \in Start[a] .. End[a]
  /\ fpu \in [Threads -> {"host", "guest"}]
  /\ handed \in SUBSET Ranges
  /\ entry \in Nat

Alone ==
  \A t \in Threads : pc[t] \in Inside =>
    busy /\ \A u \in Threads \ {t} : pc[u] \notin Inside

EntryIsBeg == \A t \in Threads : pc[t] \in Held => entry = beg[arena[t]]

RunIsMine ==
  \A t \in Threads : pc[t] \in HasRun =>
    /\ Start[arena[t]] <= entry /\ entry <= run.beg /\ run.end <= End[arena[t]]
    /\ \/ run.log = 0 /\ run.loglen = 0
       \/ run.log = entry /\ logs[t] /\ entry + LOG_CAP <= run.beg

GuestInRun ==
  \A t \in Threads : fpu[t] # "host" => run.fpu /\ pc[t] \in Working \cup {"leaving"}

HandedBelow == \A r \in handed : Start[r.arena] <= r.lo /\ r.hi <= beg[r.arena]

HandedApart ==
  \A r, s \in handed : r # s /\ r.arena = s.arena => r.hi <= s.lo \/ s.hi <= r.lo

IInv ==
  /\ Typed /\ Alone /\ EntryIsBeg /\ RunIsMine /\ GuestInRun
  /\ HandedBelow /\ HandedApart

-----------------------------------------------------------------------------
LEMMA Bounds ==
  /\ \A a \in Arenas : Start[a] \in Nat /\ End[a] \in Nat /\ 1 <= Start[a] /\ Start[a] <= End[a]
  /\ LOG_CAP \in Nat /\ GuestSize \in Nat
  /\ \A n \in Sizes : n \in Nat
<1>1. Start \in [Arenas -> Nat \ {0}] /\ End \in [Arenas -> Nat]
  BY LibConstants
<1>2. \A a \in Arenas : Start[a] \in Nat \ {0} /\ End[a] \in Nat
  BY <1>1
<1>3. LOG_CAP \in Nat /\ GuestSize \in Nat /\ Sizes \subseteq Nat \ {0}
  BY LibConstants, Zenon
<1>. QED
  BY <1>2, <1>3, LibConstants

LEMMA InitIInv == ASSUME Init PROVE IInv
<1>1. Typed
  <2>1. \A a \in Arenas : Start[a] \in Nat /\ Start[a] \in Start[a] .. End[a]
    BY Bounds
  <2>2. Start \in [Arenas -> Nat]
    BY <2>1, LibConstants
  <2>3. NoRun \in [beg : Nat, end : Nat, log : Nat, loglen : 0 .. LOG_CAP, fpu : BOOLEAN]
        /\ NoRun.beg <= NoRun.end
    BY Bounds DEF NoRun
  <2>. QED
    BY <2>1, <2>2, <2>3 DEF Init, Typed
<1>2. Alone /\ EntryIsBeg /\ RunIsMine
  BY DEF Init, Alone, EntryIsBeg, RunIsMine, Inside, Working, Held, HasRun
<1>3. GuestInRun
  BY DEF Init, GuestInRun
<1>4. HandedBelow /\ HandedApart
  BY DEF Init, HandedBelow, HandedApart
<1>. QED
  BY <1>1, <1>2, <1>3, <1>4 DEF IInv

\* A thread that is inside stays inside or comes out of it, and no other moves.
LEMMA StillAlone ==
  ASSUME IInv, NEW t \in Threads, pc[t] \in Inside, NEW where,
         pc' = [pc EXCEPT ![t] = where],
         where \in Inside => busy'
  PROVE  Alone'
BY DEF IInv, Typed, Alone

\* The others are none of them inside, so what holds of a thread inside need
\* be looked at for one only.
LEMMA OthersOut ==
  ASSUME IInv, NEW t \in Threads, pc[t] \in Inside, NEW where,
         pc' = [pc EXCEPT ![t] = where],
         NEW u \in Threads, u # t
  PROVE  pc'[u] \notin Inside /\ pc'[u] = pc[u]
BY DEF IInv, Typed, Alone

LEMMA HandedKept ==
  ASSUME IInv, UNCHANGED <<beg, handed>>
  PROVE  HandedBelow' /\ HandedApart'
BY DEF IInv, HandedBelow, HandedApart

\* Any step of the work of a call: it takes memory from the front or the back,
\* says something, gives the floating point to the guest or takes it back, or
\* ends the call.
LEMMA WorkIInv ==
  ASSUME IInv, NEW t \in Threads, pc[t] \in Working,
         NEW where \in Working \cup {"leaving"}, pc' = [pc EXCEPT ![t] = where],
         NEW how \in Errors \cup {"OK", "EBUSY"}, rc' = [rc EXCEPT ![t] = how],
         NEW f \in {"host", "guest"}, fpu' = [fpu EXCEPT ![t] = f],
         f # "host" => run'.fpu,
         run' \in [beg : Nat, end : Nat, log : Nat, loglen : 0 .. LOG_CAP, fpu : BOOLEAN],
         run.beg <= run'.beg, run'.beg <= run'.end, run'.end <= run.end,
         run'.log = run.log, run'.loglen = run.loglen \/ run.log # 0,
         UNCHANGED <<arena, logs, busy, beg, handed, entry>>
  PROVE  IInv'
<1>1. pc[t] \in Inside /\ where \in Inside /\ pc'[t] = where
  BY DEF Inside, IInv, Typed
<1>2. Typed'
  BY <1>1 DEF IInv, Typed
<1>3. Alone'
  BY <1>1, StillAlone DEF IInv, Alone
<1>4. \A u \in Threads : u # t => pc'[u] \notin Inside
  BY <1>1, OthersOut
<1>5. EntryIsBeg'
  BY <1>1, <1>4 DEF IInv, EntryIsBeg, Held, Inside
<1>6. RunIsMine'
  <2>1. run.beg \in Nat /\ run.end \in Nat /\ run'.beg \in Nat /\ run'.end \in Nat /\ entry \in Nat
    BY DEF IInv, Typed
  <2>2. End[arena[t]] \in Nat /\ Start[arena[t]] \in Nat /\ LOG_CAP \in Nat
    BY Bounds DEF IInv, Typed
  <2>3. /\ Start[arena[t]] <= entry /\ entry <= run.beg /\ run.end <= End[arena[t]]
        /\ \/ run.log = 0 /\ run.loglen = 0
           \/ run.log = entry /\ logs[t] /\ entry + LOG_CAP <= run.beg
    BY DEF IInv, RunIsMine, HasRun
  <2>4. /\ Start[arena[t]] <= entry /\ entry <= run'.beg /\ run'.end <= End[arena[t]]
        /\ \/ run'.log = 0 /\ run'.loglen = 0
           \/ run'.log = entry /\ logs[t] /\ entry + LOG_CAP <= run'.beg
    BY <2>1, <2>2, <2>3
  <2>. QED
    BY <1>1, <1>4, <2>4 DEF RunIsMine, HasRun, Inside
<1>7. GuestInRun'
  <2>1. \A u \in Threads : u # t => fpu'[u] = "host"
    BY <1>1, <1>4, OthersOut DEF IInv, Typed, GuestInRun, Inside
  <2>. QED
    BY <1>1, <2>1 DEF IInv, Typed, GuestInRun
<1>8. HandedBelow' /\ HandedApart'
  BY HandedKept
<1>. QED
  BY <1>2, <1>3, <1>5, <1>6, <1>7, <1>8 DEF IInv

-----------------------------------------------------------------------------
\* One lemma for each action.

LEMMA CallIInv == ASSUME IInv, NEW t \in Threads, Call(t) PROVE IInv'
<1>1. /\ pc[t] = "idle" /\ pc' = [pc EXCEPT ![t] = "called"]
      /\ \E a \in Arenas : arena' = [arena EXCEPT ![t] = a]
      /\ \E wants \in BOOLEAN : logs' = [logs EXCEPT ![t] = wants]
      /\ UNCHANGED <<rc, busy, run, beg, fpu, handed, entry>>
  BY DEF Call, Goes
<1>2. /\ "idle" \notin Inside /\ "called" \notin Inside
      /\ Held \subseteq Inside /\ HasRun \subseteq Inside
      /\ Working \cup {"leaving"} \subseteq Inside
  BY DEF Inside, Working, Held, HasRun
<1>3. Typed'
  BY <1>1 DEF IInv, Typed
<1>4. Alone'
  BY <1>1, <1>2 DEF IInv, Typed, Alone
<1>5. \A u \in Threads : pc'[u] \in Inside =>
        u # t /\ pc'[u] = pc[u] /\ arena'[u] = arena[u] /\ logs'[u] = logs[u]
  BY <1>1, <1>2 DEF IInv, Typed
<1>6. EntryIsBeg'
  BY <1>1, <1>2, <1>5 DEF IInv, EntryIsBeg
<1>7. RunIsMine'
  BY <1>1, <1>2, <1>5 DEF IInv, RunIsMine
<1>8. GuestInRun'
  BY <1>1, <1>2 DEF IInv, Typed, GuestInRun
<1>9. HandedBelow' /\ HandedApart'
  BY <1>1, HandedKept
<1>. QED
  BY <1>3, <1>4, <1>6, <1>7, <1>8, <1>9 DEF IInv

LEMMA TestAndSetIInv == ASSUME IInv, NEW t \in Threads, TestAndSet(t) PROVE IInv'
<1>. USE DEF TestAndSet, Goes
<1>1. /\ "called" \notin Inside /\ "idle" \notin Inside /\ "let in" \in Inside
      /\ Held \subseteq Inside /\ HasRun \subseteq Inside /\ "let in" \notin HasRun
      /\ Working \cup {"leaving"} \subseteq Inside
  BY DEF Inside, Working, Held, HasRun
<1>2. Typed'
  <2>1. beg[arena[t]] \in Nat
    BY DEF IInv, Typed
  <2>2. pc' \in [Threads -> {"idle", "called"} \cup Inside]
    <3>1. pc' = [pc EXCEPT ![t] = "idle"] \/ pc' = [pc EXCEPT ![t] = "let in"]
      OBVIOUS
    <3>2. pc \in [Threads -> {"idle", "called"} \cup Inside]
      BY DEF IInv, Typed
    <3>. HIDE DEF TestAndSet
    <3>. QED
      BY <1>1, <3>1, <3>2
  <2>3. rc' \in [Threads -> Errors \cup {"OK", "EBUSY"}]
    <3>1. rc' = rc \/ rc' = [rc EXCEPT ![t] = "EBUSY"]
      OBVIOUS
    <3>2. rc \in [Threads -> Errors \cup {"OK", "EBUSY"}]
      BY DEF IInv, Typed
    <3>. HIDE DEF TestAndSet
    <3>. QED
      BY <3>1, <3>2
  <2>4. entry' \in Nat
    BY <2>1 DEF IInv, Typed
  <2>. QED
    BY <2>2, <2>3, <2>4 DEF IInv, Typed
<1>3. HandedBelow' /\ HandedApart'
  BY HandedKept
<1>4. CASE busy
  <2>1. \A u \in Threads : pc'[u] \in Inside => u # t /\ pc'[u] = pc[u]
    BY <1>1, <1>4 DEF IInv, Typed
  <2>2. Alone'
    BY <1>1, <1>4, <2>1 DEF IInv, Typed, Alone
  <2>3. EntryIsBeg' /\ RunIsMine'
    BY <1>1, <1>4, <2>1, ZenonT(60) DEF IInv, EntryIsBeg, RunIsMine
  <2>4. GuestInRun'
    BY <1>1, <1>4, ZenonT(60) DEF IInv, Typed, GuestInRun
  <2>. QED
    BY <1>2, <1>3, <2>2, <2>3, <2>4 DEF IInv
<1>5. CASE ~busy
  <2>1. \A u \in Threads : pc[u] \notin Inside
    BY <1>5 DEF IInv, Alone
  <2>2. /\ pc'[t] = "let in" /\ entry' = beg[arena[t]] /\ busy'
        /\ \A u \in Threads : u # t => pc'[u] \notin Inside
    BY <1>5, <2>1 DEF IInv, Typed
  <2>3. Alone'
    BY <2>2 DEF Alone
  <2>4. EntryIsBeg' /\ RunIsMine'
    BY <1>1, <2>2 DEF EntryIsBeg, RunIsMine
  <2>5. GuestInRun'
    BY <1>1, <2>1 DEF IInv, GuestInRun
  <2>. QED
    BY <1>2, <1>3, <2>3, <2>4, <2>5 DEF IInv
<1>. QED
  BY <1>4, <1>5

LEMMA SetUpIInv == ASSUME IInv, NEW t \in Threads, SetUp(t) PROVE IInv'
<1>. DEFINE b == beg[arena[t]]
            e == End[arena[t]]
            fits == logs[t] /\ e - b >= LOG_CAP
<1>1. /\ pc[t] = "let in" /\ pc' = [pc EXCEPT ![t] = "front"]
      /\ run' = [beg |-> IF fits THEN b + LOG_CAP ELSE b, end |-> e,
                 log |-> IF fits THEN b ELSE 0, loglen |-> 0, fpu |-> FALSE]
      /\ UNCHANGED <<rc, arena, logs, busy, beg, fpu, handed, entry>>
  BY DEF SetUp, Goes
<1>2. /\ "let in" \in Inside /\ "front" \in Inside /\ "front" \in HasRun
      /\ Held \subseteq Inside /\ HasRun \subseteq Inside /\ "front" \in Held
      /\ "let in" \in Held /\ "let in" \notin Working \cup {"leaving"}
      /\ Working \cup {"leaving"} \subseteq Inside
  BY DEF Inside, Working, Held, HasRun
<1>3. /\ b \in Nat /\ e \in Nat /\ LOG_CAP \in Nat /\ b = entry
      /\ Start[arena[t]] <= b /\ b <= e
  <2>1. arena[t] \in Arenas /\ beg[arena[t]] \in Start[arena[t]] .. End[arena[t]]
    BY DEF IInv, Typed
  <2>2. beg[arena[t]] = entry
    BY <1>1, <1>2 DEF IInv, EntryIsBeg
  <2>. QED
    BY <2>1, <2>2, Bounds
<1>4. /\ run'.beg = (IF fits THEN b + LOG_CAP ELSE b) /\ run'.end = e
      /\ run'.log = (IF fits THEN b ELSE 0) /\ run'.loglen = 0 /\ run'.fpu = FALSE
  BY <1>1
<1>5. /\ run' \in [beg : Nat, end : Nat, log : Nat, loglen : 0 .. LOG_CAP, fpu : BOOLEAN]
      /\ b <= run'.beg /\ run'.beg <= run'.end
  <2>1. CASE fits
    <3>1. b + LOG_CAP <= e /\ b + LOG_CAP \in Nat
      BY <2>1, <1>3
    <3>2. run' = [beg |-> b + LOG_CAP, end |-> e, log |-> b, loglen |-> 0, fpu |-> FALSE]
      BY <2>1, <1>1
    <3>. HIDE DEF b, e, fits
    <3>. QED
      BY <3>1, <3>2, <1>3
  <2>2. CASE ~fits
    <3>1. run' = [beg |-> b, end |-> e, log |-> 0, loglen |-> 0, fpu |-> FALSE]
      BY <2>2, <1>1
    <3>. HIDE DEF b, e, fits
    <3>. QED
      BY <3>1, <1>3
  <2>. QED
    BY <2>1, <2>2
<1>6. Typed'
  BY <1>1, <1>2, <1>5 DEF IInv, Typed
<1>7. Alone'
  BY <1>1, <1>2, StillAlone DEF IInv, Alone
<1>8. \A u \in Threads : u # t => pc'[u] \notin Inside
  BY <1>1, <1>2, OthersOut
<1>9. EntryIsBeg'
  BY <1>1, <1>2, <1>3, <1>8 DEF EntryIsBeg
<1>10. RunIsMine'
  <2>1. \/ run'.log = 0 /\ run'.loglen = 0
        \/ run'.log = entry /\ logs[t] /\ entry + LOG_CAP <= run'.beg
    <3>1. CASE fits
      BY <3>1, <1>3, <1>4
    <3>2. CASE ~fits
      BY <3>2, <1>4
    <3>. QED
      BY <3>1, <3>2
  <2>2. /\ Start[arena[t]] <= entry /\ entry <= run'.beg /\ run'.end <= End[arena[t]]
    BY <1>3, <1>4, <1>5
  <2>3. \A u \in Threads : pc'[u] \in HasRun => u = t
    BY <1>2, <1>8
  <2>4. arena' = arena /\ logs' = logs /\ entry' = entry
    BY <1>1
  <2>. HIDE DEF b, e, fits
  <2>. QED
    BY <2>1, <2>2, <2>3, <2>4 DEF RunIsMine
<1>11. GuestInRun'
  <2>1. \A u \in Threads : fpu[u] = "host"
    BY <1>1, <1>2 DEF IInv, GuestInRun, Alone
  <2>. QED
    BY <1>1, <2>1 DEF GuestInRun
<1>12. HandedBelow' /\ HandedApart'
  BY <1>1, HandedKept
<1>. QED
  BY <1>6, <1>7, <1>9, <1>10, <1>11, <1>12 DEF IInv

LEMMA FailIInv == ASSUME IInv, NEW t \in Threads, Fail(t) PROVE IInv'
<1>1. PICK e \in Errors : rc' = [rc EXCEPT ![t] = e]
  BY DEF Fail, Ends
<1>2. /\ pc[t] \in Working /\ pc' = [pc EXCEPT ![t] = "leaving"]
      /\ UNCHANGED <<arena, logs, busy, run, beg, fpu, handed, entry>>
  BY DEF Fail, Ends, Goes
<1>3. /\ fpu[t] \in {"host", "guest"} /\ fpu' = [fpu EXCEPT ![t] = fpu[t]]
      /\ fpu[t] # "host" => run'.fpu
  BY <1>2 DEF IInv, Typed, GuestInRun
<1>4. /\ run' \in [beg : Nat, end : Nat, log : Nat, loglen : 0 .. LOG_CAP, fpu : BOOLEAN]
      /\ run.beg <= run'.beg /\ run'.beg <= run'.end /\ run'.end <= run.end
  BY <1>2 DEF IInv, Typed
<1>. QED
  BY <1>1, <1>2, <1>3, <1>4, WorkIInv

LEMMA FinishIInv == ASSUME IInv, NEW t \in Threads, Finish(t) PROVE IInv'
<1>1. PICK how \in Errors \cup {"OK"} : rc' = [rc EXCEPT ![t] = how]
  BY DEF Finish, Ends
<1>2. /\ pc[t] \in Working /\ pc' = [pc EXCEPT ![t] = "leaving"]
      /\ UNCHANGED <<arena, logs, busy, run, beg, fpu, handed, entry>>
  BY DEF Finish, Ends, Goes, Working
<1>3. /\ fpu[t] \in {"host", "guest"} /\ fpu' = [fpu EXCEPT ![t] = fpu[t]]
      /\ fpu[t] # "host" => run'.fpu
  BY <1>2 DEF IInv, Typed, GuestInRun
<1>4. /\ run' \in [beg : Nat, end : Nat, log : Nat, loglen : 0 .. LOG_CAP, fpu : BOOLEAN]
      /\ run.beg <= run'.beg /\ run'.beg <= run'.end /\ run'.end <= run.end
  BY <1>2 DEF IInv, Typed
<1>. QED
  BY <1>1, <1>2, <1>3, <1>4, WorkIInv

\* A step that goes on with the work leaves what the call answers as it was.
LEMMA GoesOnIInv ==
  ASSUME IInv, NEW t \in Threads, pc[t] \in Working,
         NEW where \in Working, pc' = [pc EXCEPT ![t] = where],
         NEW f \in {"host", "guest"}, fpu' = [fpu EXCEPT ![t] = f],
         f # "host" => run'.fpu,
         run' \in [beg : Nat, end : Nat, log : Nat, loglen : 0 .. LOG_CAP, fpu : BOOLEAN],
         run.beg <= run'.beg, run'.beg <= run'.end, run'.end <= run.end,
         run'.log = run.log, run'.loglen = run.loglen \/ run.log # 0,
         UNCHANGED <<rc, arena, logs, busy, beg, handed, entry>>
  PROVE  IInv'
<1>1. rc[t] \in Errors \cup {"OK", "EBUSY"} /\ rc' = [rc EXCEPT ![t] = rc[t]]
  BY DEF IInv, Typed
<1>. QED
  BY <1>1, WorkIInv

LEMMA FpuAsItWas ==
  ASSUME IInv, NEW t \in Threads, fpu' = fpu, run'.fpu = run.fpu
  PROVE  /\ fpu[t] \in {"host", "guest"} /\ fpu' = [fpu EXCEPT ![t] = fpu[t]]
         /\ fpu[t] # "host" => run'.fpu
BY DEF IInv, Typed, GuestInRun

LEMMA PcAsItWas ==
  ASSUME IInv, NEW t \in Threads, pc' = pc
  PROVE  pc' = [pc EXCEPT ![t] = pc[t]]
BY DEF IInv, Typed

LEMMA TakeIInv == ASSUME IInv, NEW t \in Threads, NEW n \in Sizes, Take(t, n) PROVE IInv'
<1>1. /\ pc[t] \in Working /\ n <= run.end - run.beg
      /\ run' = [run EXCEPT !.beg = @ + n]
      /\ UNCHANGED <<pc, rc, arena, logs, busy, beg, fpu, handed, entry>>
  BY DEF Take
<1>2. n \in Nat
  BY Bounds
<1>3. run \in [beg : Nat, end : Nat, log : Nat, loglen : 0 .. LOG_CAP, fpu : BOOLEAN]
  BY DEF IInv, Typed
<1>4. /\ run' \in [beg : Nat, end : Nat, log : Nat, loglen : 0 .. LOG_CAP, fpu : BOOLEAN]
      /\ run.beg <= run'.beg /\ run'.beg <= run'.end /\ run'.end <= run.end
      /\ run'.log = run.log /\ run'.loglen = run.loglen /\ run'.fpu = run.fpu
  BY <1>1, <1>2, <1>3
<1>. QED
  BY <1>1, <1>4, FpuAsItWas, PcAsItWas, GoesOnIInv

LEMMA SayIInv == ASSUME IInv, NEW t \in Threads, Say(t) PROVE IInv'
<1>1. /\ pc[t] \in Working /\ run.log # 0 /\ run.loglen + 1 < LOG_CAP
      /\ run' = [run EXCEPT !.loglen = @ + 1]
      /\ UNCHANGED <<pc, rc, arena, logs, busy, beg, fpu, handed, entry>>
  BY DEF Say
<1>2. /\ run \in [beg : Nat, end : Nat, log : Nat, loglen : 0 .. LOG_CAP, fpu : BOOLEAN]
      /\ run.beg <= run.end /\ LOG_CAP \in Nat
  BY Bounds DEF IInv, Typed
<1>3. run.loglen + 1 \in 0 .. LOG_CAP
  BY <1>1, <1>2
<1>4. /\ run' \in [beg : Nat, end : Nat, log : Nat, loglen : 0 .. LOG_CAP, fpu : BOOLEAN]
      /\ run.beg <= run'.beg /\ run'.beg <= run'.end /\ run'.end <= run.end
      /\ run'.log = run.log /\ run'.fpu = run.fpu
  BY <1>1, <1>2, <1>3
<1>. QED
  BY <1>1, <1>4, FpuAsItWas, PcAsItWas, GoesOnIInv

LEMMA BuildIInv == ASSUME IInv, NEW t \in Threads, Build(t) PROVE IInv'
<1>1. /\ pc[t] \in Working /\ "built" \in Working /\ pc' = [pc EXCEPT ![t] = "built"]
      /\ run.end - run.beg >= GuestSize
      /\ run' = [run EXCEPT !.end = @ - GuestSize]
      /\ UNCHANGED <<rc, arena, logs, busy, beg, fpu, handed, entry>>
  BY DEF Build, Goes, Working
<1>2. /\ run \in [beg : Nat, end : Nat, log : Nat, loglen : 0 .. LOG_CAP, fpu : BOOLEAN]
      /\ GuestSize \in Nat
  BY Bounds DEF IInv, Typed
<1>3. run.end - GuestSize \in Nat /\ run.beg <= run.end - GuestSize
  BY <1>1, <1>2
<1>4. /\ run' \in [beg : Nat, end : Nat, log : Nat, loglen : 0 .. LOG_CAP, fpu : BOOLEAN]
      /\ run.beg <= run'.beg /\ run'.beg <= run'.end /\ run'.end <= run.end
      /\ run'.log = run.log /\ run'.loglen = run.loglen /\ run'.fpu = run.fpu
  BY <1>1, <1>2, <1>3
<1>. QED
  BY <1>1, <1>4, FpuAsItWas, GoesOnIInv

LEMMA PlayBeginsIInv == ASSUME IInv, NEW t \in Threads, PlayBegins(t) PROVE IInv'
<1>1. /\ pc[t] \in Working /\ "playing" \in Working /\ pc' = [pc EXCEPT ![t] = "playing"]
      /\ fpu' = [fpu EXCEPT ![t] = "guest"]
      /\ run' = [run EXCEPT !.fpu = TRUE]
      /\ UNCHANGED <<rc, arena, logs, busy, beg, handed, entry>>
  BY DEF PlayBegins, Goes, Working
<1>2. run \in [beg : Nat, end : Nat, log : Nat, loglen : 0 .. LOG_CAP, fpu : BOOLEAN]
      /\ run.beg <= run.end
  BY DEF IInv, Typed
<1>3. /\ run' \in [beg : Nat, end : Nat, log : Nat, loglen : 0 .. LOG_CAP, fpu : BOOLEAN]
      /\ run.beg <= run'.beg /\ run'.beg <= run'.end /\ run'.end <= run.end
      /\ run'.log = run.log /\ run'.loglen = run.loglen /\ run'.fpu
  <2>1. run'.fpu = TRUE
    BY <1>1, <1>2, Zenon
  <2>2. run' \in [beg : Nat, end : Nat, log : Nat, loglen : 0 .. LOG_CAP, fpu : BOOLEAN]
    BY <1>1, <1>2, Zenon
  <2>3. /\ run'.beg = run.beg /\ run'.end = run.end
        /\ run'.log = run.log /\ run'.loglen = run.loglen
    BY <1>1, <1>2
  <2>. QED
    BY <2>1, <2>2, <2>3, <1>2
<1>. QED
  BY <1>1, <1>3, GoesOnIInv

LEMMA PlayEndsIInv == ASSUME IInv, NEW t \in Threads, PlayEnds(t) PROVE IInv'
<1>1. /\ pc[t] \in Working /\ "played" \in Working /\ pc' = [pc EXCEPT ![t] = "played"]
      /\ fpu' = [fpu EXCEPT ![t] = "host"]
      /\ run' = [run EXCEPT !.fpu = FALSE]
      /\ UNCHANGED <<rc, arena, logs, busy, beg, handed, entry>>
  BY DEF PlayEnds, Goes, Working
<1>2. run \in [beg : Nat, end : Nat, log : Nat, loglen : 0 .. LOG_CAP, fpu : BOOLEAN]
      /\ run.beg <= run.end
  BY DEF IInv, Typed
<1>3. /\ run' \in [beg : Nat, end : Nat, log : Nat, loglen : 0 .. LOG_CAP, fpu : BOOLEAN]
      /\ run.beg <= run'.beg /\ run'.beg <= run'.end /\ run'.end <= run.end
      /\ run'.log = run.log /\ run'.loglen = run.loglen
  <2>2. run' \in [beg : Nat, end : Nat, log : Nat, loglen : 0 .. LOG_CAP, fpu : BOOLEAN]
    BY <1>1, <1>2, Zenon
  <2>3. /\ run'.beg = run.beg /\ run'.end = run.end
        /\ run'.log = run.log /\ run'.loglen = run.loglen
    BY <1>1, <1>2
  <2>. QED
    BY <2>2, <2>3, <1>2
<1>. QED
  BY <1>1, <1>3, GoesOnIInv

\* What leave() makes of the arena: beg moves on to the end of what the caller
\* is given, if anything, and that begins where beg was.
LEMMA LeaveGives ==
  ASSUME IInv, NEW t \in Threads, Leave(t)
  PROVE  LET a == arena[t]
             to == LeftBeg(beg[a], rc[t])
         IN  /\ to \in Nat /\ entry <= to /\ to <= End[a]
             /\ beg[a] = entry /\ Start[a] <= entry
             /\ beg' = [beg EXCEPT ![a] = to]
             /\ \A r \in handed' : r \in handed \/ r = [arena |-> a, lo |-> entry, hi |-> to]
             /\ rc[t] # "OK" => to = entry \/ (logs[t] /\ to = entry + run.loglen)
<1>. DEFINE a == arena[t]
            to == LeftBeg(beg[a], rc[t])
            given == IF rc[t] = "OK" THEN [arena |-> a, lo |-> entry, hi |-> run.beg]
                     ELSE [arena |-> a, lo |-> run.log, hi |-> run.log + run.loglen]
<1>1. /\ pc[t] = "leaving"
      /\ beg' = [beg EXCEPT ![a] = LeftBeg(@, rc[t])]
      /\ handed' = handed \cup {r \in {given} : r.lo < r.hi}
  BY DEF Leave
<1>2. /\ a \in Arenas /\ entry \in Nat /\ run.beg \in Nat /\ run.end \in Nat
      /\ run.log \in Nat /\ run.loglen \in 0 .. LOG_CAP /\ run.beg <= run.end
      /\ beg \in [Arenas -> Nat]
  BY DEF IInv, Typed
<1>3. Start[a] \in Nat /\ End[a] \in Nat /\ LOG_CAP \in Nat /\ 1 <= Start[a]
  BY <1>2, Bounds
<1>4. beg[a] = entry
  BY <1>1 DEF IInv, EntryIsBeg, Held
<1>5. /\ Start[a] <= entry /\ entry <= run.beg /\ run.end <= End[a]
      /\ \/ run.log = 0 /\ run.loglen = 0
         \/ run.log = entry /\ logs[t] /\ entry + LOG_CAP <= run.beg
  BY <1>1 DEF IInv, RunIsMine, HasRun
<1>6. beg' = [beg EXCEPT ![a] = to]
  BY <1>1, <1>2
<1>7. /\ to \in Nat /\ entry <= to /\ to <= End[a]
      /\ rc[t] # "OK" => to = entry \/ (logs[t] /\ to = entry + run.loglen)
  <2>1. CASE rc[t] = "OK"
    BY <2>1, <1>2, <1>3, <1>5 DEF LeftBeg
  <2>2. CASE rc[t] # "OK" /\ run.log = 0
    BY <2>2, <1>2, <1>3, <1>4, <1>5 DEF LeftBeg
  <2>3. CASE rc[t] # "OK" /\ run.log # 0
    BY <2>3, <1>2, <1>3, <1>4, <1>5 DEF LeftBeg
  <2>. QED
    BY <2>1, <2>2, <2>3
<1>8. given.lo < given.hi => given = [arena |-> a, lo |-> entry, hi |-> to]
  <2>1. CASE rc[t] = "OK"
    BY <2>1 DEF LeftBeg
  <2>2. CASE rc[t] # "OK" /\ run.log = 0
    BY <2>2, <1>2, <1>3, <1>5
  <2>3. CASE rc[t] # "OK" /\ run.log # 0
    BY <2>3, <1>5 DEF LeftBeg
  <2>. QED
    BY <2>1, <2>2, <2>3
<1>9. \A r \in handed' : r \in handed \/ r = [arena |-> a, lo |-> entry, hi |-> to]
  <2>. HIDE DEF given, to
  <2>. QED
    BY <1>1, <1>8
<1>. QED
  BY <1>4, <1>5, <1>6, <1>7, <1>9

LEMMA LeaveIInv == ASSUME IInv, NEW t \in Threads, Leave(t) PROVE IInv'
<1>. DEFINE a == arena[t]
            to == LeftBeg(beg[a], rc[t])
            new == [arena |-> a, lo |-> entry, hi |-> to]
<1>1. /\ pc[t] = "leaving" /\ pc' = [pc EXCEPT ![t] = "left"]
      /\ fpu' = [fpu EXCEPT ![t] = FpuLeft(t)]
      /\ UNCHANGED <<rc, arena, logs, busy, run, entry>>
  BY DEF Leave, Goes
<1>2. /\ "leaving" \in Inside /\ "left" \in Inside /\ "left" \notin Held
      /\ "leaving" \in HasRun /\ Held \subseteq Inside /\ HasRun \subseteq Inside
      /\ Working \cup {"leaving"} \subseteq Inside
  BY DEF Inside, Working, Held, HasRun
<1>3. /\ to \in Nat /\ entry <= to /\ to <= End[a]
      /\ beg[a] = entry /\ Start[a] <= entry
      /\ beg' = [beg EXCEPT ![a] = to]
      /\ \A r \in handed' : r \in handed \/ r = new
  BY LeaveGives
<1>4. a \in Arenas /\ Start[a] \in Nat /\ End[a] \in Nat /\ entry \in Nat
  BY Bounds DEF IInv, Typed
<1>. HIDE DEF to
<1>5. fpu' = [fpu EXCEPT ![t] = "host"]
  BY <1>1 DEF IInv, Typed, GuestInRun, FpuLeft
<1>6. new \in Ranges
  BY <1>3, <1>4 DEF Ranges
<1>7. Typed'
  <2>1. pc' \in [Threads -> {"idle", "called"} \cup Inside]
    BY <1>1, <1>2 DEF IInv, Typed
  <2>2. beg' \in [Arenas -> Nat] /\ \A b \in Arenas : beg'[b] \in Start[b] .. End[b]
    BY <1>3, <1>4 DEF IInv, Typed
  <2>3. fpu' \in [Threads -> {"host", "guest"}]
    BY <1>5 DEF IInv, Typed
  <2>4. handed' \in SUBSET Ranges
    BY <1>3, <1>6 DEF IInv, Typed
  <2>. QED
    BY <1>1, <2>1, <2>2, <2>3, <2>4 DEF IInv, Typed
<1>8. Alone'
  BY <1>1, <1>2, StillAlone DEF IInv, Alone
<1>9. \A u \in Threads : u # t => pc'[u] \notin Inside
  BY <1>1, <1>2, OthersOut
<1>10. EntryIsBeg'
  BY <1>1, <1>2, <1>9 DEF IInv, Typed, EntryIsBeg
<1>11. RunIsMine'
  BY <1>1, <1>2, <1>9 DEF IInv, RunIsMine
<1>12. GuestInRun'
  <2>1. \A u \in Threads : u # t => fpu[u] = "host"
    BY <1>1, <1>2 DEF IInv, GuestInRun, Alone
  <2>. QED
    BY <1>5, <2>1 DEF IInv, Typed, GuestInRun
<1>13. HandedBelow'
  <2>1. ASSUME NEW r \in handed
        PROVE  r.arena \in Arenas /\ Start[r.arena] <= r.lo /\ r.hi <= beg'[r.arena]
    <3>1. /\ r.arena \in Arenas /\ r.hi \in Nat
          /\ Start[r.arena] <= r.lo /\ r.hi <= beg[r.arena]
      BY DEF IInv, Typed, Ranges, HandedBelow
    <3>. QED
      BY <1>3, <1>4, <3>1 DEF IInv, Typed
  <2>2. Start[new.arena] <= new.lo /\ new.hi <= beg'[new.arena]
    BY <1>3, <1>4 DEF IInv, Typed
  <2>. HIDE DEF new
  <2>. QED
    BY <1>3, <2>1, <2>2 DEF HandedBelow
<1>14. HandedApart'
  <2>1. \A r \in handed : r.arena = new.arena => r.hi <= new.lo
    BY <1>3, <1>4 DEF IInv, HandedBelow
  <2>. HIDE DEF new
  <2>. QED
    BY <1>3, <2>1 DEF IInv, HandedApart
<1>. QED
  BY <1>7, <1>8, <1>10, <1>11, <1>12, <1>13, <1>14 DEF IInv

LEMMA ForgetIInv == ASSUME IInv, NEW t \in Threads, Forget(t) PROVE IInv'
<1>1. /\ pc[t] = "left" /\ pc' = [pc EXCEPT ![t] = "forgotten"] /\ run' = NoRun
      /\ UNCHANGED <<rc, arena, logs, busy, beg, fpu, handed, entry>>
  BY DEF Forget, Goes
<1>2. /\ "left" \in Inside /\ "forgotten" \in Inside /\ "forgotten" \notin Held
      /\ "forgotten" \notin HasRun /\ Held \subseteq Inside /\ HasRun \subseteq Inside
      /\ Working \cup {"leaving"} \subseteq Inside /\ "left" \notin Working \cup {"leaving"}
  BY DEF Inside, Working, Held, HasRun
<1>3. NoRun \in [beg : Nat, end : Nat, log : Nat, loglen : 0 .. LOG_CAP, fpu : BOOLEAN]
      /\ NoRun.beg <= NoRun.end
  BY Bounds DEF NoRun
<1>4. Typed'
  BY <1>1, <1>2, <1>3 DEF IInv, Typed
<1>5. Alone'
  BY <1>1, <1>2, StillAlone DEF IInv, Alone
<1>6. \A u \in Threads : pc'[u] \in Inside => u = t
  BY <1>1, <1>2, OthersOut
<1>7. EntryIsBeg' /\ RunIsMine'
  BY <1>1, <1>2, <1>6 DEF IInv, Typed, EntryIsBeg, RunIsMine
<1>8. GuestInRun'
  <2>1. \A u \in Threads : fpu[u] = "host"
    BY <1>1, <1>2 DEF IInv, GuestInRun, Alone
  <2>. QED
    BY <1>1, <2>1 DEF GuestInRun
<1>9. HandedBelow' /\ HandedApart'
  BY <1>1, HandedKept
<1>. QED
  BY <1>4, <1>5, <1>7, <1>8, <1>9 DEF IInv

LEMMA ClearIInv == ASSUME IInv, NEW t \in Threads, Clear(t) PROVE IInv'
<1>1. /\ pc[t] = "forgotten" /\ pc' = [pc EXCEPT ![t] = "idle"] /\ busy' = FALSE
      /\ UNCHANGED <<rc, arena, logs, run, beg, fpu, handed, entry>>
  BY DEF Clear, Goes, StaysBusy
<1>2. /\ "forgotten" \in Inside /\ "idle" \notin Inside
      /\ Held \subseteq Inside /\ HasRun \subseteq Inside
      /\ Working \cup {"leaving"} \subseteq Inside /\ "forgotten" \notin Working \cup {"leaving"}
  BY DEF Inside, Working, Held, HasRun
<1>3. Typed'
  BY <1>1, <1>2 DEF IInv, Typed
<1>4. \A u \in Threads : pc'[u] \notin Inside
  BY <1>1, <1>2, OthersOut DEF IInv, Typed
<1>5. Alone' /\ EntryIsBeg' /\ RunIsMine'
  BY <1>2, <1>4 DEF Alone, EntryIsBeg, RunIsMine
<1>6. GuestInRun'
  <2>1. \A u \in Threads : fpu[u] = "host"
    BY <1>1, <1>2 DEF IInv, GuestInRun, Alone
  <2>. QED
    BY <1>1, <2>1 DEF GuestInRun
<1>7. HandedBelow' /\ HandedApart'
  BY <1>1, HandedKept
<1>. QED
  BY <1>3, <1>5, <1>6, <1>7 DEF IInv

LEMMA ReclaimIInv == ASSUME IInv, NEW a \in Arenas, Reclaim(a) PROVE IInv'
<1>1. /\ \A t \in Threads : arena[t] = a => pc[t] \notin Inside
      /\ beg' = [beg EXCEPT ![a] = Start[a]]
      /\ handed' = {r \in handed : r.arena # a}
      /\ UNCHANGED <<pc, rc, arena, logs, busy, run, fpu, entry>>
  BY DEF Reclaim
<1>2. Start[a] \in Nat /\ Start[a] \in Start[a] .. End[a]
  BY Bounds
<1>3. Typed'
  BY <1>1, <1>2 DEF IInv, Typed
<1>4. Alone' /\ RunIsMine' /\ GuestInRun'
  BY <1>1 DEF IInv, Alone, RunIsMine, GuestInRun
<1>5. EntryIsBeg'
  BY <1>1 DEF IInv, Typed, EntryIsBeg, Held, Inside
<1>6. HandedBelow'
  BY <1>1 DEF IInv, Typed, Ranges, HandedBelow
<1>7. HandedApart'
  BY <1>1 DEF IInv, HandedApart
<1>. QED
  BY <1>3, <1>4, <1>5, <1>6, <1>7 DEF IInv

LEMMA StepIInv == ASSUME IInv, [Next]_vars PROVE IInv'
<1>1. ASSUME NEW t \in Threads, InCall(t) PROVE IInv'
  BY <1>1, TestAndSetIInv, SetUpIInv, FailIInv, TakeIInv, SayIInv, BuildIInv, PlayBeginsIInv,
     PlayEndsIInv, FinishIInv, LeaveIInv, ForgetIInv, ClearIInv DEF InCall
<1>2. CASE UNCHANGED vars
  BY <1>2 DEF vars, IInv, Typed, Alone, EntryIsBeg, RunIsMine, GuestInRun,
     HandedBelow, HandedApart
<1>. QED
  BY <1>1, <1>2, CallIInv, ReclaimIInv DEF Next

LEMMA Inductive == Spec => []IInv
<1>1. IInv /\ [Next]_vars => IInv'
  BY StepIInv
<1>. QED
  BY <1>1, InitIInv, PTL DEF Spec

-----------------------------------------------------------------------------
\* Whatever the calls do, every variable of the library stays of its type: no
\* call's memory ever runs past the end of the arena it was handed.
THEOREM TypeCorrect == Spec => []TypeOK
<1>1. IInv => TypeOK
  BY DEF IInv, Typed, TypeOK
<1>. QED
  BY <1>1, Inductive, PTL

\* stars.h:35, one call at a time, for any number of threads: the flag is
\* enough to keep the static run and the machine to one of them.
THEOREM AlwaysOneCall == Spec => []OneCallAtATime
<1>1. ASSUME IInv PROVE OneCallAtATime
  <2>1. ASSUME NEW t \in Threads, pc[t] \in HasRun
        PROVE  run # NoRun /\ run.beg \in entry .. End[arena[t]]
    <3>1. /\ Start[arena[t]] <= entry /\ entry <= run.beg /\ run.end <= End[arena[t]]
      BY <2>1, <1>1 DEF IInv, RunIsMine
    <3>2. /\ arena[t] \in Arenas /\ entry \in Nat /\ run.beg \in Nat /\ run.end \in Nat
          /\ run.beg <= run.end
      BY <1>1 DEF IInv, Typed
    <3>3. 1 <= Start[arena[t]] /\ Start[arena[t]] \in Nat /\ End[arena[t]] \in Nat
      BY <3>2, Bounds
    <3>4. run.beg # 0 /\ NoRun.beg = 0
      BY <3>1, <3>2, <3>3 DEF NoRun
    <3>. QED
      BY <3>1, <3>2, <3>3, <3>4
  <2>. QED
    BY <1>1, <2>1 DEF IInv, Alone, OneCallAtATime, HasRun
<1>. QED
  BY <1>1, Inductive, PTL

\* stars.h:29-31, the output of a call is in its arena and the caller's to
\* keep, for any arenas and any calls on them, finished or given up.
THEOREM OutputAlwaysStays == Spec => []OutputsStay
<1>1. ASSUME IInv PROVE OutputsStay
  <2>1. ASSUME NEW t \in Threads, pc[t] \in Working,
               NEW r \in handed, r.arena = arena[t]
        PROVE  r.hi <= run.beg
    <3>1. r.hi <= beg[arena[t]]
      BY <2>1, <1>1 DEF IInv, HandedBelow
    <3>2. beg[arena[t]] = entry /\ entry <= run.beg
      BY <2>1, <1>1 DEF IInv, EntryIsBeg, RunIsMine, Held, HasRun
    <3>3. r.hi \in Nat /\ entry \in Nat /\ run.beg \in Nat
      BY <1>1 DEF IInv, Typed, Ranges
    <3>. QED
      BY <3>1, <3>2, <3>3
  <2>. QED
    BY <1>1, <2>1 DEF IInv, HandedBelow, HandedApart, OutputsStay
<1>. QED
  BY <1>1, Inductive, PTL

\* A thread that is out of the library has its own floating point, wherever
\* its last call was given up.
THEOREM FpuAlwaysBack == Spec => []HostFpuBack
<1>1. IInv => HostFpuBack
  BY DEF IInv, GuestInRun, HostFpuBack, Working
<1>. QED
  BY <1>1, Inductive, PTL

\* stars.h:31-33, a call that does not succeed gives the arena back, but for
\* the log it was asked for.
THEOREM FailureAlwaysLeavesArena == Spec => FailureLeavesArena
<1>. DEFINE A ==
  \A t \in Threads : pc[t] # "idle" /\ pc'[t] # pc[t] /\ rc'[t] \notin {"OK"} =>
       \/ beg' = beg
       \/ /\ logs[t] /\ pc[t] = "leaving"
          /\ beg' = [beg EXCEPT ![arena[t]] = entry + run.loglen]
<1>1. ASSUME IInv, NEW u \in Threads, Leave(u) PROVE A
  <2>1. /\ pc[u] = "leaving" /\ rc' = rc
        /\ \A t \in Threads : t # u => pc'[t] = pc[t]
    BY <1>1 DEF Leave, Goes, IInv, Typed
  <2>2. rc[u] # "OK" => \/ beg' = beg
                        \/ logs[u] /\ beg' = [beg EXCEPT ![arena[u]] = entry + run.loglen]
    <3>1. /\ beg[arena[u]] = entry
          /\ beg' = [beg EXCEPT ![arena[u]] = LeftBeg(beg[arena[u]], rc[u])]
          /\ rc[u] # "OK" => \/ LeftBeg(beg[arena[u]], rc[u]) = entry
                             \/ logs[u] /\ LeftBeg(beg[arena[u]], rc[u]) = entry + run.loglen
      BY <1>1, LeaveGives
    <3>2. beg \in [Arenas -> Nat]
      BY <1>1 DEF IInv, Typed
    <3>. QED
      BY <3>1, <3>2
  <2>. QED
    BY <2>1, <2>2
<1>2. ASSUME NEW a \in Arenas, Reclaim(a) PROVE A
  BY <1>2 DEF Reclaim
<1>3. ASSUME NEW u \in Threads, Call(u) \/ (InCall(u) /\ ~Leave(u)) PROVE A
  BY <1>3 DEF Call, InCall, TestAndSet, SetUp, Fail, Take, Say, Build, PlayBegins,
     PlayEnds, Finish, Ends, Forget, Clear
<1>4. IInv /\ [Next]_vars => [A]_vars
  BY <1>1, <1>2, <1>3 DEF Next
<1>. QED
  BY <1>4, Inductive, PTL DEF Spec, FailureLeavesArena

\* The promises of stars.h:29-35 together, for any threads and any arenas: one
\* call at a time, its output never given again, the host's floating point back.
THEOREM CallsAlwaysSound == Spec => []CallsSound
<1>1. TypeOK /\ OneCallAtATime /\ OutputsStay /\ HostFpuBack => CallsSound
  BY DEF CallsSound
<1>. QED
  BY <1>1, TypeCorrect, AlwaysOneCall, OutputAlwaysStays, FpuAlwaysBack, PTL
=============================================================================
