---------------------------- MODULE EmulatorProofs ----------------------------
(***************************************************************************)
(* What the emulator promises the guest on any host: callbacks keep their   *)
(* promise at every depth, for slices and budgets of every length, so that  *)
(* nothing runs after a stop and the report at the top is about the stop    *)
(* that came first; what is printed are the pages the guest drew; a         *)
(* window's messages run the procedure the guest means for it; and a handle *)
(* of a resource stands for it as long as the guest has loads of it.        *)
(***************************************************************************)
EXTENDS Callbacks, GuestWindows, Printing, Resources, SequenceTheorems, NaturalsInduction,
        WellFoundedInduction, TLAPS

Loop == [n : 0 .. Slice - 1, saved : Nat]
Codes == Stops \cup {"RUNNING"}
Reports == {None, "OK", "EHUNG", "ECRASH", "EGAME", "ENOMEM"}

\* Between plays there are no frames.  Inside one the counter is the number of
\* callbacks that are open, and the stop that is on its way out is the stop
\* that came first.
CallInv ==
    /\ TypeOK
    /\ phase = "idle" => frames = << >> /\ handlers = << >>
    /\ phase = "running" =>
         /\ frames # << >>
         /\ depth = Len(frames) - 1
         /\ state = "RUNNING"
         /\ latched = first

-----------------------------------------------------------------------------
(* Sequences seen from their ends.                                          *)

LEMMA Ends ==
    ASSUME NEW S, NEW s \in Seq(S), s # << >>
    PROVE  /\ Last(s) \in S
           /\ Front(s) \in Seq(S) /\ Len(Front(s)) = Len(s) - 1
           /\ \A f \in S : Front(s) \o <<f>> \in Seq(S) /\ Len(Front(s) \o <<f>>) = Len(s)
<1>1. Len(s) \in Nat \ {0} /\ \A i \in 1 .. Len(s) : s[i] \in S
  OBVIOUS
<1>2. Last(s) \in S
  BY <1>1 DEF Last
<1>3. Front(s) \in Seq(S) /\ Len(Front(s)) = Len(s) - 1
  <2>1. \A i \in 1 .. Len(s) - 1 : s[i] \in S
    BY <1>1
  <2>2. 1 \in Int /\ Len(s) - 1 \in Int
    BY <1>1
  <2>3. /\ SubSeq(s, 1, Len(s) - 1) \in Seq(S)
        /\ Len(SubSeq(s, 1, Len(s) - 1)) = IF 1 <= Len(s) - 1 THEN Len(s) - 1 - 1 + 1 ELSE 0
    BY <2>1, <2>2, SubSeqProperties
  <2>4. (IF 1 <= Len(s) - 1 THEN Len(s) - 1 - 1 + 1 ELSE 0) = Len(s) - 1
    <3>1. \A n \in Nat \ {0} : (IF 1 <= n - 1 THEN n - 1 - 1 + 1 ELSE 0) = n - 1
      OBVIOUS
    <3> QED BY <1>1, <3>1, Zenon
  <2>5. Front(s) = SubSeq(s, 1, Len(s) - 1)
    BY DEF Front
  <2> HIDE DEF Front
  <2> QED BY <2>3, <2>4, <2>5, Zenon
<1> HIDE DEF Front
<1>4. \A f \in S : <<f>> \in Seq(S) /\ Len(<<f>>) = 1
  OBVIOUS
<1> QED BY <1>1, <1>2, <1>3, <1>4

\* The innermost loop is begun again, or goes on to another step of its slice.
LEMMA InnermostAgain ==
    ASSUME frames \in Seq(Loop), frames # << >>, NEW k \in 0 .. Slice - 1
    PROVE  /\ Last(frames).n \in 0 .. Slice - 1
           /\ Onto([Last(frames) EXCEPT !.n = k]) \in Seq(Loop)
           /\ Len(Onto([Last(frames) EXCEPT !.n = k])) = Len(frames)
<1> DEFINE x == Last(frames)
           y == [x EXCEPT !.n = k]
<1>1. x \in Loop
  BY Ends
<1> HIDE DEF x
<1>2. y \in Loop /\ x.n \in 0 .. Slice - 1
  BY <1>1 DEF Loop
<1> HIDE DEF y
<1>3. Front(frames) \o <<y>> \in Seq(Loop) /\ Len(Front(frames) \o <<y>>) = Len(frames)
  BY <1>2, Ends
<1> QED BY <1>2, <1>3 DEF Onto, x, y

-----------------------------------------------------------------------------
(* A step of the innermost loop.                                            *)

\* What a handler's or an instruction's step may answer.
Fits(r, ran) ==
    /\ r \in Codes /\ ran \in Nat
    /\ latched = None \/ r = latched \/ r = "RUNNING"

LEMMA PlayLoopKeeps ==
    ASSUME CallInv, phase = "running", Len(frames) = 1,
           NEW r \in Stops, NEW ran \in Nat, PlayLoop(r, ran),
           handlers' = << >>, boxed' \in BOOLEAN
    PROVE  CallInv'
<1>1. /\ frames \in Seq(Loop) /\ frames # << >> /\ depth = 0 /\ latched = first
      /\ Slice \in Nat \ {0} /\ MaxDepth \in Nat
      /\ icount' \in Nat /\ latched' = latched /\ depth' = depth
      /\ latched \in Fatal \cup {"STEPS", None}
      /\ result \in Reports
  BY CallbackConstants DEF CallInv, TypeOK, Loop, PlayLoop, Reports
<1>2. handlers' \in Seq(0 .. CallsPerHandler) /\ Len(handlers') = 0
  OBVIOUS
<1>3. CASE r = "STEPS" /\ latched = None /\ ~OverBudget(ran)
  <2>1. frames' = Onto([n |-> 0, saved |-> 0]) /\ state' = "RUNNING"
        /\ UNCHANGED <<phase, result, first>>
    BY <1>3 DEF PlayLoop
  <2>2. [n |-> 0, saved |-> 0] \in Loop
    BY <1>1 DEF Loop
  <2>3. frames' \in Seq(Loop) /\ Len(frames') = 1
    BY <1>1, <2>1, <2>2, Ends DEF Onto
  <2>4. frames' # << >>
    BY <2>3
  <2> QED BY <1>1, <1>2, <2>1, <2>3, <2>4 DEF CallInv, TypeOK, Loop, Reports
<1>4. CASE r # "STEPS" \/ latched # None \/ OverBudget(ran)
  <2>1. phase' = "idle" /\ result' = Answer(r, boxed) /\ frames' = << >> /\ state' = r
    BY <1>4 DEF PlayLoop
  <2>2. result' \in Reports
    BY <2>1 DEF Answer, Reports
  <2>3. frames' \in Seq(Loop) /\ Len(frames') = 0
    BY <2>1
  <2> QED BY <1>1, <1>2, <2>1, <2>2, <2>3 DEF CallInv, TypeOK, Loop, Reports
<1> QED BY <1>3, <1>4

LEMMA CallbackLoopKeeps ==
    ASSUME CallInv, phase = "running", Len(frames) # 1,
           NEW r \in Stops, NEW ran \in Nat, CallbackLoop(r, ran),
           latched = None \/ r = latched \/ r = "STEPS",
           handlers' \in Seq(0 .. CallsPerHandler), Len(handlers') = Len(frames) - 1,
           boxed' \in BOOLEAN
    PROVE  CallInv' /\ icount' = ran /\ phase' = phase
<1>1. /\ frames \in Seq(Loop) /\ frames # << >> /\ depth = Len(frames) - 1 /\ latched = first
      /\ depth \in 0 .. MaxDepth
      /\ Slice \in Nat \ {0} /\ MaxDepth \in Nat
      /\ latched \in Fatal \cup {"STEPS", None}
      /\ state' = "RUNNING" /\ phase' = phase /\ result' = result
      /\ result \in Reports
  BY CallbackConstants DEF CallInv, TypeOK, Loop, CallbackLoop, Reports
<1>2. Len(frames) \in Nat /\ Len(frames) >= 2
  BY <1>1
<1>3. CASE r = "STEPS" /\ ~OverBudget(ran)
  <2>1. /\ frames' = Onto([Last(frames) EXCEPT !.n = 0])
        /\ icount' = ran /\ UNCHANGED <<latched, depth, first>>
    BY <1>3 DEF CallbackLoop
  <2>2. 0 \in 0 .. Slice - 1
    BY <1>1
  <2>3. frames' \in Seq(Loop) /\ Len(frames') = Len(frames)
    BY <1>1, <2>1, <2>2, InnermostAgain
  <2>4. frames' # << >>
    BY <1>2, <2>3
  <2>5. Len(frames') - Len(handlers') = 1 /\ depth' = Len(frames') - 1
    BY <1>1, <1>2, <2>1, <2>3
  <2> QED BY <1>1, <2>1, <2>3, <2>4, <2>5 DEF CallInv, TypeOK, Loop, Reports
<1>4. CASE r # "STEPS" \/ OverBudget(ran)
  <2>1. /\ latched' = IF r = "STEPS" \/ MustLatch(r) THEN Latch(r) ELSE latched
        /\ first' = FirstStop(r) /\ frames' = Front(frames)
        /\ depth' = depth - 1 /\ icount' = ran
    BY <1>4 DEF CallbackLoop, Kept
  <2>2. frames' \in Seq(Loop) /\ Len(frames') = Len(frames) - 1
    BY <1>1, <2>1, Ends
  <2>3. frames' # << >>
    BY <1>2, <2>2
  <2>4. depth' \in 0 .. MaxDepth /\ depth' = Len(frames') - 1
    BY <1>1, <1>2, <2>1, <2>2
  <2>5. latched' = first' /\ latched' \in Fatal \cup {"STEPS", None}
    BY <1>1, <2>1 DEF MustLatch, Latch, FirstStop, Stops, Fatal
  <2>6. Len(frames') - Len(handlers') = 0
    BY <1>2, <2>2
  <2> QED BY <1>1, <2>1, <2>2, <2>3, <2>4, <2>5, <2>6 DEF CallInv, TypeOK, Loop, Reports
<1> QED BY <1>1, <1>3, <1>4

\* Whatever a step of a loop answers, the machine stays as it should be, and
\* where the play is over its report is about that answer.
Ended(r) == IF r = "RUNNING" THEN "STEPS" ELSE r

LEMMA StepEndsKeeps ==
    ASSUME CallInv, phase = "running", NEW r, NEW ran, Fits(r, ran), StepEnds(r, ran),
           handlers' \in Seq(0 .. CallsPerHandler), Len(handlers') = Len(frames) - 1,
           boxed' \in BOOLEAN
    PROVE  /\ CallInv' /\ icount' = ran
           /\ phase' = "idle" => result' = Answer(Ended(r), boxed)
<1> DEFINE ended == Ended(r)
<1>1. ended \in Stops /\ ran \in Nat /\ (latched = None \/ ended = latched \/ ended = "STEPS")
  BY DEF Fits, Codes, Stops, Ended
<1>2. frames \in Seq(Loop) /\ frames # << >> /\ Slice \in Nat \ {0} /\ handlers \in Seq(0 .. CallsPerHandler)
  BY CallbackConstants DEF CallInv, TypeOK, Loop
<1>4. CASE r # "RUNNING" \/ ~(Last(frames).n + 1 < Slice)
  <2>0. IF Len(frames) = 1 THEN PlayLoop(ended, ran) ELSE CallbackLoop(ended, ran)
    <3>1. \/ (IF Len(frames) = 1 THEN PlayLoop(ended, ran) ELSE CallbackLoop(ended, ran))
          \/ r = "RUNNING" /\ Last(frames).n + 1 < Slice
      BY DEF StepEnds, Ended
    <3> QED BY <1>4, <3>1
  <2> HIDE DEF ended
  <2>1. CASE Len(frames) = 1
    <3>1. PlayLoop(ended, ran)
      BY <2>0, <2>1
    <3>2. handlers' = << >>
      BY <2>1
    <3>3. CallInv'
      BY <1>1, <2>1, <3>1, <3>2, PlayLoopKeeps
    <3>4. icount' = ran /\ (phase' = "idle" => result' = Answer(ended, boxed))
      BY <3>1 DEF PlayLoop
    <3> QED BY <3>3, <3>4 DEF ended
  <2>2. CASE Len(frames) # 1
    <3>1. CallbackLoop(ended, ran)
      BY <2>0, <2>2
    <3> QED BY <1>1, <2>2, <3>1, CallbackLoopKeeps
  <2> QED BY <2>1, <2>2
<1>5. CASE r = "RUNNING" /\ Last(frames).n + 1 < Slice
  <2>1. \/ (IF Len(frames) = 1 THEN PlayLoop("STEPS", ran) ELSE CallbackLoop("STEPS", ran))
           /\ Last(frames).n + 1 >= Slice
        \/ /\ frames' = Onto([Last(frames) EXCEPT !.n = @ + 1])
           /\ icount' = ran
           /\ state' = "RUNNING"
           /\ UNCHANGED <<phase, latched, depth, result, first>>
    BY <1>5 DEF StepEnds
  <2>2. Last(frames) \in Loop
    BY <1>2, Ends
  <2>3. /\ frames' = Onto([Last(frames) EXCEPT !.n = @ + 1])
        /\ icount' = ran
        /\ state' = "RUNNING"
        /\ UNCHANGED <<phase, latched, depth, result, first>>
    <3>1. Last(frames).n + 1 \in Int /\ Slice \in Int
      BY <1>2, <2>2 DEF Loop
    <3> QED BY <1>5, <2>1, <3>1
  <2>4. Last(frames).n \in 0 .. Slice - 1
    <3>1. 0 \in 0 .. Slice - 1
      BY <1>2
    <3> QED BY <1>2, <3>1, InnermostAgain
  <2>5. frames' \in Seq(Loop) /\ Len(frames') = Len(frames)
    <3>1. Last(frames).n + 1 \in 0 .. Slice - 1
      BY <1>2, <1>5, <2>4
    <3> QED BY <1>2, <2>3, <3>1, InnermostAgain
  <2>6. frames' # << >> /\ Len(frames') - Len(handlers') = 1
    BY <1>2, <2>5
  <2>7. TypeOK'
    BY <1>1, <2>3, <2>5, <2>6 DEF CallInv, TypeOK, Loop
  <2>8. phase' = "running" /\ depth' = Len(frames') - 1 /\ latched' = first'
    BY <2>3, <2>5 DEF CallInv
  <2> QED BY <2>3, <2>6, <2>7, <2>8 DEF CallInv
<1> QED BY <1>4, <1>5

-----------------------------------------------------------------------------
(* The steps of a play.                                                     *)

\* What a step within a play keeps, and what it may not do.
StepFits ==
    /\ CallInv'
    /\ first # None => icount' <= icount
    /\ phase' = "idle" /\ first # None => result' \in {Answer(first, boxed), "EHUNG"}

\* The guest runs on, and is answered r.
LEMMA GuestKeeps ==
    CallInv /\ phase = "running" /\ InGuest =>
      \A r \in Codes : \A ran \in Nat :
        /\ Fits(r, ran) /\ StepEnds(r, ran) /\ UNCHANGED handlers /\ boxed' \in BOOLEAN
        /\ latched = None \/ (ran = icount /\ r = latched)
        => StepFits
<1> SUFFICES ASSUME CallInv, phase = "running", InGuest, NEW r \in Codes, NEW ran \in Nat,
                    Fits(r, ran), StepEnds(r, ran), handlers' = handlers, boxed' \in BOOLEAN,
                    latched = None \/ (ran = icount /\ r = latched)
             PROVE  StepFits
  BY DEF StepFits
<1>1. /\ Len(frames) - Len(handlers) \in {0, 1} /\ Len(frames) \in Nat /\ Len(handlers) \in Nat
      /\ handlers \in Seq(0 .. CallsPerHandler) /\ icount \in Nat /\ latched = first
  BY DEF CallInv, TypeOK
<1>2. Len(handlers') = Len(frames) - 1
  BY <1>1 DEF InGuest
<1>3. /\ CallInv' /\ icount' = ran
      /\ phase' = "idle" => result' = Answer(Ended(r), boxed)
  BY <1>1, <1>2, StepEndsKeeps
<1>4. latched # None => Ended(r) = first
  BY <1>1 DEF Ended, CallInv, TypeOK, Fatal, None
<1> QED BY <1>1, <1>3, <1>4 DEF StepFits

LEMMA EnterHandlerKeeps == CallInv /\ phase = "running" /\ EnterHandler => StepFits
<1> SUFFICES ASSUME CallInv, phase = "running", EnterHandler PROVE StepFits
  OBVIOUS
<1>1. /\ Len(frames) - Len(handlers) \in {0, 1} /\ Len(frames) \in Nat /\ Len(handlers) \in Nat
      /\ handlers \in Seq(0 .. CallsPerHandler) /\ icount \in Nat /\ latched = first
      /\ CallsPerHandler \in 0 .. CallsPerHandler
  BY CallbackConstants DEF CallInv, TypeOK
<1>2. handlers' \in Seq(0 .. CallsPerHandler) /\ Len(handlers') = Len(handlers) + 1
  BY <1>1 DEF EnterHandler
<1>3. Len(frames) - Len(handlers') = 0
  BY <1>1, <1>2 DEF EnterHandler, InGuest
<1>4. icount' \in Nat
  BY <1>1 DEF EnterHandler
<1>5. /\ phase' = phase /\ frames' = frames /\ state' = state /\ latched' = latched
      /\ depth' = depth /\ boxed' = boxed /\ result' = result /\ first' = first /\ latched = None
  BY DEF EnterHandler
<1>6. CallInv'
  BY <1>2, <1>3, <1>4, <1>5 DEF CallInv, TypeOK
<1> QED BY <1>1, <1>5, <1>6 DEF StepFits

LEMMA GiveUpKeeps ==
    \A e \in {"EGAME", "EHUNG", "ENOMEM"} : CallInv /\ phase = "running" /\ GiveUp(e) => StepFits
<1> SUFFICES ASSUME NEW e \in {"EGAME", "EHUNG", "ENOMEM"}, CallInv, phase = "running", GiveUp(e)
             PROVE  StepFits
  OBVIOUS
<1>1. /\ frames' = << >> /\ handlers' = << >> /\ phase' = "idle" /\ result' = e
      /\ UNCHANGED <<state, latched, depth, boxed, first>> /\ latched = None /\ icount' = icount + 1
  BY DEF GiveUp
<1>2. frames' \in Seq(Loop) /\ handlers' \in Seq(0 .. CallsPerHandler)
      /\ Len(frames') = 0 /\ Len(handlers') = 0
  BY <1>1
<1>3. icount' \in Nat /\ latched = first
  BY <1>1 DEF CallInv, TypeOK
<1>4. CallInv'
  BY <1>1, <1>2, <1>3 DEF CallInv, TypeOK, Loop
<1> QED BY <1>1, <1>3, <1>4 DEF StepFits

\* The handler has one callback less to make.
LEMMA OneCallLessFits ==
    CallInv /\ InHandler /\ phase = "running" /\ Last(handlers) > 0 =>
      OneCallLess \in Seq(0 .. CallsPerHandler) /\ Len(OneCallLess) = Len(handlers)
<1> SUFFICES ASSUME CallInv, InHandler, phase = "running", Last(handlers) > 0
             PROVE  OneCallLess \in Seq(0 .. CallsPerHandler) /\ Len(OneCallLess) = Len(handlers)
  OBVIOUS
<1>1. handlers \in Seq(0 .. CallsPerHandler) /\ Len(handlers) \in Nat \ {0}
  <2>1. frames # << >> /\ frames \in Seq(Loop)
    BY DEF CallInv, TypeOK, Loop
  <2>2. Len(frames) # 0
    BY <2>1
  <2> QED BY <2>2 DEF CallInv, TypeOK, InHandler
<1>2. handlers[Len(handlers)] \in 0 .. CallsPerHandler /\ handlers[Len(handlers)] > 0
  <2>1. handlers # << >>
    BY <1>1
  <2>2. Last(handlers) \in 0 .. CallsPerHandler
    BY <1>1, <2>1, Ends
  <2> QED BY <2>2 DEF Last
<1>3. handlers[Len(handlers)] - 1 \in 0 .. CallsPerHandler
  BY <1>2, CallbackConstants
<1> DEFINE v == handlers[Len(handlers)] - 1
<1>4. OneCallLess = [handlers EXCEPT ![Len(handlers)] = v]
  BY DEF OneCallLess
<1> HIDE DEF v
<1> QED BY <1>1, <1>3, <1>4 DEF v

LEMMA CallBackKeeps == CallInv /\ phase = "running" /\ CallBack => StepFits
<1> SUFFICES ASSUME CallInv, phase = "running", CallBack PROVE StepFits
  OBVIOUS
<1>1. /\ frames \in Seq(Loop) /\ depth = Len(frames) - 1 /\ Len(frames) \in Nat
      /\ depth \in 0 .. MaxDepth /\ MaxDepth \in Nat /\ icount \in Nat
      /\ Len(handlers) = Len(frames)
  BY CallbackConstants DEF CallInv, TypeOK, Loop, CallBack, InHandler
<1>2. [n |-> 0, saved |-> icount] \in Loop
  BY <1>1, CallbackConstants DEF Loop
<1>3. frames' \in Seq(Loop) /\ Len(frames') = Len(frames) + 1
  BY <1>1, <1>2 DEF CallBack
<1>4. handlers' \in Seq(0 .. CallsPerHandler) /\ Len(handlers') = Len(frames)
  BY <1>1, OneCallLessFits DEF CallBack
<1>5. /\ depth' = Len(frames') - 1 /\ depth' \in 0 .. MaxDepth /\ frames' # << >>
      /\ Len(frames') - Len(handlers') = 1
  BY <1>1, <1>3, <1>4 DEF CallBack
<1>6. CallInv'
  BY <1>3, <1>4, <1>5 DEF CallInv, TypeOK, Loop, CallBack
<1> QED BY <1>1, <1>6 DEF StepFits, CallBack

LEMMA CallBackRefusedKeeps == CallInv /\ phase = "running" /\ CallBackRefused => StepFits
<1> SUFFICES ASSUME CallInv, phase = "running", CallBackRefused PROVE StepFits
  OBVIOUS
<1>1. handlers' \in Seq(0 .. CallsPerHandler) /\ Len(handlers') = Len(handlers)
  BY OneCallLessFits DEF CallBackRefused
<1>2. latched' = first' /\ latched' \in Fatal \cup {"STEPS", None}
  BY DEF CallInv, TypeOK, CallBackRefused, Latch, FirstStop, Fatal
<1>3. CallInv'
  BY <1>1, <1>2 DEF CallInv, TypeOK, CallBackRefused
<1> QED BY <1>3 DEF StepFits, CallBackRefused, CallInv, TypeOK

LEMMA HandlerReturnsKeeps == CallInv /\ phase = "running" /\ HandlerReturns => StepFits
<1> SUFFICES ASSUME CallInv, phase = "running", HandlerReturns PROVE StepFits
  OBVIOUS
<1>1. /\ handlers \in Seq(0 .. CallsPerHandler) /\ Len(handlers) = Len(frames)
      /\ frames \in Seq(Loop) /\ frames # << >> /\ icount \in Nat /\ state = "RUNNING"
      /\ boxed' \in BOOLEAN /\ handlers' = Front(handlers) /\ StepEnds(state, icount)
  BY DEF CallInv, TypeOK, Loop, HandlerReturns, InHandler
<1>2. handlers # << >>
  BY <1>1
<1>3. handlers' \in Seq(0 .. CallsPerHandler) /\ Len(handlers') = Len(frames) - 1
  BY <1>1, <1>2, Ends
<1>4. Fits(state, icount)
  BY <1>1 DEF Fits, Codes
<1>5. /\ CallInv' /\ icount' = icount
      /\ phase' = "idle" => result' = Answer(Ended(state), boxed)
  BY <1>1, <1>3, <1>4, StepEndsKeeps
<1>6. Answer(Ended(state), boxed) = "EHUNG"
  BY <1>1 DEF Answer, Ended
<1> QED BY <1>1, <1>5, <1>6 DEF StepFits

LEMMA InPlayKeeps == CallInv /\ InPlay => StepFits
<1> SUFFICES ASSUME CallInv, InPlay PROVE StepFits
  OBVIOUS
<1>1. phase = "running" /\ icount \in Nat /\ icount + 1 \in Nat /\ boxed \in BOOLEAN
      /\ latched \in Fatal \cup {"STEPS", None}
  BY DEF CallInv, TypeOK, InPlay
<1>2. CASE Instruction \/ SaysWhy \/ ReturnReached
  <2>1. /\ InGuest /\ latched = None /\ UNCHANGED handlers /\ boxed' \in BOOLEAN
        /\ \E r \in Codes : StepEnds(r, icount + 1)
    BY <1>1, <1>2 DEF Instruction, SaysWhy, ReturnReached, Codes, Stops
  <2>2. \A r \in Codes : Fits(r, icount + 1)
    BY <1>1, <2>1 DEF Fits
  <2> QED BY <1>1, <2>1, <2>2, GuestKeeps
<1>3. CASE HandedTheStop
  <2>1. latched \in Codes /\ Fits(latched, icount)
    BY <1>1, <1>3 DEF Codes, Stops, Fits, HandedTheStop
  <2> QED BY <1>1, <1>3, <2>1, GuestKeeps DEF HandedTheStop
<1> QED
  BY <1>1, <1>2, <1>3, EnterHandlerKeeps, GiveUpKeeps, CallBackKeeps, CallBackRefusedKeeps,
     HandlerReturnsKeeps DEF InPlay

-----------------------------------------------------------------------------
(* A play begins, and what follows.                                         *)

LEMMA ResetFits ==
    CallInv /\ Reset => /\ icount' \in Nat /\ depth' \in 0 .. MaxDepth /\ boxed' \in BOOLEAN
                        /\ handlers' = << >> /\ handlers' \in Seq(0 .. CallsPerHandler)
                        /\ Len(handlers') = 0 /\ state' = "RUNNING" /\ latched' = None
                        /\ first' = None /\ depth' = 0
<1> SUFFICES ASSUME Reset
             PROVE  /\ icount' \in Nat /\ depth' \in 0 .. MaxDepth /\ boxed' \in BOOLEAN
                    /\ handlers' = << >> /\ handlers' \in Seq(0 .. CallsPerHandler)
                    /\ Len(handlers') = 0 /\ state' = "RUNNING" /\ latched' = None
                    /\ first' = None /\ depth' = 0
  OBVIOUS
<1>1. /\ icount' = 0 /\ depth' = 0 /\ boxed' = FALSE /\ handlers' = << >>
      /\ state' = "RUNNING" /\ latched' = None /\ first' = None
  BY DEF Reset, DepthAtStart, LatchAtStart
<1>2. 0 \in 0 .. MaxDepth
  BY CallbackConstants
<1>3. handlers' \in Seq(0 .. CallsPerHandler) /\ Len(handlers') = 0
  BY <1>1
<1> QED BY <1>1, <1>2, <1>3

LEMMA PlayKeeps == CallInv /\ Play => CallInv'
<1> SUFFICES ASSUME CallInv, Play PROVE CallInv'
  OBVIOUS
<1>1. Reset /\ phase' = "running" /\ frames' = << [n |-> 0, saved |-> 0] >> /\ result' = result
  BY DEF Play
<1>2. [n |-> 0, saved |-> 0] \in Loop
  BY CallbackConstants DEF Loop
<1>3. frames' \in Seq(Loop) /\ Len(frames') = 1 /\ frames' # << >>
  BY <1>1, <1>2
<1> QED BY <1>1, <1>3, ResetFits DEF CallInv, TypeOK, Loop

LEMMA PlayFailsKeeps == CallInv /\ PlayFails => CallInv'
<1> SUFFICES ASSUME CallInv, PlayFails PROVE CallInv'
  OBVIOUS
<1>1. phase = "idle" /\ phase' = "idle" /\ frames' = frames /\ result' \in {"ENOMEM", "ECRASH"}
  BY DEF PlayFails
<1>2. CASE Reset
  <2>1. frames' = << >> /\ Len(frames') = 0
    BY <1>1 DEF CallInv
  <2> QED BY <1>1, <1>2, <2>1, ResetFits DEF CallInv, TypeOK
<1>3. CASE UNCHANGED <<latched, depth, boxed, icount, first, handlers, state>>
  BY <1>1, <1>3 DEF CallInv, TypeOK
<1> QED BY <1>2, <1>3 DEF PlayFails

LEMMA CallInvHolds == CallInv /\ [Next]_vars => CallInv'
<1> SUFFICES ASSUME CallInv, [Next]_vars PROVE CallInv'
  OBVIOUS
<1>1. CASE InPlay
  BY <1>1, InPlayKeeps DEF StepFits
<1>2. CASE UNCHANGED vars
  BY <1>2 DEF CallInv, TypeOK, vars
<1> QED BY <1>1, <1>2, PlayKeeps, PlayFailsKeeps DEF Next

LEMMA CallInvBegins == Init => CallInv
<1> SUFFICES ASSUME Init PROVE CallInv
  OBVIOUS
<1>1. frames = << >> /\ handlers = << >> /\ Len(frames) = 0 /\ Len(handlers) = 0
  BY DEF Init
<1>2. frames \in Seq(Loop) /\ handlers \in Seq(0 .. CallsPerHandler)
  BY <1>1
<1>3. 0 \in 0 .. MaxDepth
  BY CallbackConstants
<1>4. TypeOK
  <2>1. /\ phase = "idle" /\ result = None /\ icount = 0 /\ state = "RUNNING"
        /\ depth = 0 /\ boxed = FALSE /\ latched = None
    BY DEF Init
  <2>2. Len(frames) - Len(handlers) = 0
    BY <1>1
  <2> QED BY <1>2, <1>3, <2>1, <2>2 DEF TypeOK, Loop
<1> QED BY <1>1, <1>4 DEF Init, CallInv

LEMMA NothingRuns ==
    CallInv /\ [Next]_vars => [phase = "running" /\ first # None => icount' <= icount]_vars
BY InPlayKeeps DEF StepFits, Next, Play, PlayFails

LEMMA FirstIsReported ==
    CallInv /\ [Next]_vars =>
      [phase = "running" /\ phase' = "idle" /\ first # None
         => result' \in {Answer(first, boxed), "EHUNG"}]_vars
BY InPlayKeeps DEF StepFits, Next, Play, PlayFails

\* cpu.h:91-96: at any depth of callbacks, with slices and a budget of any
\* length, nothing runs after a stop and the report is about the first one.
THEOREM StopsAlwaysHold == Spec => StopsHold
<1>1. CallInv => TypeOK
  BY DEF CallInv
<1> QED
  BY <1>1, CallInvBegins, CallInvHolds, NothingRuns, FirstIsReported, PTL
  DEF Spec, StopsHold, NothingRunsAfterAStop, FirstStopReported

-----------------------------------------------------------------------------
(* The pages of a printed document (Printing).                              *)

PrintSpecification == PrintInit /\ [][PrintNext]_printVars

Page == Seq(Nat)
Document == [open : BOOLEAN, page : BOOLEAN, pages : Seq(Page)]

PrintTypes ==
    /\ dc \in [Handles -> Contexts \cup {NoDC}]
    /\ esc_doc \in Contexts \cup {NoDC} /\ esc_page \in BOOLEAN
    /\ printer \in [Contexts -> Document]
    /\ asked \in [Contexts -> [page : Page, pages : Seq(Page)]]
    /\ drawn \in Nat

\* What the host holds of a document, d, is what the guest asked for, a: while a
\* page is open it is the last, the one being drawn and not blank.
SameDrawn(d, a, open) ==
    IF open THEN a.page # <<>> /\ d.pages = Append(a.pages, a.page)
    ELSE a.page = <<>> /\ d.pages = a.pages

PrintInv ==
    /\ PrintTypes
    /\ PagesAsDrawn
    /\ esc_page => esc_doc # NoDC
    /\ \A c \in Contexts : esc_doc = c => SameDrawn(printer[c], asked[c], esc_page)

\* A drawing goes onto the last page of a document with a page open.
LEMMA DrawnOnLast ==
    ASSUME NEW p \in Seq(Page), NEW x \in Page, NEW y \in Nat, NEW d \in Document,
           d.page, d.pages = Append(p, x)
    PROVE  DrawOn(d, y) = [d EXCEPT !.pages = Append(p, Append(x, y))]
<1>1. /\ Append(p, x) \in Seq(Page) /\ Len(Append(p, x)) = Len(p) + 1
      /\ Append(p, x)[Len(p) + 1] = x
  OBVIOUS
<1>2. Append(x, y) \in Page
  BY DEF Page
<1> DEFINE n == Append(x, y)
<1> HIDE DEF n
<1>3. n \in Page => [Append(p, x) EXCEPT ![Len(p) + 1] = n] = Append(p, n)
  <2> SUFFICES ASSUME n \in Page PROVE [Append(p, x) EXCEPT ![Len(p) + 1] = n] = Append(p, n)
    OBVIOUS
  <2> DEFINE a == [Append(p, x) EXCEPT ![Len(p) + 1] = n]
             b == Append(p, n)
  <2>1. a \in Seq(Page) /\ Len(a) = Len(p) + 1
    BY <1>1
  <2>2. b \in Seq(Page) /\ Len(b) = Len(p) + 1
    OBVIOUS
  <2>3. \A i \in 1 .. Len(p) : Append(p, x)[i] = p[i] /\ b[i] = p[i]
    OBVIOUS
  <2>4. b[Len(p) + 1] = n /\ DOMAIN Append(p, x) = 1 .. Len(p) + 1
    BY <1>1
  <2>6. a[Len(p) + 1] = n
    BY <2>4
  <2>7. ASSUME NEW i \in 1 .. Len(p) PROVE a[i] = p[i]
    <3>1. i \in 1 .. Len(p) + 1 /\ i # Len(p) + 1
      OBVIOUS
    <3>2. a[i] = Append(p, x)[i]
      BY <2>4, <3>1, Zenon
    <3> QED BY <2>3, <3>2, Zenon
  <2>8. \A i \in 1 .. Len(p) + 1 : i \in 1 .. Len(p) \/ i = Len(p) + 1
    BY SMT
  <2> HIDE DEF a, b
  <2>9. \A i \in 1 .. Len(p) + 1 : a[i] = b[i]
    BY <2>3, <2>4, <2>6, <2>7, <2>8 DEF b
  <2>5. a = b
    BY <2>1, <2>2, <2>9, SeqEqual
  <2> QED BY <2>5 DEF a, b
<1>4. [d.pages EXCEPT ![Len(d.pages)] = Append(@, y)] = Append(p, n)
  BY <1>1, <1>2, <1>3 DEF n
<1> QED BY <1>4 DEF DrawOn, n

\* A page is opened by the first drawing, which is the first on it.
LEMMA DrawnOnNew ==
    ASSUME NEW p \in Seq(Page), NEW y \in Nat, NEW d \in Document,
           d.open, ~d.page, d.pages = p
    PROVE  DrawOn(StartPage(d), y) =
             [d EXCEPT !.page = TRUE, !.pages = Append(p, Append(<<>>, y))]
<1> DEFINE b == StartPage(d)
<1>1. b = [d EXCEPT !.page = TRUE, !.pages = Append(p, <<>>)]
  BY DEF StartPage
<1>2. <<>> \in Page /\ Append(p, <<>>) \in Seq(Page)
  BY DEF Page
<1>3. b \in Document /\ b.page /\ b.pages = Append(p, <<>>)
  BY <1>1, <1>2 DEF Document
<1> HIDE DEF b
<1>4. DrawOn(b, y) = [b EXCEPT !.pages = Append(p, Append(<<>>, y))]
  BY <1>2, <1>3, DrawnOnLast
<1> QED BY <1>1, <1>4 DEF b, Document

LEMMA PrintBegins == PrintInit => PrintInv
<1> SUFFICES ASSUME PrintInit PROVE PrintInv
  OBVIOUS
<1>1. <<>> \in Page /\ <<>> \in Seq(Page)
  BY DEF Page
<1>2. NoDoc \in Document /\ ~NoDoc.open /\ ~NoDoc.page
  BY <1>1 DEF NoDoc, Document
<1> HIDE DEF NoDoc
<1>3. PrintTypes
  BY <1>1, <1>2 DEF PrintInit, PrintTypes, NoPages
<1>4. \A c \in Contexts : NoDC # c
  BY PrintingAssumption
<1> QED BY <1>2, <1>3, <1>4 DEF PrintInit, PrintInv, PagesAsDrawn
-----------------------------------------------------------------------------
(* One lemma to an operation.                                               *)

LEMMA CreateKeeps == ASSUME PrintInv, NEW h \in Handles, CreateDC(h) PROVE PrintInv'
<1>1. PICK c \in Contexts \ {dc[x] : x \in Handles} : dc' = [dc EXCEPT ![h] = c]
  BY DEF CreateDC
<1>2. dc' \in [Handles -> Contexts \cup {NoDC}]
  BY <1>1 DEF PrintInv, PrintTypes
<1>3. UNCHANGED <<esc_doc, esc_page, printer, finished, asked, printed, drawn>>
  BY DEF CreateDC
<1> QED BY <1>2, <1>3 DEF PrintInv, PrintTypes, PagesAsDrawn

LEMMA PageGrows == \A s \in Page, n \in Nat : Append(s, n) \in Page /\ Append(s, n) # <<>>
BY SMTT(60) DEF Page

LEMMA DrawKeeps == ASSUME PrintInv, NEW h \in Handles, Draw(h) PROVE PrintInv'
<1>1. PICK c \in Contexts : c = dc[h] /\ c # NoDC
  BY DEF Draw, LiveDC, PrintInv, PrintTypes
<1>2. PICK y \in Nat : y = drawn
  BY DEF PrintInv, PrintTypes
<1> DEFINE onPaper == IF printer[c].open THEN Append(asked[c].page, y) ELSE asked[c].page
<1>3. /\ drawn' = y + 1
      /\ UNCHANGED <<dc, esc_doc, finished, printed>>
      /\ esc_page' = (esc_page \/ (c = esc_doc /\ ~esc_page))
      /\ printer' = [printer EXCEPT ![c] = DrawOn(Gdc(c).printer, y)]
      /\ asked' = [asked EXCEPT ![c].page = onPaper]
  <2>1. drawn' = y + 1 /\ UNCHANGED <<dc, esc_doc, finished, printed>>
    BY <1>2 DEF Draw
  <2>2. esc_page' = Gdc(c).page /\ printer' = [printer EXCEPT ![c] = DrawOn(Gdc(c).printer, y)]
    BY <1>1, <1>2, Zenon DEF Draw
  <2>3. asked' = [asked EXCEPT ![c].page = onPaper]
    BY <1>1, <1>2, Zenon DEF Draw
  <2>4. Gdc(c).page = (esc_page \/ (c = esc_doc /\ ~esc_page))
    BY Zenon DEF Gdc, Opens
  <2> QED BY <2>1, <2>2, <2>3, <2>4
<1>4. /\ printer[c] \in Document /\ asked[c].page \in Page /\ asked[c].pages \in Seq(Page)
      /\ asked[c] \in [page : Page, pages : Seq(Page)]
  BY DEF PrintInv, PrintTypes
<1>5. (printer[c].open <=> esc_doc = c) /\ (printer[c].page <=> esc_doc = c /\ esc_page)
  BY DEF PrintInv, PagesAsDrawn
<1>6. CASE c # esc_doc
  <2>1. Gdc(c).printer = printer[c] /\ DrawOn(printer[c], y) = printer[c]
    BY <1>5, <1>6 DEF Gdc, Opens, DrawOn
  <2>2. onPaper = asked[c].page
    BY <1>5, <1>6
  <2> HIDE DEF onPaper
  <2>3. printer' = printer /\ asked' = asked /\ esc_page' = esc_page
    BY <1>3, <1>4, <1>6, <2>1, <2>2 DEF PrintInv, PrintTypes
  <2> QED BY <1>2, <1>3, <2>3 DEF PrintInv, PrintTypes, PagesAsDrawn
<1>7. CASE c = esc_doc
  <2>1. onPaper = Append(asked[c].page, y)
    BY <1>5, <1>7
  <2> HIDE DEF onPaper
  <2>2. esc_page' = TRUE /\ esc_page \in BOOLEAN /\ SameDrawn(printer[c], asked[c], esc_page)
    BY <1>3, <1>7 DEF PrintInv, PrintTypes
  <2>3. PICK n \in Page : n = Append(asked[c].page, y) /\ n # <<>>
    BY <1>4, PageGrows
  <2>4. PICK q \in Seq(Page) : q = Append(asked[c].pages, n)
    <3>1. \A p \in Seq(Page) : Append(p, n) \in Seq(Page)
      OBVIOUS
    <3> QED BY <1>4, <3>1, Zenon
  <2>5. DrawOn(Gdc(c).printer, y) = [printer[c] EXCEPT !.page = TRUE, !.pages = q]
    <3>1. CASE esc_page
      <4>1. Gdc(c).printer = printer[c] /\ printer[c].page
        BY <1>5, <1>7, <3>1 DEF Gdc, Opens
      <4>2. printer[c].pages = Append(asked[c].pages, asked[c].page)
        BY <2>2, <3>1 DEF SameDrawn
      <4>3. DrawOn(printer[c], y) = [printer[c] EXCEPT !.pages = q]
        <5>1. \A d \in Document, p \in Seq(Page), x \in Page :
                d.page /\ d.pages = Append(p, x) => DrawOn(d, y) = [d EXCEPT !.pages = Append(p, Append(x, y))]
          BY DrawnOnLast
        <5>2. DrawOn(printer[c], y)
                = [printer[c] EXCEPT !.pages = Append(asked[c].pages, Append(asked[c].page, y))]
          BY <1>4, <4>1, <4>2, <5>1, Zenon
        <5> QED BY <2>3, <2>4, <5>2, Zenon
      <4>4. [printer[c] EXCEPT !.pages = q] = [printer[c] EXCEPT !.page = TRUE, !.pages = q]
        BY <1>4, <4>1 DEF Document
      <4> QED BY <4>1, <4>3, <4>4
    <3>2. CASE ~esc_page
      <4>1. Gdc(c).printer = StartPage(printer[c]) /\ printer[c].open /\ ~printer[c].page
        BY <1>5, <1>7, <3>2 DEF Gdc, Opens
      <4>2. asked[c].page = <<>> /\ printer[c].pages = asked[c].pages
        BY <2>2, <3>2 DEF SameDrawn
      <4>3. DrawOn(StartPage(printer[c]), y)
              = [printer[c] EXCEPT !.page = TRUE, !.pages = Append(asked[c].pages, Append(<<>>, y))]
        BY <1>4, <4>1, <4>2, DrawnOnNew, Zenon
      <4> QED BY <2>3, <2>4, <4>1, <4>2, <4>3, Zenon
    <3> QED BY <2>2, <3>1, <3>2
  <2>6. PICK d : d = [printer[c] EXCEPT !.page = TRUE, !.pages = q]
    OBVIOUS
  <2>7. PICK a : a = [asked[c] EXCEPT !.page = n]
    OBVIOUS
  <2>8. /\ d \in Document /\ d.page /\ d.open /\ d.pages = q
        /\ a \in [page : Page, pages : Seq(Page)] /\ SameDrawn(d, a, TRUE)
    BY <1>4, <1>5, <1>7, <2>3, <2>4, <2>6, <2>7 DEF Document, SameDrawn
  <2>9. printer' = [printer EXCEPT ![c] = d] /\ asked' = [asked EXCEPT ![c] = a]
    BY <1>3, <2>1, <2>3, <2>5, <2>6, <2>7
  <2>10. /\ printer'[c] = d /\ asked'[c] = a /\ PrintTypes'
         /\ \A x \in Contexts : x # c => printer'[x] = printer[x]
    <3>1. /\ printer \in [Contexts -> Document] /\ dc \in [Handles -> Contexts \cup {NoDC}]
          /\ asked \in [Contexts -> [page : Page, pages : Seq(Page)]]
          /\ esc_doc \in Contexts \cup {NoDC}
      BY DEF PrintInv, PrintTypes
    <3> HIDE DEF Document
    <3>2. /\ printer' \in [Contexts -> Document] /\ printer'[c] = d
          /\ \A x \in Contexts : x # c => printer'[x] = printer[x]
      BY <2>8, <2>9, <3>1
    <3>3. asked' \in [Contexts -> [page : Page, pages : Seq(Page)]] /\ asked'[c] = a
      <4> DEFINE R == [page : Page, pages : Seq(Page)]
      <4>1. a \in R /\ asked \in [Contexts -> R]
        BY <2>8, <3>1
      <4> HIDE DEF R
      <4>2. asked' \in [Contexts -> R] /\ asked'[c] = a
        BY <2>9, <4>1
      <4> QED BY <4>2 DEF R
    <3>4. esc_page' \in BOOLEAN /\ drawn' \in Nat
      BY <1>3, <2>2
    <3> QED BY <1>3, <3>1, <3>2, <3>3, <3>4 DEF PrintTypes
  <2>11. PagesAsDrawn'
    BY <1>3, <1>7, <2>2, <2>8, <2>10 DEF PrintInv, PagesAsDrawn
  <2> QED BY <1>1, <1>3, <1>7, <2>2, <2>8, <2>10, <2>11 DEF PrintInv
<1> QED BY <1>6, <1>7


Blank == [page |-> <<>>, pages |-> NoPages]

LEMMA Blanks ==
    /\ NoDoc \in Document /\ ~NoDoc.open /\ ~NoDoc.page /\ NoDoc.pages = <<>>
    /\ Blank \in [page : Page, pages : Seq(Page)] /\ Blank.page = <<>> /\ Blank.pages = <<>>
<1>1. <<>> \in Page /\ <<>> \in Seq(Page)
  BY DEF Page
<1> QED BY <1>1 DEF NoDoc, Document, Blank, NoPages

\* A context without a document: what ENDDOC, ABORTDOC and g_DeleteDC leave.
LEMMA ClosedKeeps ==
    ASSUME PrintInv, NEW c \in Contexts,
           printer' = [printer EXCEPT ![c] = NoDoc], asked' = [asked EXCEPT ![c] = Blank],
           c = esc_doc => esc_doc' = NoDC /\ esc_page' = FALSE,
           c # esc_doc => UNCHANGED <<esc_doc, esc_page>>,
           dc' \in [Handles -> Contexts \cup {NoDC}], finished' = printed', drawn' = drawn
    PROVE  PrintInv'
<1> DEFINE R == [page : Page, pages : Seq(Page)]
<1>1. /\ printer \in [Contexts -> Document] /\ asked \in [Contexts -> R]
      /\ esc_doc \in Contexts \cup {NoDC} /\ esc_page \in BOOLEAN /\ drawn \in Nat
  BY DEF PrintInv, PrintTypes
<1>2. NoDoc \in Document /\ ~NoDoc.open /\ ~NoDoc.page /\ Blank \in R
  BY Blanks
<1> HIDE DEF R
<1>3. /\ printer' \in [Contexts -> Document] /\ printer'[c] = NoDoc
      /\ \A x \in Contexts : x # c => printer'[x] = printer[x] /\ asked'[x] = asked[x]
      /\ asked' \in [Contexts -> R]
  BY <1>1, <1>2
<1>4. esc_doc' \in Contexts \cup {NoDC} /\ esc_page' \in BOOLEAN /\ esc_doc' # c
  BY <1>1, PrintingAssumption
<1>5. PrintTypes'
  BY <1>1, <1>3, <1>4 DEF PrintTypes, R
<1>6. c # esc_doc => esc_doc' = esc_doc /\ esc_page' = esc_page
  OBVIOUS
<1>7. c = esc_doc => ~esc_page' /\ \A x \in Contexts : (x # esc_doc /\ esc_doc' # x) \/ x = c
  BY PrintingAssumption
<1>8. PagesAsDrawn'
  <2>1. ASSUME NEW x \in Contexts
        PROVE  /\ printer'[x].open <=> esc_doc' = x
               /\ printer'[x].page <=> esc_doc' = x /\ esc_page'
    <3>1. CASE x = c
      BY <1>2, <1>3, <1>4, <3>1
    <3>2. CASE x # c
      BY <1>3, <1>6, <1>7, <3>2 DEF PrintInv, PagesAsDrawn
    <3> QED BY <3>1, <3>2
  <2> QED BY <2>1 DEF PagesAsDrawn
<1>9. \A x \in Contexts : esc_doc' = x => SameDrawn(printer'[x], asked'[x], esc_page')
  <2> SUFFICES ASSUME NEW x \in Contexts, esc_doc' = x
               PROVE  SameDrawn(printer'[x], asked'[x], esc_page')
    OBVIOUS
  <2>1. x # c /\ c # esc_doc
    BY <1>4, <1>7
  <2> QED BY <1>3, <1>6, <2>1 DEF PrintInv
<1>10. esc_page' => esc_doc' # NoDC
  BY <1>6, <1>7 DEF PrintInv
<1> QED BY <1>5, <1>8, <1>9, <1>10 DEF PrintInv

LEMMA AbortKeeps == ASSUME PrintInv, NEW h \in Handles, AbortDoc(h) PROVE PrintInv'
<1>1. dc[h] \in Contexts /\ dc \in [Handles -> Contexts \cup {NoDC}] /\ finished = printed
  BY DEF AbortDoc, LiveDC, PrintInv, PrintTypes, PagesAsDrawn
<1> QED BY <1>1, ClosedKeeps DEF AbortDoc, Blank

LEMMA DeleteKeeps == ASSUME PrintInv, NEW h \in Handles, DeleteDC(h) PROVE PrintInv'
<1>1. dc[h] \in Contexts /\ dc \in [Handles -> Contexts \cup {NoDC}] /\ finished = printed
  BY DEF DeleteDC, LiveDC, PrintInv, PrintTypes, PagesAsDrawn
<1>2. dc' = [dc EXCEPT ![h] = NoDC]
  BY DEF DeleteDC
<1>3. dc' \in [Handles -> Contexts \cup {NoDC}]
  BY <1>1, <1>2
<1> QED BY <1>1, <1>3, ClosedKeeps DEF DeleteDC, Blank

\* The page the guest ejects is the page the host has open.
LEMMA EjectedIsPrinted ==
    ASSUME PrintInv, NEW c \in Contexts, c = esc_doc
    PROVE  /\ Ejected(asked[c]) \in [page : Page, pages : Seq(Page)]
           /\ Ejected(asked[c]).page = <<>>
           /\ Ejected(asked[c]).pages = printer[c].pages
<1>1. asked[c].page \in Page /\ asked[c].pages \in Seq(Page) /\ printer[c] \in Document
  BY DEF PrintInv, PrintTypes
<1>2. SameDrawn(printer[c], asked[c], esc_page)
  BY DEF PrintInv
<1>3. asked[c] \in [page : Page, pages : Seq(Page)]
  BY DEF PrintInv, PrintTypes
<1>4. CASE esc_page
  <2>1. asked[c].page # <<>> /\ printer[c].pages = Append(asked[c].pages, asked[c].page)
    BY <1>2, <1>4 DEF SameDrawn
  <2>2. Ejected(asked[c]) = [page |-> <<>>, pages |-> printer[c].pages]
    BY <2>1, Zenon DEF Ejected
  <2>3. <<>> \in Page /\ printer[c].pages \in Seq(Page)
    BY <1>1 DEF Document, Page
  <2> QED BY <2>2, <2>3
<1>5. CASE ~esc_page
  <2>1. asked[c].page = <<>> /\ printer[c].pages = asked[c].pages
    BY <1>2, <1>5 DEF SameDrawn
  <2> QED BY <1>3, <2>1, Zenon DEF Ejected
<1> QED BY <1>4, <1>5

LEMMA EndKeeps == ASSUME PrintInv, NEW h \in Handles, EndDoc(h) PROVE PrintInv'
<1>1. PICK c \in Contexts : c = dc[h] /\ c = esc_doc
  BY DEF EndDoc, LiveDC, PrintInv, PrintTypes
<1>2. dc \in [Handles -> Contexts \cup {NoDC}] /\ finished = printed /\ printer[c] \in Document
  BY DEF PrintInv, PrintTypes, PagesAsDrawn
<1> DEFINE d == IF esc_page THEN EndPage(printer[c]) ELSE printer[c]
<1>3. finished' = Append(finished, d.pages) /\ printed' = Append(printed, Ejected(asked[c]).pages)
  BY <1>1, Zenon DEF EndDoc
<1>4. d.pages = printer[c].pages
  BY <1>2 DEF EndPage, Document
<1>5. finished' = printed'
  BY <1>1, <1>2, <1>3, <1>4, EjectedIsPrinted
<1>6. printer' = [printer EXCEPT ![c] = NoDoc] /\ asked' = [asked EXCEPT ![c] = Blank]
  BY <1>1, Zenon DEF EndDoc, Blank
<1>7. esc_page' = FALSE /\ esc_doc' = NoDC /\ dc' = dc /\ drawn' = drawn
  BY DEF EndDoc
<1> QED BY <1>1, <1>2, <1>5, <1>6, <1>7, ClosedKeeps

LEMMA NextPageKeeps == ASSUME PrintInv, NEW h \in Handles, NextPage(h) PROVE PrintInv'
<1>1. PICK c \in Contexts : c = dc[h] /\ c = esc_doc
  BY DEF NextPage, LiveDC, PrintInv, PrintTypes
<1>2. /\ printer' = IF esc_page THEN [printer EXCEPT ![c] = EndPage(@)] ELSE printer
      /\ esc_page' = FALSE /\ asked' = [asked EXCEPT ![c] = Ejected(@)]
      /\ UNCHANGED <<dc, esc_doc, finished, printed, drawn>>
  BY <1>1, Zenon DEF NextPage, PageBreak
<1> DEFINE R == [page : Page, pages : Seq(Page)]
<1>3. /\ printer \in [Contexts -> Document] /\ asked \in [Contexts -> R]
      /\ dc \in [Handles -> Contexts \cup {NoDC}] /\ esc_doc \in Contexts \cup {NoDC}
      /\ drawn \in Nat /\ esc_page \in BOOLEAN
  BY DEF PrintInv, PrintTypes
<1>4. printer[c].open /\ (printer[c].page <=> esc_page)
  BY <1>1 DEF PrintInv, PagesAsDrawn
<1>5. PICK e \in Document : /\ e = [printer[c] EXCEPT !.page = FALSE]
                            /\ e.open /\ ~e.page /\ e.pages = printer[c].pages
  <2>1. printer[c] \in Document
    BY <1>3
  <2>2. \A p \in Document : /\ [p EXCEPT !.page = FALSE] \in Document
                            /\ [p EXCEPT !.page = FALSE].open = p.open
                            /\ [p EXCEPT !.page = FALSE].page = FALSE
                            /\ [p EXCEPT !.page = FALSE].pages = p.pages
    BY DEF Document
  <2> QED BY <1>4, <2>1, <2>2, Zenon
<1>6. printer' = [printer EXCEPT ![c] = e]
  <2>1. CASE esc_page
    BY <1>2, <1>5, <2>1 DEF EndPage
  <2>2. CASE ~esc_page
    <3>1. printer[c] = [printer[c] EXCEPT !.page = FALSE]
      BY <1>3, <1>4, <2>2 DEF Document
    <3>2. printer' = printer /\ e = printer[c]
      BY <1>2, <1>5, <2>2, <3>1
    <3> QED BY <1>3, <3>2
  <2> QED BY <2>1, <2>2
<1>7. PICK a \in R : a = Ejected(asked[c]) /\ a.page = <<>> /\ a.pages = printer[c].pages
  BY <1>1, EjectedIsPrinted
<1> HIDE DEF R
<1>8. /\ printer' \in [Contexts -> Document] /\ printer'[c] = e
      /\ asked' \in [Contexts -> R] /\ asked'[c] = a
      /\ \A x \in Contexts : x # c => printer'[x] = printer[x]
  BY <1>2, <1>3, <1>6, <1>7
<1>9. PrintTypes'
  BY <1>2, <1>3, <1>8 DEF PrintTypes, R
<1>10. PagesAsDrawn'
  <2>1. finished' = printed'
    BY <1>2 DEF PrintInv, PagesAsDrawn
  <2>2. \A x \in Contexts : x # c => ~printer'[x].open /\ ~printer'[x].page /\ esc_doc' # x
    BY <1>1, <1>2, <1>8 DEF PrintInv, PagesAsDrawn
  <2> QED BY <1>1, <1>2, <1>5, <1>8, <2>1, <2>2 DEF PagesAsDrawn
<1>11. SameDrawn(e, a, FALSE)
  BY <1>5, <1>7 DEF SameDrawn
<1> QED BY <1>1, <1>2, <1>8, <1>9, <1>10, <1>11 DEF PrintInv

LEMMA StartKeeps == ASSUME PrintInv, NEW h \in Handles, StartDoc(h) PROVE PrintInv'
<1>1. PICK c \in Contexts : c = dc[h] /\ esc_doc = NoDC
  BY DEF StartDoc, LiveDC, PrintInv, PrintTypes
<1>2. /\ printer' = [printer EXCEPT ![c] = [NoDoc EXCEPT !.open = TRUE]]
      /\ asked' = [asked EXCEPT ![c] = Blank]
      /\ esc_doc' = c /\ esc_page' = FALSE
      /\ UNCHANGED <<dc, finished, printed, drawn>>
  BY <1>1, Zenon DEF StartDoc, Blank
<1> DEFINE R == [page : Page, pages : Seq(Page)]
<1>3. /\ printer \in [Contexts -> Document] /\ asked \in [Contexts -> R]
      /\ dc \in [Handles -> Contexts \cup {NoDC}] /\ drawn \in Nat
  BY DEF PrintInv, PrintTypes
<1>4. PICK e \in Document : /\ e = [NoDoc EXCEPT !.open = TRUE]
                            /\ e.open /\ ~e.page /\ e.pages = <<>>
  <2>1. \A p \in Document : /\ [p EXCEPT !.open = TRUE] \in Document
                            /\ [p EXCEPT !.open = TRUE].open = TRUE
                            /\ [p EXCEPT !.open = TRUE].page = p.page
                            /\ [p EXCEPT !.open = TRUE].pages = p.pages
    BY DEF Document
  <2> QED BY <2>1, Blanks, Zenon
<1>5. Blank \in R /\ SameDrawn(e, Blank, FALSE)
  BY <1>4, Blanks DEF SameDrawn
<1> HIDE DEF R
<1>6. /\ printer' \in [Contexts -> Document] /\ printer'[c] = e
      /\ asked' \in [Contexts -> R] /\ asked'[c] = Blank
      /\ \A x \in Contexts : x # c => printer'[x] = printer[x]
  BY <1>2, <1>3, <1>4, <1>5
<1>7. PrintTypes'
  BY <1>2, <1>3, <1>6 DEF PrintTypes, R
<1>8. PagesAsDrawn'
  <2>1. finished' = printed'
    BY <1>2 DEF PrintInv, PagesAsDrawn
  <2>2. \A x \in Contexts : x # c => ~printer'[x].open /\ ~printer'[x].page /\ esc_doc' # x
    BY <1>1, <1>2, <1>6, PrintingAssumption DEF PrintInv, PagesAsDrawn
  <2> QED BY <1>2, <1>4, <1>6, <2>1, <2>2 DEF PagesAsDrawn
<1> QED BY <1>2, <1>5, <1>6, <1>7, <1>8 DEF PrintInv

LEMMA PrintKeeps == PrintInv /\ [PrintNext]_printVars => PrintInv'
<1> SUFFICES ASSUME PrintInv, [PrintNext]_printVars PROVE PrintInv'
  OBVIOUS
<1>1. CASE UNCHANGED printVars
  BY <1>1 DEF printVars, PrintInv, PrintTypes, PagesAsDrawn
<1> QED
  BY <1>1, CreateKeeps, DrawKeeps, StartKeeps, NextPageKeeps, EndKeeps, AbortKeeps, DeleteKeeps
  DEF PrintNext

\* api_gdi.c:31-47: a page is opened by the first drawing that names its
\* context, and every document comes out as the pages the guest drew.
THEOREM PagesAlwaysAsDrawn == PrintSpecification => []PagesAsDrawn
<1>1. PrintInv => PagesAsDrawn
  BY DEF PrintInv
<1> QED BY <1>1, PrintBegins, PrintKeeps, PTL DEF PrintSpecification

-----------------------------------------------------------------------------
(* The windows' procedures: what a table of them answers.                   *)

\* A set of numbers that is not empty has a least one.
LEMMA LeastOf ==
  ASSUME NEW S \in SUBSET Nat, S # {}
  PROVE  \E x \in S : \A y \in S : x <= y
<1> DEFINE R == {ss \in Nat \X Nat : ss[1] < ss[2]}
<1>1. IsWellFoundedOn(R, Nat)
  BY NatLessThanWellFounded DEF OpToRel
<1>2. \A x, y \in Nat : <<y, x>> \in R <=> y < x
  OBVIOUS
<1> HIDE DEF R
<1>3. PICK x \in S : \A y \in S : ~(<<y, x>> \in R)
  BY <1>1, WFMin
<1>4. \A y \in S : y \in Nat /\ x \in Nat /\ ~(y < x)
  BY <1>2, <1>3
<1>5. \A y \in S : x <= y
  BY <1>4
<1> QED BY <1>5

WindowSpecification == WindowsInit /\ [][WindowStep]_winVars

Whats == Procs \cup Stock \cup {NoProc, "bridge", "dialog"}
Entry == [hwnd : Nat, proc : Whats, modeless : BOOLEAN]

\* A table is an array of entries.
IsTable(T) == \E n \in Nat : T \in [1 .. n -> Entry]

\* What marks a window is no procedure, and 0 is no window.
LEMMA WindowFacts ==
  /\ Procs \cap Stock = {} /\ {NoProc, "bridge", "dialog"} \cap (Procs \cup Stock) = {}
  /\ NoProc # "bridge" /\ NoProc # "dialog" /\ Hwnds \subseteq Nat /\ 0 \notin Hwnds
  /\ MAX_WINDOWS \in Nat /\ MAX_DIALOGS \in Nat
BY WindowConstants DEF NoProc, Hwnds

\* The place is in the table; it is the least of the window's own, if it has one.
LEMMA SlotIs ==
  ASSUME NEW T, IsTable(T), NEW h
  PROVE  /\ SlotOf(T, h) # 0 => SlotOf(T, h) \in DOMAIN T
         /\ Has(T, h) => /\ SlotOf(T, h) # 0 /\ SlotOf(T, h) \in DOMAIN T
                         /\ T[SlotOf(T, h)].hwnd = h
                         /\ \A j \in DOMAIN T : T[j].hwnd = h => SlotOf(T, h) <= j
         /\ ~Has(T, h) /\ SlotOf(T, h) # 0 => T[SlotOf(T, h)].hwnd = 0
<1>1. PICK n \in Nat : T \in [1 .. n -> Entry]
  BY DEF IsTable
<1>2. DOMAIN T = 1 .. n
  BY <1>1
<1> DEFINE own == {i \in DOMAIN T : T[i].hwnd = h}
           free == {i \in DOMAIN T : T[i].hwnd = 0}
<1>3. own \in SUBSET Nat /\ free \in SUBSET Nat /\ own \subseteq DOMAIN T /\ free \subseteq DOMAIN T
      /\ 0 \notin DOMAIN T
  BY <1>2
<1>4. PICK S : S = IF own # {} THEN own ELSE free
  OBVIOUS
<1>5. SlotOf(T, h) = IF S = {} THEN 0 ELSE CHOOSE i \in S : \A j \in S : i <= j
  BY <1>4 DEF SlotOf
<1>6. Has(T, h) <=> own # {}
  BY DEF Has
<1>7. S # {} => \E i \in S : \A j \in S : i <= j
  BY <1>3, <1>4, LeastOf
<1>8. S # {} => SlotOf(T, h) \in S /\ \A j \in S : SlotOf(T, h) <= j
  BY <1>5, <1>7
<1>9. S = {} => SlotOf(T, h) = 0
  BY <1>5
<1> QED BY <1>3, <1>4, <1>6, <1>8, <1>9

\* The place is the least of those it is, so two tables with the same own ones agree.
LEMMA SameSlot ==
  ASSUME NEW T, NEW U, NEW h, Has(T, h), Has(U, h), DOMAIN U = DOMAIN T,
         \A i \in DOMAIN T : T[i].hwnd = h <=> U[i].hwnd = h
  PROVE  SlotOf(U, h) = SlotOf(T, h)
<1>1. PICK S : S = {i \in DOMAIN T : T[i].hwnd = h}
  OBVIOUS
<1>2. S = {i \in DOMAIN U : U[i].hwnd = h} /\ S # {}
  BY <1>1 DEF Has
<1>3. PICK least : least = CHOOSE i \in S : \A j \in S : i <= j
  OBVIOUS
<1>4. SlotOf(T, h) = least
  BY <1>1, <1>2, <1>3 DEF SlotOf
<1>5. SlotOf(U, h) = least
  BY <1>2, <1>3 DEF SlotOf
<1> QED BY <1>4, <1>5

\* What a table says of h.
Says(T, h, p) == Has(T, h) /\ ProcOf(T, h) = p

\* A procedure that found a place is what the table says of its window, and a
\* full table changes nothing; other windows are as they were either way.
LEMMA SetSays ==
  ASSUME NEW T, IsTable(T), NEW h \in Hwnds, NEW p \in Whats, NEW modeless \in BOOLEAN
  PROVE  LET U == Set(T, h, p, modeless)
         IN  /\ IsTable(U) /\ DOMAIN U = DOMAIN T
             /\ ~Full(T, h) => Says(U, h, p)
             /\ Full(T, h) => U = T
             /\ \A g \in Hwnds : g # h => (Has(U, g) <=> Has(T, g)) /\ ProcOf(U, g) = ProcOf(T, g)
<1>1. PICK n \in Nat : T \in [1 .. n -> Entry]
  BY DEF IsTable
<1>2. PICK i : i = SlotOf(T, h)
  OBVIOUS
<1>3. PICK e : e = [hwnd |-> h, proc |-> p, modeless |-> modeless]
  OBVIOUS
<1>4. PICK U : U = Set(T, h, p, modeless)
  OBVIOUS
<1>5. CASE i = 0
  BY <1>2, <1>4, <1>5 DEF Set, Full
<1>6. CASE i # 0
  <2>1. U = [T EXCEPT ![i] = e] /\ ~Full(T, h)
    BY <1>2, <1>3, <1>4, <1>6 DEF Set, Full
  <2>2. i \in DOMAIN T /\ DOMAIN T = 1 .. n /\ (Has(T, h) => T[i].hwnd = h)
        /\ (~Has(T, h) => T[i].hwnd = 0)
    BY <1>1, <1>2, <1>6, SlotIs
  <2>3. e \in Entry /\ e.hwnd = h /\ e.proc = p
    BY <1>3, WindowFacts DEF Entry
  <2>4. U \in [1 .. n -> Entry] /\ DOMAIN U = DOMAIN T /\ U[i] = e
        /\ \A j \in DOMAIN T : j # i => U[j] = T[j]
    BY <1>1, <2>1, <2>2, <2>3
  <2>5. IsTable(U) /\ Has(U, h)
    BY <2>2, <2>3, <2>4 DEF IsTable, Has
  <2>6. SlotOf(U, h) = i
    <3>1. CASE Has(T, h)
      <4>1. \A j \in DOMAIN T : T[j].hwnd = h <=> U[j].hwnd = h
        BY <2>2, <2>3, <2>4, <3>1
      <4> QED BY <1>2, <2>4, <2>5, <3>1, <4>1, SameSlot
    <3>2. CASE ~Has(T, h)
      <4>1. \A j \in DOMAIN U : U[j].hwnd = h => j = i
        BY <2>4, <3>2 DEF Has
      <4>2. SlotOf(U, h) \in DOMAIN U /\ U[SlotOf(U, h)].hwnd = h
        BY <2>5, SlotIs
      <4> QED BY <4>1, <4>2
    <3> QED BY <3>1, <3>2
  <2>7. Says(U, h, p)
    BY <2>3, <2>4, <2>5, <2>6 DEF Says, ProcOf
  <2>8. ASSUME NEW g \in Hwnds, g # h
        PROVE  (Has(U, g) <=> Has(T, g)) /\ ProcOf(U, g) = ProcOf(T, g)
    <3>1. g # 0
      BY WindowFacts
    <3>2. T[i].hwnd # g /\ U[i].hwnd # g
      BY <2>2, <2>3, <2>4, <2>8, <3>1
    <3>3. \A j \in DOMAIN T : T[j].hwnd = g <=> U[j].hwnd = g
      BY <2>4, <3>2
    <3>4. Has(U, g) <=> Has(T, g)
      BY <2>4, <3>3 DEF Has
    <3>5. CASE Has(T, g)
      <4>1. SlotOf(U, g) = SlotOf(T, g)
        BY <2>4, <3>3, <3>4, <3>5, SameSlot
      <4>2. SlotOf(T, g) \in DOMAIN T /\ T[SlotOf(T, g)].hwnd = g
        BY <3>5, SlotIs
      <4>3. U[SlotOf(T, g)] = T[SlotOf(T, g)]
        BY <2>4, <3>2, <4>2
      <4> QED BY <3>4, <3>5, <4>1, <4>3 DEF ProcOf
    <3>6. CASE ~Has(T, g)
      BY <3>4, <3>6 DEF ProcOf
    <3> QED BY <3>4, <3>5, <3>6
  <2> QED BY <1>4, <2>1, <2>4, <2>5, <2>7, <2>8
<1> QED BY <1>5, <1>6

\* A window that is forgotten has no procedure; other windows are as they were.
LEMMA ForgetSays ==
  ASSUME NEW T, IsTable(T), NEW h \in Hwnds
  PROVE  LET U == Forget(T, h)
         IN  /\ IsTable(U) /\ DOMAIN U = DOMAIN T
             /\ ~Has(U, h)
             /\ \A g \in Hwnds : g # h => (Has(U, g) <=> Has(T, g)) /\ ProcOf(U, g) = ProcOf(T, g)
<1>1. PICK n \in Nat : T \in [1 .. n -> Entry]
  BY DEF IsTable
<1>2. PICK U : U = Forget(T, h)
  OBVIOUS
<1>3. NoEntry \in Entry /\ NoEntry.hwnd = 0
  BY DEF NoEntry, Entry, Whats
<1>4. /\ U \in [1 .. n -> Entry] /\ DOMAIN U = DOMAIN T
      /\ \A i \in DOMAIN T : U[i] = IF T[i].hwnd = h THEN NoEntry ELSE T[i]
  BY <1>1, <1>2, <1>3 DEF Forget
<1>5. h # 0 /\ 0 \notin Hwnds
  BY WindowFacts
<1>6. ~Has(U, h)
  BY <1>3, <1>4, <1>5 DEF Has
<1>7. ASSUME NEW g \in Hwnds, g # h
      PROVE  (Has(U, g) <=> Has(T, g)) /\ ProcOf(U, g) = ProcOf(T, g)
  <2>1. \A j \in DOMAIN T : T[j].hwnd = g <=> U[j].hwnd = g
    BY <1>3, <1>4, <1>5, <1>7
  <2>2. Has(U, g) <=> Has(T, g)
    BY <1>4, <2>1 DEF Has
  <2>3. CASE Has(T, g)
    <3>1. SlotOf(U, g) = SlotOf(T, g)
      BY <1>4, <2>1, <2>2, <2>3, SameSlot
    <3>2. SlotOf(T, g) \in DOMAIN T /\ T[SlotOf(T, g)].hwnd = g
      BY <2>3, SlotIs
    <3>3. U[SlotOf(T, g)] = T[SlotOf(T, g)]
      BY <1>4, <1>7, <3>2
    <3> QED BY <2>2, <2>3, <3>1, <3>3 DEF ProcOf
  <2>4. CASE ~Has(T, g)
    BY <2>2, <2>4 DEF ProcOf
  <2> QED BY <2>2, <2>3, <2>4
<1>8. IsTable(U)
  BY <1>4 DEF IsTable
<1> QED BY <1>2, <1>4, <1>6, <1>7, <1>8

-----------------------------------------------------------------------------
(* The invariant.                                                           *)

Saved == [given : Whats, meant : Whats, host : Whats]

WindowTypes ==
  /\ win \in [Hwnds -> [host : Whats, parent : Nat, alive : BOOLEAN, meant : Whats, modal : BOOLEAN]]
  /\ IsTable(wins) /\ IsTable(dlgs)
  /\ pending \in Whats /\ dlgPending \in [proc : Whats, modeless : BOOLEAN]
  /\ creating \in Seq(Hwnds) /\ saved \in [Hwnds -> Seq(Saved)]
  /\ stopped \in BOOLEAN /\ awaits \in BOOLEAN /\ strayed \in BOOLEAN /\ refused \in BOOLEAN

\* The innermost window being created has had no message yet.
Waits(h) == awaits /\ h = creating[Len(creating)]

\* A window that is there runs what it is meant to, or waits for its first message
\* with that as what waits to be adopted.
BridgeRight(h) ==
  win[h].host = "bridge" /\ win[h].alive =>
    /\ win[h].meant \in Procs
    /\ Says(wins, h, win[h].meant) \/ (Waits(h) /\ ~Has(wins, h) /\ pending = win[h].meant)

DialogRight(h) ==
  win[h].host = "dialog" /\ win[h].alive =>
    /\ win[h].meant \in Procs
    /\ Says(dlgs, h, win[h].meant)
       \/ (Waits(h) /\ ~Has(dlgs, h) /\ dlgPending.proc = win[h].meant)

\* What the guest was given for what it replaced puts that back.
SavedRight(s) ==
  \/ s.given \in Stock /\ s.host = s.given
  \/ s.given \in Procs /\ s.host = "bridge" /\ s.meant = s.given

\* Only what is no dialog was ever subclassed.
HostRight(h) ==
  /\ win[h].host \in {"dialog", NoProc} => saved[h] = << >>
  /\ win[h].alive => win[h].host \in Stock \cup {"bridge", "dialog"}

WindowInv ==
  /\ WindowTypes
  /\ awaits => creating # << >>
  /\ \A h \in Hwnds : win[h].host # "bridge" => ~Has(wins, h)
  /\ \A h \in Hwnds : win[h].host # "dialog" => ~Has(dlgs, h)
  /\ \A h \in Hwnds : HostRight(h)
  /\ ~refused => /\ ~strayed
                 /\ \A h \in Hwnds : BridgeRight(h) /\ DialogRight(h)
                 /\ \A h \in Hwnds : \A i \in 1 .. Len(saved[h]) : SavedRight(saved[h][i])

LEMMA WindowsBegin == WindowsInit => WindowInv
<1> SUFFICES ASSUME WindowsInit PROVE WindowInv
  OBVIOUS
<1>1. NoEntry \in Entry /\ NoEntry.hwnd = 0
  BY DEF NoEntry, Entry, Whats
<1>2. IsTable(wins) /\ IsTable(dlgs)
  BY <1>1, WindowFacts DEF WindowsInit, IsTable
<1>3. \A h \in Hwnds : ~Has(wins, h) /\ ~Has(dlgs, h)
  BY <1>1, WindowFacts DEF WindowsInit, Has
<1>4. \A h \in Hwnds : win[h] = NoWindow /\ NoWindow.host = NoProc /\ saved[h] = << >>
  BY DEF WindowsInit, NoWindow
<1>5. WindowTypes
  <2>1. NoWindow \in [host : Whats, parent : Nat, alive : BOOLEAN, meant : Whats, modal : BOOLEAN]
    BY DEF NoWindow, Whats
  <2>2. NoProc \in Whats
    BY DEF Whats
  <2>3. win \in [Hwnds -> [host : Whats, parent : Nat, alive : BOOLEAN, meant : Whats, modal : BOOLEAN]]
    BY <2>1 DEF WindowsInit
  <2>4. saved \in [Hwnds -> Seq(Saved)]
    BY DEF WindowsInit
  <2>5. creating \in Seq(Hwnds)
    BY DEF WindowsInit
  <2> QED BY <1>2, <2>2, <2>3, <2>4, <2>5 DEF WindowsInit, WindowTypes
<1>6. \A h \in Hwnds : BridgeRight(h) /\ DialogRight(h)
  BY <1>4 DEF BridgeRight, DialogRight, NoWindow
<1>7. \A h \in Hwnds : \A i \in 1 .. Len(saved[h]) : SavedRight(saved[h][i])
  BY <1>4
<1>8. awaits = FALSE /\ strayed = FALSE
  BY DEF WindowsInit
<1>9. \A h \in Hwnds : HostRight(h)
  BY <1>4 DEF HostRight, NoWindow
<1> QED BY <1>3, <1>4, <1>5, <1>6, <1>7, <1>8, <1>9 DEF WindowInv

LEMMA LastMade ==
  ASSUME NEW s \in Seq(Hwnds), NEW h \in Hwnds
  PROVE  /\ Append(s, h) \in Seq(Hwnds) /\ Append(s, h) # << >>
         /\ Append(s, h)[Len(Append(s, h))] = h
         /\ s # << >> => Front(s) \in Seq(Hwnds) /\ Last(s) = s[Len(s)] /\ Last(s) \in Hwnds
<1>1. s # << >> => Len(s) \in 1 .. Len(s) /\ Last(s) = s[Len(s)] /\ Last(s) \in Hwnds
  BY DEF Last
<1>2. s # << >> => Front(s) \in Seq(Hwnds)
  BY DEF Front
<1>3. /\ Append(s, h) \in Seq(Hwnds) /\ Len(Append(s, h)) = Len(s) + 1 /\ Len(s) \in Nat
      /\ Append(s, h)[Len(s) + 1] = h
  OBVIOUS
<1>4. Append(s, h) # << >>
  <2>1. Len(<< >>) = 0
    OBVIOUS
  <2> QED BY <1>3, <2>1
<1> QED BY <1>1, <1>2, <1>3, <1>4

WindowType == [host : Whats, parent : Nat, alive : BOOLEAN, meant : Whats, modal : BOOLEAN]

LEMMA FreshFacts ==
  ASSUME WindowInv, NEW h \in Fresh
  PROVE  h \in Hwnds /\ win[h].host = NoProc /\ ~Has(wins, h) /\ ~Has(dlgs, h) /\ saved[h] = << >>
BY WindowFacts DEF WindowInv, HostRight, Fresh, NoWindow

LEMMA CreateWindowKeeps == WindowInv /\ CreateWindow => WindowInv'
<1> SUFFICES ASSUME WindowInv, CreateWindow PROVE WindowInv'
  OBVIOUS
<1>1. PICK h \in Fresh, p \in Procs, parent \in {0} \cup Alive :
        /\ Starts(h, [host |-> "bridge", parent |-> parent, alive |-> TRUE, meant |-> p, modal |-> FALSE])
        /\ pending' = p
  BY DEF CreateWindow
<1>2. /\ WindowTypes /\ ~awaits /\ awaits'
      /\ UNCHANGED <<wins, dlgs, dlgPending, stopped, saved, strayed, refused>>
  BY DEF CreateWindow, MayCreate, WindowInv
<1>3. h \in Hwnds /\ win[h].host = NoProc /\ ~Has(wins, h) /\ ~Has(dlgs, h) /\ saved[h] = << >>
  BY FreshFacts
<1>4. PICK w \in WindowType : /\ w.host = "bridge" /\ w.meant = p /\ win' = [win EXCEPT ![h] = w]
                              /\ creating' = Append(creating, h)
  <2>1. parent \in Nat
    BY WindowFacts DEF Alive
  <2>2. p \in Whats /\ "bridge" \in Whats
    BY DEF Whats
  <2> QED BY <1>1, <2>1, <2>2 DEF Starts, WindowType
<1>5. creating' \in Seq(Hwnds) /\ creating' # << >> /\ creating'[Len(creating')] = h
  BY <1>2, <1>3, <1>4, LastMade DEF WindowTypes
<1>6. win'[h] = w /\ \A g \in Hwnds : g # h => win'[g] = win[g]
  BY <1>2, <1>3, <1>4 DEF WindowTypes
<1>7. WindowTypes'
  <2>1. win' \in [Hwnds -> WindowType]
    BY <1>2, <1>4 DEF WindowTypes, WindowType
  <2>2. p \in Whats
    BY DEF Whats
  <2> QED BY <1>1, <1>2, <1>5, <2>1, <2>2 DEF WindowTypes, WindowType, CreateWindow
<1>8. \A g \in Hwnds : win'[g].host # "bridge" => ~Has(wins', g)
  BY <1>2, <1>4, <1>6 DEF WindowInv
<1>9. \A g \in Hwnds : win'[g].host # "dialog" => ~Has(dlgs', g)
  BY <1>2, <1>3, <1>6 DEF WindowInv
<1>10. \A g \in Hwnds : HostRight(g)'
  BY <1>2, <1>3, <1>4, <1>6 DEF WindowInv, HostRight, NoProc
<1>11. ASSUME ~refused', NEW g \in Hwnds PROVE BridgeRight(g)' /\ DialogRight(g)'
  <2>1. CASE g = h
    BY <1>1, <1>2, <1>3, <1>4, <1>5, <1>6, <2>1 DEF BridgeRight, DialogRight, Waits
  <2>2. CASE g # h
    <3>1. BridgeRight(g) /\ DialogRight(g)
      BY <1>2, <1>11 DEF WindowInv
    <3>2. win'[g] = win[g] /\ ~Waits(g)
      BY <1>2, <1>6, <2>2 DEF Waits
    <3> QED BY <1>2, <3>1, <3>2 DEF BridgeRight, DialogRight
  <2> QED BY <2>1, <2>2
<1>12. ~refused' => ~strayed' /\ \A g \in Hwnds : \A i \in 1 .. Len(saved'[g]) : SavedRight(saved'[g][i])
  BY <1>2 DEF WindowInv
<1> QED BY <1>5, <1>7, <1>8, <1>9, <1>10, <1>11, <1>12 DEF WindowInv

LEMMA CreateControlKeeps == WindowInv /\ CreateControl => WindowInv'
<1> SUFFICES ASSUME WindowInv, CreateControl PROVE WindowInv'
  OBVIOUS
<1>1. PICK h \in Fresh, s \in Stock, parent \in Alive :
        win' = [win EXCEPT ![h] = [host |-> s, parent |-> parent, alive |-> TRUE,
                                   meant |-> NoProc, modal |-> FALSE]]
  BY DEF CreateControl
<1>2. /\ WindowTypes /\ ~awaits /\ pending' = NoProc
      /\ UNCHANGED <<wins, dlgs, dlgPending, creating, stopped, saved, awaits, strayed, refused>>
  BY DEF CreateControl, MayCreate, WindowInv
<1>3. h \in Hwnds /\ win[h].host = NoProc /\ ~Has(wins, h) /\ ~Has(dlgs, h) /\ saved[h] = << >>
  BY FreshFacts
<1>4. PICK w \in WindowType : w.host \in Stock /\ win' = [win EXCEPT ![h] = w]
  <2>1. parent \in Nat
    BY WindowFacts DEF Alive
  <2>2. s \in Whats /\ NoProc \in Whats
    BY DEF Whats
  <2> QED BY <1>1, <2>1, <2>2 DEF WindowType
<1>5. w.host # "bridge" /\ w.host # "dialog"
  BY <1>4, WindowFacts
<1>6. win'[h] = w /\ \A g \in Hwnds : g # h => win'[g] = win[g]
  BY <1>2, <1>3, <1>4 DEF WindowTypes
<1>7. WindowTypes'
  <2>1. win' \in [Hwnds -> WindowType]
    BY <1>2, <1>4 DEF WindowTypes, WindowType
  <2>2. NoProc \in Whats
    BY DEF Whats
  <2> QED BY <1>2, <2>1, <2>2 DEF WindowTypes, WindowType
<1>8. \A g \in Hwnds : win'[g].host # "bridge" => ~Has(wins', g)
  BY <1>2, <1>3, <1>6 DEF WindowInv
<1>9. \A g \in Hwnds : win'[g].host # "dialog" => ~Has(dlgs', g)
  BY <1>2, <1>3, <1>6 DEF WindowInv
<1>10. \A g \in Hwnds : HostRight(g)'
  BY <1>2, <1>3, <1>4, <1>6 DEF WindowInv, HostRight, NoProc
<1>11. ASSUME ~refused', NEW g \in Hwnds PROVE BridgeRight(g)' /\ DialogRight(g)'
  <2>1. CASE g = h
    BY <1>5, <1>6, <2>1 DEF BridgeRight, DialogRight
  <2>2. CASE g # h
    <3>1. BridgeRight(g) /\ DialogRight(g)
      BY <1>2, <1>11 DEF WindowInv
    <3>2. win'[g] = win[g] /\ ~Waits(g)
      BY <1>2, <1>6, <2>2 DEF Waits
    <3> QED BY <1>2, <3>1, <3>2 DEF BridgeRight, DialogRight
  <2> QED BY <2>1, <2>2
<1>12. ~refused' => ~strayed' /\ \A g \in Hwnds : \A i \in 1 .. Len(saved'[g]) : SavedRight(saved'[g][i])
  BY <1>2 DEF WindowInv
<1> QED BY <1>2, <1>7, <1>8, <1>9, <1>10, <1>11, <1>12 DEF WindowInv

LEMMA CreateDialogKeeps == WindowInv /\ CreateDialog => WindowInv'
<1> SUFFICES ASSUME WindowInv, CreateDialog PROVE WindowInv'
  OBVIOUS
<1>1. PICK h \in Fresh, p \in Procs, modal \in BOOLEAN :
        /\ Starts(h, [host |-> "dialog", parent |-> 0, alive |-> TRUE, meant |-> p, modal |-> modal])
        /\ dlgPending' = [proc |-> p, modeless |-> ~modal]
  BY DEF CreateDialog
<1>2. /\ WindowTypes /\ ~awaits /\ awaits'
      /\ UNCHANGED <<wins, dlgs, pending, stopped, saved, strayed, refused>>
  BY DEF CreateDialog, MayCreate, WindowInv
<1>3. h \in Hwnds /\ win[h].host = NoProc /\ ~Has(wins, h) /\ ~Has(dlgs, h) /\ saved[h] = << >>
  BY FreshFacts
<1>4. PICK w \in WindowType : /\ w.host = "dialog" /\ w.meant = p /\ win' = [win EXCEPT ![h] = w]
                              /\ creating' = Append(creating, h)
  <2>1. p \in Whats /\ "dialog" \in Whats
    BY DEF Whats
  <2> QED BY <1>1, <2>1 DEF Starts, WindowType
<1>5. creating' \in Seq(Hwnds) /\ creating' # << >> /\ creating'[Len(creating')] = h
  BY <1>2, <1>3, <1>4, LastMade DEF WindowTypes
<1>6. win'[h] = w /\ \A g \in Hwnds : g # h => win'[g] = win[g]
  BY <1>2, <1>3, <1>4 DEF WindowTypes
<1>7. WindowTypes'
  <2>1. win' \in [Hwnds -> WindowType]
    BY <1>2, <1>4 DEF WindowTypes, WindowType
  <2>2. dlgPending' \in [proc : Whats, modeless : BOOLEAN]
    BY <1>1 DEF Whats
  <2> QED BY <1>1, <1>2, <1>5, <2>1, <2>2 DEF WindowTypes, WindowType, CreateDialog
<1>8. \A g \in Hwnds : win'[g].host # "bridge" => ~Has(wins', g)
  BY <1>2, <1>3, <1>6 DEF WindowInv
<1>9. \A g \in Hwnds : win'[g].host # "dialog" => ~Has(dlgs', g)
  BY <1>2, <1>4, <1>6 DEF WindowInv
<1>10. \A g \in Hwnds : HostRight(g)'
  BY <1>2, <1>3, <1>4, <1>6 DEF WindowInv, HostRight, NoProc
<1>11. ASSUME ~refused', NEW g \in Hwnds PROVE BridgeRight(g)' /\ DialogRight(g)'
  <2>1. CASE g = h
    BY <1>1, <1>2, <1>3, <1>4, <1>5, <1>6, <2>1 DEF BridgeRight, DialogRight, Waits
  <2>2. CASE g # h
    <3>1. BridgeRight(g) /\ DialogRight(g)
      BY <1>2, <1>11 DEF WindowInv
    <3>2. win'[g] = win[g] /\ ~Waits(g)
      BY <1>2, <1>6, <2>2 DEF Waits
    <3> QED BY <1>2, <3>1, <3>2 DEF BridgeRight, DialogRight
  <2> QED BY <2>1, <2>2
<1>12. ~refused' => ~strayed' /\ \A g \in Hwnds : \A i \in 1 .. Len(saved'[g]) : SavedRight(saved'[g][i])
  BY <1>2 DEF WindowInv
<1> QED BY <1>5, <1>7, <1>8, <1>9, <1>10, <1>11, <1>12 DEF WindowInv

LEMMA CreatedKeeps == WindowInv /\ Created => WindowInv'
<1> SUFFICES ASSUME WindowInv, Created PROVE WindowInv'
  OBVIOUS
<1>1. PICK h : h = Last(creating)
  OBVIOUS
<1>2. /\ WindowTypes /\ ~awaits /\ creating # << >> /\ creating' = Front(creating)
      /\ UNCHANGED <<win, dlgs, stopped, saved, awaits, strayed>>
  BY DEF Created, WindowInv
<1>3. h \in Hwnds /\ creating' \in Seq(Hwnds)
  BY <1>1, <1>2, LastMade DEF WindowTypes
<1>4. pending' \in Whats /\ dlgPending' \in [proc : Whats, modeless : BOOLEAN]
  <2>1. NoProc \in Whats
    BY DEF Whats
  <2>2. pending' = pending \/ pending' = NoProc
    BY DEF Created
  <2>3. dlgPending' = dlgPending \/ dlgPending' = [dlgPending EXCEPT !.proc = NoProc]
    BY DEF Created
  <2> QED BY <1>2, <2>1, <2>2, <2>3 DEF WindowTypes
<1>5. CASE /\ win[h].host = "bridge" /\ win[h].alive
           /\ wins' = Set(wins, h, win[h].meant, FALSE)
           /\ refused' = (refused \/ Full(wins, h))
  <2>1. win[h].meant \in Whats /\ IsTable(wins)
    BY <1>2, <1>3 DEF WindowTypes
  <2>2. /\ IsTable(wins') /\ (~Full(wins, h) => Says(wins', h, win[h].meant))
        /\ \A g \in Hwnds : g # h => (Has(wins', g) <=> Has(wins, g)) /\ ProcOf(wins', g) = ProcOf(wins, g)
    BY <1>3, <1>5, <2>1, SetSays
  <2>3. WindowTypes'
    BY <1>2, <1>3, <1>4, <1>5, <2>2 DEF WindowTypes, Full
  <2>4. \A g \in Hwnds : win'[g].host # "bridge" => ~Has(wins', g)
    BY <1>2, <1>5, <2>2 DEF WindowInv
  <2>5. ASSUME ~refused', NEW g \in Hwnds PROVE BridgeRight(g)' /\ DialogRight(g)'
    <3>1. BridgeRight(g) /\ DialogRight(g) /\ ~Waits(g)
      BY <1>2, <1>5, <2>5 DEF WindowInv, Waits
    <3>2. CASE g = h
      BY <1>2, <1>5, <2>2, <2>5, <3>1, <3>2 DEF BridgeRight, DialogRight
    <3>3. CASE g # h
      BY <1>2, <2>2, <3>1, <3>3 DEF BridgeRight, DialogRight, Says
    <3> QED BY <3>2, <3>3
  <2>6. ~refused' => ~refused
    BY <1>5
  <2> QED BY <1>2, <2>3, <2>4, <2>5, <2>6 DEF WindowInv, HostRight
<1>6. CASE UNCHANGED <<wins, refused>>
  <2>1. WindowTypes'
    BY <1>2, <1>3, <1>4, <1>6 DEF WindowTypes
  <2>2. ASSUME ~refused', NEW g \in Hwnds PROVE BridgeRight(g)' /\ DialogRight(g)'
    <3>1. BridgeRight(g) /\ DialogRight(g) /\ ~Waits(g)
      BY <1>2, <1>6, <2>2 DEF WindowInv, Waits
    <3> QED BY <1>2, <1>6, <3>1 DEF BridgeRight, DialogRight
  <2> QED BY <1>2, <1>6, <2>1, <2>2 DEF WindowInv, HostRight
<1> QED BY <1>1, <1>5, <1>6 DEF Created

\* Who is known to a table has a place in it.
LEMMA KnownHas ==
  ASSUME NEW T, NEW h, ProcOf(T, h) # NoProc PROVE Has(T, h)
BY DEF ProcOf

LEMMA MessageKeeps == WindowInv /\ Message => WindowInv'
<1> SUFFICES ASSUME WindowInv, Message PROVE WindowInv'
  OBVIOUS
<1>1. PICK h \in Alive :
        /\ win[h].host = "bridge" /\ (awaits => h = Last(creating))
        /\ LET known == ProcOf(wins, h) # NoProc
               p == IF known THEN ProcOf(wins, h) ELSE pending
           IN  /\ wins' = IF known \/ p = NoProc THEN wins ELSE Set(wins, h, p, FALSE)
               /\ refused' = (refused \/ (~known /\ p # NoProc /\ Full(wins, h)))
               /\ pending' = AfterAdoption(known, pending)
               /\ awaits' = FALSE
               /\ strayed' = (strayed \/ (~stopped /\ p # win[h].meant))
  BY DEF Message
<1>2. WindowTypes /\ UNCHANGED <<win, dlgs, dlgPending, creating, stopped, saved>> /\ h \in Hwnds /\ win[h].alive
  BY DEF Message, WindowInv, Alive
<1>3. PICK p : p = IF ProcOf(wins, h) # NoProc THEN ProcOf(wins, h) ELSE pending
  OBVIOUS
<1>4. PICK known \in BOOLEAN : known = (ProcOf(wins, h) # NoProc)
  OBVIOUS
<1>5. /\ wins' = IF known \/ p = NoProc THEN wins ELSE Set(wins, h, p, FALSE)
      /\ refused' = (refused \/ (~known /\ p # NoProc /\ Full(wins, h)))
      /\ pending' = AfterAdoption(known, pending)
      /\ awaits' = FALSE
      /\ strayed' = (strayed \/ (~stopped /\ p # win[h].meant))
  BY <1>1, <1>3, <1>4
<1>6. pending \in Whats /\ pending' \in Whats
  <2>1. NoProc \in Whats
    BY DEF Whats
  <2> QED BY <1>2, <1>5, <2>1 DEF WindowTypes, AfterAdoption
<1>7. /\ IsTable(wins')
      /\ \A g \in Hwnds : g # h => (Has(wins', g) <=> Has(wins, g)) /\ ProcOf(wins', g) = ProcOf(wins, g)
      /\ ~known /\ p # NoProc /\ ~Full(wins, h) => Says(wins', h, p)
  <2>1. CASE known \/ p = NoProc
    BY <1>2, <1>5, <2>1 DEF WindowTypes
  <2>2. CASE ~known /\ p # NoProc
    <3>1. wins' = Set(wins, h, p, FALSE) /\ p \in Whats /\ IsTable(wins)
      BY <1>2, <1>3, <1>4, <1>5, <1>6, <2>2 DEF WindowTypes
    <3> QED BY <1>2, <3>1, SetSays
  <2> QED BY <2>1, <2>2
<1>8. WindowTypes'
  <2>1. refused' \in BOOLEAN /\ strayed' \in BOOLEAN
    BY <1>5
  <2> QED BY <1>2, <1>5, <1>6, <1>7, <2>1 DEF WindowTypes
<1>9. \A g \in Hwnds : win'[g].host # "bridge" => ~Has(wins', g)
  BY <1>1, <1>2, <1>7 DEF WindowInv
<1>10. \A g \in Hwnds : Waits(g) => g = h
  <2>1. awaits => creating \in Seq(Hwnds) /\ creating # << >>
    BY <1>2 DEF WindowInv, WindowTypes
  <2> QED BY <1>1, <1>2, <2>1, LastMade DEF Waits
<1>11. ASSUME ~refused'
       PROVE  /\ p = win[h].meant /\ win[h].meant \in Procs /\ Says(wins', h, p)
  <2>1. ~refused /\ BridgeRight(h)
    BY <1>2, <1>5, <1>11 DEF WindowInv
  <2>2. win[h].meant \in Procs /\ win[h].meant # NoProc
    BY <1>1, <1>2, <2>1, WindowFacts DEF BridgeRight
  <2>3. CASE known
    <3>1. Has(wins, h) /\ p = ProcOf(wins, h)
      BY <1>3, <1>4, <2>3, KnownHas
    <3>2. Says(wins, h, win[h].meant)
      BY <1>1, <1>2, <2>1, <3>1 DEF BridgeRight
    <3> QED BY <1>5, <2>2, <2>3, <3>1, <3>2 DEF Says
  <2>4. CASE ~known
    <3>1. ~Says(wins, h, win[h].meant)
      BY <1>4, <2>2, <2>4 DEF Says
    <3>2. p = pending /\ pending = win[h].meant
      BY <1>1, <1>2, <1>3, <1>4, <2>1, <2>4, <3>1 DEF BridgeRight
    <3>3. ~Full(wins, h)
      BY <1>5, <1>11, <2>2, <2>4, <3>2
    <3> QED BY <1>7, <2>2, <2>4, <3>2, <3>3
  <2> QED BY <2>3, <2>4
<1>12. ASSUME ~refused', NEW g \in Hwnds PROVE BridgeRight(g)' /\ DialogRight(g)'
  <2>1. BridgeRight(g) /\ DialogRight(g)
    BY <1>5, <1>12 DEF WindowInv
  <2>2. CASE g = h
    BY <1>1, <1>2, <1>11, <1>12, <2>2 DEF BridgeRight, DialogRight
  <2>3. CASE g # h
    BY <1>2, <1>7, <1>10, <2>1, <2>3 DEF BridgeRight, DialogRight, Says
  <2> QED BY <2>2, <2>3
<1>13. ~refused' => ~strayed'
  <2>1. ~refused' => ~refused /\ p = win[h].meant
    BY <1>5, <1>11
  <2> QED BY <1>5, <2>1 DEF WindowInv
<1>14. \A g \in Hwnds : HostRight(g)'
  BY <1>2 DEF WindowInv, HostRight
<1> QED BY <1>2, <1>5, <1>8, <1>9, <1>12, <1>13, <1>14 DEF WindowInv

\* Who dies keeps all but its life.
LEMMA DeadKeep ==
  ASSUME WindowTypes, NEW S
  PROVE  /\ Dead(S) \in [Hwnds -> WindowType]
         /\ \A g \in Hwnds : /\ Dead(S)[g].host = win[g].host /\ Dead(S)[g].meant = win[g].meant
                             /\ Dead(S)[g].alive => win[g].alive
BY DEF WindowTypes, WindowType, Dead

LEMMA DialogMessageKeeps == WindowInv /\ DialogMessage => WindowInv'
<1> SUFFICES ASSUME WindowInv, DialogMessage PROVE WindowInv'
  OBVIOUS
<1>1. PICK h \in Alive :
        /\ win[h].host = "dialog" /\ (awaits => h = Last(creating))
        /\ LET known == ProcOf(dlgs, h) # NoProc
               p == IF known THEN ProcOf(dlgs, h) ELSE dlgPending.proc
           IN  /\ dlgs' = IF known \/ p = NoProc THEN dlgs ELSE Set(dlgs, h, p, dlgPending.modeless)
               /\ refused' = (refused \/ (~known /\ p # NoProc /\ Full(dlgs, h)))
               /\ dlgPending' = IF known THEN dlgPending ELSE [dlgPending EXCEPT !.proc = NoProc]
               /\ awaits' = FALSE
               /\ strayed' = (strayed \/ (~stopped /\ p # win[h].meant))
               /\ win' = IF p # NoProc /\ Closes(dlgs', h) THEN Dead(Family(h)) ELSE win
  BY DEF DialogMessage
<1>2. WindowTypes /\ UNCHANGED <<wins, pending, creating, stopped, saved>> /\ h \in Hwnds /\ win[h].alive
  BY DEF DialogMessage, WindowInv, Alive
<1>3. PICK p : p = IF ProcOf(dlgs, h) # NoProc THEN ProcOf(dlgs, h) ELSE dlgPending.proc
  OBVIOUS
<1>4. PICK known \in BOOLEAN : known = (ProcOf(dlgs, h) # NoProc)
  OBVIOUS
<1>5. /\ dlgs' = IF known \/ p = NoProc THEN dlgs ELSE Set(dlgs, h, p, dlgPending.modeless)
      /\ refused' = (refused \/ (~known /\ p # NoProc /\ Full(dlgs, h)))
      /\ dlgPending' = IF known THEN dlgPending ELSE [dlgPending EXCEPT !.proc = NoProc]
      /\ awaits' = FALSE
      /\ strayed' = (strayed \/ (~stopped /\ p # win[h].meant))
      /\ win' = win \/ win' = Dead(Family(h))
  BY <1>1, <1>3, <1>4
<1>6. dlgPending.proc \in Whats /\ dlgPending.modeless \in BOOLEAN
      /\ dlgPending' \in [proc : Whats, modeless : BOOLEAN]
  <2>1. NoProc \in Whats
    BY DEF Whats
  <2> QED BY <1>2, <1>5, <2>1 DEF WindowTypes
<1>7. /\ IsTable(dlgs')
      /\ \A g \in Hwnds : g # h => (Has(dlgs', g) <=> Has(dlgs, g)) /\ ProcOf(dlgs', g) = ProcOf(dlgs, g)
      /\ ~known /\ p # NoProc /\ ~Full(dlgs, h) => Says(dlgs', h, p)
  <2>1. CASE known \/ p = NoProc
    BY <1>2, <1>5, <2>1 DEF WindowTypes
  <2>2. CASE ~known /\ p # NoProc
    <3>1. dlgs' = Set(dlgs, h, p, dlgPending.modeless) /\ p \in Whats /\ IsTable(dlgs)
      BY <1>2, <1>3, <1>4, <1>5, <1>6, <2>2 DEF WindowTypes
    <3> QED BY <1>2, <1>6, <3>1, SetSays
  <2> QED BY <2>1, <2>2
<1>8. /\ win' \in [Hwnds -> WindowType]
      /\ \A g \in Hwnds : /\ win'[g].host = win[g].host /\ win'[g].meant = win[g].meant
                          /\ win'[g].alive => win[g].alive
  <2>1. CASE win' = win
    BY <1>2, <2>1 DEF WindowTypes, WindowType
  <2>2. CASE win' = Dead(Family(h))
    BY <1>2, <2>2, DeadKeep
  <2> QED BY <1>5, <2>1, <2>2
<1>9. WindowTypes'
  <2>1. refused' \in BOOLEAN /\ strayed' \in BOOLEAN
    BY <1>5
  <2> QED BY <1>2, <1>5, <1>6, <1>7, <1>8, <2>1 DEF WindowTypes, WindowType
<1>10. /\ \A g \in Hwnds : win'[g].host # "bridge" => ~Has(wins', g)
       /\ \A g \in Hwnds : win'[g].host # "dialog" => ~Has(dlgs', g)
       /\ \A g \in Hwnds : HostRight(g)'
  BY <1>1, <1>2, <1>7, <1>8 DEF WindowInv, HostRight
<1>11. \A g \in Hwnds : Waits(g) => g = h
  <2>1. awaits => creating \in Seq(Hwnds) /\ creating # << >>
    BY <1>2 DEF WindowInv, WindowTypes
  <2> QED BY <1>1, <1>2, <2>1, LastMade DEF Waits
<1>12. ASSUME ~refused'
       PROVE  /\ p = win[h].meant /\ win[h].meant \in Procs /\ Says(dlgs', h, p)
  <2>1. ~refused /\ DialogRight(h)
    BY <1>2, <1>5, <1>12 DEF WindowInv
  <2>2. win[h].meant \in Procs /\ win[h].meant # NoProc
    BY <1>1, <1>2, <2>1, WindowFacts DEF DialogRight
  <2>3. CASE known
    <3>1. Has(dlgs, h) /\ p = ProcOf(dlgs, h)
      BY <1>3, <1>4, <2>3, KnownHas
    <3>2. Says(dlgs, h, win[h].meant)
      BY <1>1, <1>2, <2>1, <3>1 DEF DialogRight
    <3> QED BY <1>5, <2>2, <2>3, <3>1, <3>2 DEF Says
  <2>4. CASE ~known
    <3>1. ~Says(dlgs, h, win[h].meant)
      BY <1>4, <2>2, <2>4 DEF Says
    <3>2. p = dlgPending.proc /\ dlgPending.proc = win[h].meant
      BY <1>1, <1>2, <1>3, <1>4, <2>1, <2>4, <3>1 DEF DialogRight
    <3>3. ~Full(dlgs, h)
      BY <1>5, <1>12, <2>2, <2>4, <3>2
    <3> QED BY <1>7, <2>2, <2>4, <3>2, <3>3
  <2> QED BY <2>3, <2>4
<1>13. ASSUME ~refused', NEW g \in Hwnds PROVE BridgeRight(g)' /\ DialogRight(g)'
  <2>1. BridgeRight(g) /\ DialogRight(g)
    BY <1>5, <1>13 DEF WindowInv
  <2>2. CASE g = h
    BY <1>1, <1>2, <1>8, <1>12, <1>13, <2>2 DEF BridgeRight, DialogRight
  <2>3. CASE g # h
    BY <1>2, <1>7, <1>8, <1>11, <2>1, <2>3 DEF BridgeRight, DialogRight, Says
  <2> QED BY <2>2, <2>3
<1>14. ~refused' => ~strayed'
  <2>1. ~refused' => ~refused /\ p = win[h].meant
    BY <1>5, <1>12
  <2> QED BY <1>5, <2>1 DEF WindowInv
<1> QED BY <1>2, <1>5, <1>9, <1>10, <1>13, <1>14 DEF WindowInv

\* What a window is given to run, it runs.
LEMMA SetProcSays ==
  ASSUME WindowTypes, NEW h \in Hwnds, NEW val \in Whats, NEW meant \in Whats, SetProc(h, val, meant)
  PROVE  /\ win' \in [Hwnds -> WindowType] /\ IsTable(wins') /\ refused' \in BOOLEAN
         /\ ~refused' => ~refused
         /\ \A g \in Hwnds : g # h => /\ win'[g] = win[g] /\ (Has(wins', g) <=> Has(wins, g))
                                      /\ ProcOf(wins', g) = ProcOf(wins, g)
         /\ win'[h].meant = meant /\ win'[h].alive = win[h].alive
         /\ val \in Stock => win'[h].host = val /\ ~Has(wins', h)
         /\ val \notin Stock => win'[h].host = "bridge" /\ (~refused' => Says(wins', h, val))
<1>1. "bridge" \in Whats /\ win \in [Hwnds -> WindowType] /\ IsTable(wins) /\ refused \in BOOLEAN
  BY DEF Whats, WindowTypes, WindowType
<1>2. CASE val \in Stock
  <2>1. /\ wins' = Forget(wins, h) /\ win' = [win EXCEPT ![h].host = val, ![h].meant = meant]
        /\ refused' = refused
    BY <1>2 DEF SetProc
  <2>2. /\ IsTable(wins') /\ ~Has(wins', h)
        /\ \A g \in Hwnds : g # h => (Has(wins', g) <=> Has(wins, g)) /\ ProcOf(wins', g) = ProcOf(wins, g)
    BY <1>1, <2>1, ForgetSays
  <2>3. /\ win' \in [Hwnds -> WindowType] /\ \A g \in Hwnds : g # h => win'[g] = win[g]
        /\ win'[h].meant = meant /\ win'[h].alive = win[h].alive /\ win'[h].host = val
    BY <1>1, <2>1 DEF WindowType
  <2> QED BY <1>1, <1>2, <2>1, <2>2, <2>3
<1>3. CASE val \notin Stock
  <2>1. /\ wins' = Set(wins, h, val, FALSE)
        /\ win' = [win EXCEPT ![h].host = "bridge", ![h].meant = meant]
        /\ refused' = (refused \/ Full(wins, h))
    BY <1>3 DEF SetProc
  <2>2. /\ IsTable(wins') /\ (~Full(wins, h) => Says(wins', h, val))
        /\ \A g \in Hwnds : g # h => (Has(wins', g) <=> Has(wins, g)) /\ ProcOf(wins', g) = ProcOf(wins, g)
    BY <1>1, <2>1, SetSays
  <2>3. /\ win' \in [Hwnds -> WindowType] /\ \A g \in Hwnds : g # h => win'[g] = win[g]
        /\ win'[h].meant = meant /\ win'[h].alive = win[h].alive /\ win'[h].host = "bridge"
    BY <1>1, <2>1 DEF WindowType
  <2>4. refused' \in BOOLEAN /\ (~refused' => ~refused /\ ~Full(wins, h))
    BY <2>1
  <2> QED BY <1>3, <2>2, <2>3, <2>4
<1> QED BY <1>2, <1>3

\* What a window that has another procedure now says of the invariant.
LEMMA SetProcKeeps ==
  ASSUME WindowInv, Quiet, NEW h \in Hwnds, NEW val \in Whats, NEW meant \in Whats, SetProc(h, val, meant),
         win[h].host # "dialog",
         UNCHANGED <<dlgs, pending, dlgPending, creating, stopped, awaits, strayed>>,
         saved' \in [Hwnds -> Seq(Saved)], \A g \in Hwnds : g # h => saved'[g] = saved[g],
         ~refused' => val \in Stock \/ (val \in Procs /\ meant = val),
         ~refused' => \A i \in 1 .. Len(saved'[h]) : SavedRight(saved'[h][i])
  PROVE  WindowInv'
<1>1. /\ win' \in [Hwnds -> WindowType] /\ IsTable(wins') /\ refused' \in BOOLEAN
      /\ ~refused' => ~refused
      /\ \A g \in Hwnds : g # h => /\ win'[g] = win[g] /\ (Has(wins', g) <=> Has(wins, g))
                                   /\ ProcOf(wins', g) = ProcOf(wins, g)
      /\ win'[h].meant = meant /\ win'[h].alive = win[h].alive
      /\ val \in Stock => win'[h].host = val /\ ~Has(wins', h)
      /\ val \notin Stock => win'[h].host = "bridge" /\ (~refused' => Says(wins', h, val))
  BY SetProcSays DEF WindowInv
<1>2. WindowTypes /\ ~awaits
  BY DEF WindowInv, Quiet
<1>3. WindowTypes'
  BY <1>1, <1>2 DEF WindowTypes, WindowType
<1>4. win'[h].host # "dialog" /\ win'[h].host # NoProc
  BY <1>1, WindowFacts
<1>5. \A g \in Hwnds : win'[g].host # "bridge" => ~Has(wins', g)
  BY <1>1 DEF WindowInv
<1>6. \A g \in Hwnds : win'[g].host # "dialog" => ~Has(dlgs', g)
  BY <1>1 DEF WindowInv
<1>7. \A g \in Hwnds : HostRight(g)'
  BY <1>1, <1>4 DEF WindowInv, HostRight
<1>8. ASSUME ~refused', NEW g \in Hwnds PROVE BridgeRight(g)' /\ DialogRight(g)'
  <2>1. BridgeRight(g) /\ DialogRight(g) /\ ~Waits(g)
    BY <1>1, <1>2, <1>8 DEF WindowInv, Waits
  <2>2. CASE g = h
    <3>1. DialogRight(g)'
      BY <1>4, <2>2 DEF DialogRight
    <3>2. BridgeRight(g)'
      <4>1. CASE val \in Stock
        BY <1>1, <2>2, <4>1, WindowFacts DEF BridgeRight
      <4>2. CASE val \notin Stock
        <5>1. val \in Procs /\ meant = val
          BY <1>8, <4>2
        <5> QED BY <1>1, <1>8, <2>2, <4>2, <5>1 DEF BridgeRight
      <4> QED BY <4>1, <4>2
    <3> QED BY <3>1, <3>2
  <2>3. CASE g # h
    BY <1>1, <2>1, <2>3 DEF BridgeRight, DialogRight, Says
  <2> QED BY <2>2, <2>3
<1>9. ASSUME ~refused', NEW g \in Hwnds PROVE \A i \in 1 .. Len(saved'[g]) : SavedRight(saved'[g][i])
  <2>1. CASE g = h
    BY <1>9, <2>1
  <2>2. CASE g # h
    BY <1>1, <1>9, <2>2 DEF WindowInv
  <2> QED BY <2>1, <2>2
<1>10. ~refused' => ~strayed'
  BY <1>1 DEF WindowInv
<1> QED BY <1>2, <1>3, <1>5, <1>6, <1>7, <1>8, <1>9, <1>10 DEF WindowInv

LEMMA SubclassKeeps == WindowInv /\ Subclass => WindowInv'
<1> SUFFICES ASSUME WindowInv, Subclass PROVE WindowInv'
  OBVIOUS
<1>1. PICK h \in Alive, p \in Procs :
        /\ win[h].host # "dialog" /\ SetProc(h, p, p)
        /\ saved' = [saved EXCEPT ![h] = Append(@, [given |-> Given(h), meant |-> win[h].meant,
                                                    host |-> win[h].host])]
  BY DEF Subclass
<1>2. /\ Quiet /\ UNCHANGED <<dlgs, pending, dlgPending, creating, stopped, awaits, strayed>>
      /\ WindowTypes /\ ~awaits /\ h \in Hwnds /\ win[h].alive /\ p \in Whats
  BY DEF Subclass, WindowInv, Quiet, Alive, Whats
<1>3. PICK s : s = [given |-> Given(h), meant |-> win[h].meant, host |-> win[h].host]
  OBVIOUS
<1>4. PICK old : old = saved[h]
  OBVIOUS
<1>5. s \in Saved
  <2>1. ProcOf(wins, h) \in Whats
    <3>1. CASE Has(wins, h)
      <4>1. PICK n \in Nat : wins \in [1 .. n -> Entry]
        BY <1>2 DEF WindowTypes, IsTable
      <4>2. SlotOf(wins, h) \in 1 .. n
        BY <1>2, <3>1, <4>1, SlotIs DEF WindowTypes
      <4> QED BY <3>1, <4>1, <4>2 DEF ProcOf, Entry
    <3>2. CASE ~Has(wins, h)
      BY <3>2 DEF ProcOf, Whats
    <3> QED BY <3>1, <3>2
  <2>2. Given(h) \in Whats /\ win[h].meant \in Whats /\ win[h].host \in Whats
    BY <1>2, <2>1 DEF Given, WindowTypes
  <2> QED BY <1>3, <2>2 DEF Saved
<1>6. saved' = [saved EXCEPT ![h] = Append(old, s)] /\ old \in Seq(Saved)
  BY <1>1, <1>2, <1>3, <1>4 DEF WindowTypes
<1>7. /\ saved' \in [Hwnds -> Seq(Saved)] /\ saved'[h] = Append(old, s)
      /\ \A g \in Hwnds : g # h => saved'[g] = saved[g]
  <2>1. Append(old, s) \in Seq(Saved)
    BY <1>5, <1>6
  <2> QED BY <1>2, <1>6, <2>1 DEF WindowTypes
<1>8. ASSUME ~refused' PROVE \A i \in 1 .. Len(saved'[h]) : SavedRight(saved'[h][i])
  <2>1. ~refused
    BY <1>1, <1>2, <1>8, SetProcSays
  <2>2. SavedRight(s)
    <3>1. CASE win[h].host = "bridge"
      <4>1. win[h].meant \in Procs /\ Says(wins, h, win[h].meant)
        BY <1>2, <2>1, <3>1 DEF WindowInv, BridgeRight, Waits
      <4>2. ProcOf(wins, h) = win[h].meant /\ win[h].meant # NoProc
        BY <4>1, WindowFacts DEF Says
      <4>3. s.given = win[h].meant /\ s.meant = win[h].meant /\ s.host = "bridge"
        BY <1>3, <3>1, <4>2 DEF Given
      <4> QED BY <4>1, <4>3 DEF SavedRight
    <3>2. CASE win[h].host # "bridge"
      <4>1. ~Has(wins, h)
        BY <1>2, <3>2 DEF WindowInv
      <4>2. s.given = win[h].host /\ s.host = win[h].host
        BY <1>3, <4>1 DEF Given, ProcOf
      <4>3. win[h].host \in Stock
        BY <1>1, <1>2, <2>1, <3>2 DEF WindowInv, HostRight
      <4> QED BY <4>2, <4>3 DEF SavedRight
    <3> QED BY <3>1, <3>2
  <2>3. \A i \in 1 .. Len(old) : SavedRight(old[i])
    BY <1>2, <1>4, <2>1 DEF WindowInv
  <2>4. \A i \in 1 .. Len(Append(old, s)) :
           Append(old, s)[i] = s \/ (i \in 1 .. Len(old) /\ Append(old, s)[i] = old[i])
    BY <1>5, <1>6
  <2> QED BY <1>7, <2>2, <2>3, <2>4
<1> QED BY <1>1, <1>2, <1>7, <1>8, SetProcKeeps

LEMMA UnsubclassKeeps == WindowInv /\ Unsubclass => WindowInv'
<1> SUFFICES ASSUME WindowInv, Unsubclass PROVE WindowInv'
  OBVIOUS
<1>1. PICK h \in Alive :
        /\ saved[h] # << >>
        /\ SetProc(h, Last(saved[h]).given, Last(saved[h]).meant)
        /\ saved' = [saved EXCEPT ![h] = Front(@)]
  BY DEF Unsubclass
<1>2. /\ Quiet /\ UNCHANGED <<dlgs, pending, dlgPending, creating, stopped, awaits, strayed>>
      /\ WindowTypes /\ h \in Hwnds /\ win[h].alive
  BY DEF Unsubclass, WindowInv, Alive
<1>3. PICK old : old = saved[h] /\ old \in Seq(Saved) /\ old # << >>
  BY <1>1, <1>2 DEF WindowTypes
<1>4. PICK s : s = Last(old)
  OBVIOUS
<1>5. s \in Saved /\ Len(old) \in 1 .. Len(old) /\ s = old[Len(old)]
  BY <1>3, <1>4 DEF Last
<1>6. s.given \in Whats /\ s.meant \in Whats
  BY <1>5 DEF Saved
<1>7. /\ Front(old) \in Seq(Saved) /\ Len(Front(old)) = Len(old) - 1
      /\ \A i \in 1 .. Len(Front(old)) : i \in 1 .. Len(old) /\ Front(old)[i] = old[i]
  BY <1>3 DEF Front
<1>8. /\ saved' \in [Hwnds -> Seq(Saved)] /\ saved'[h] = Front(old)
      /\ \A g \in Hwnds : g # h => saved'[g] = saved[g]
  BY <1>1, <1>2, <1>3, <1>7 DEF WindowTypes
<1>9. SetProc(h, s.given, s.meant)
  BY <1>1, <1>3, <1>4
<1>10. win[h].host # "dialog"
  BY <1>1, <1>2 DEF WindowInv, HostRight
<1>11. ASSUME ~refused' PROVE \A i \in 1 .. Len(old) : SavedRight(old[i])
  <2>1. ~refused
    BY <1>2, <1>6, <1>9, <1>11, SetProcSays
  <2> QED BY <1>2, <1>3, <2>1 DEF WindowInv
<1>12. ~refused' => s.given \in Stock \/ (s.given \in Procs /\ s.meant = s.given)
  BY <1>5, <1>11 DEF SavedRight
<1>13. ~refused' => \A i \in 1 .. Len(saved'[h]) : SavedRight(saved'[h][i])
  BY <1>7, <1>8, <1>11
<1> QED BY <1>2, <1>6, <1>8, <1>9, <1>10, <1>12, <1>13, SetProcKeeps

\* Giving back what it was given, the guest gets the window as it was.
LEMMA UnsubclassRestores ==
  ASSUME WindowInv, Unsubclass
  PROVE  \A h \in Hwnds :
           Len(saved'[h]) < Len(saved[h]) /\ win'[h].alive /\ ~refused' =>
             /\ win'[h].host = Last(saved[h]).host
             /\ Given(h)' = Last(saved[h]).given
<1> SUFFICES ASSUME NEW g \in Hwnds, Len(saved'[g]) < Len(saved[g]), ~refused'
             PROVE  win'[g].host = Last(saved[g]).host /\ Given(g)' = Last(saved[g]).given
  OBVIOUS
<1>1. PICK h \in Alive :
        /\ saved[h] # << >>
        /\ SetProc(h, Last(saved[h]).given, Last(saved[h]).meant)
        /\ saved' = [saved EXCEPT ![h] = Front(@)]
  BY DEF Unsubclass
<1>2. WindowTypes /\ h \in Hwnds
  BY DEF WindowInv, Alive
<1>3. g = h
  <2>1. g # h => saved'[g] = saved[g] /\ Len(saved[g]) \in Nat
    BY <1>1, <1>2 DEF WindowTypes
  <2> QED BY <2>1
<1>4. PICK s : s = Last(saved[h])
  OBVIOUS
<1>5. s \in Saved /\ Len(saved[h]) \in 1 .. Len(saved[h]) /\ s = saved[h][Len(saved[h])]
  BY <1>1, <1>2, <1>4 DEF Last, WindowTypes
<1>6. s.given \in Whats /\ s.meant \in Whats /\ SetProc(h, s.given, s.meant)
  BY <1>1, <1>4, <1>5 DEF Saved
<1>7. /\ ~refused
      /\ s.given \in Stock => win'[h].host = s.given /\ ~Has(wins', h)
      /\ s.given \notin Stock => win'[h].host = "bridge" /\ Says(wins', h, s.given)
  BY <1>2, <1>6, SetProcSays
<1>8. SavedRight(s)
  BY <1>2, <1>5, <1>7 DEF WindowInv
<1>9. CASE s.given \in Stock
  <2>1. s.host = s.given
    BY <1>8, <1>9, WindowFacts DEF SavedRight
  <2>2. Given(h)' = s.given
    BY <1>7, <1>9 DEF Given, ProcOf
  <2> QED BY <1>3, <1>4, <1>7, <1>9, <2>1, <2>2
<1>10. CASE s.given \notin Stock
  <2>1. s.given \in Procs /\ s.host = "bridge" /\ s.given # NoProc
    BY <1>8, <1>10, WindowFacts DEF SavedRight
  <2>2. Given(h)' = s.given
    BY <1>7, <1>10, <2>1 DEF Given, Says
  <2> QED BY <1>3, <1>4, <1>7, <1>10, <2>1, <2>2
<1> QED BY <1>9, <1>10

\* A window that goes, and what it housed: its own entry in its table too.
LEMMA DestroyWindowKeeps == WindowInv /\ DestroyWindow => WindowInv'
<1> SUFFICES ASSUME WindowInv, DestroyWindow PROVE WindowInv'
  OBVIOUS
<1>1. PICK h \in Alive :
        win[h].host # "dialog" /\ win' = Dead(Family(h)) /\ wins' = Forget(wins, h)
  BY DEF DestroyWindow
<1>2. /\ UNCHANGED <<dlgs, pending, dlgPending, creating, stopped, saved, awaits, strayed, refused>>
      /\ WindowTypes /\ ~awaits /\ h \in Hwnds
  BY DEF DestroyWindow, WindowInv, Quiet, Alive
<1>3. /\ win' \in [Hwnds -> WindowType]
      /\ \A g \in Hwnds : /\ win'[g].host = win[g].host /\ win'[g].meant = win[g].meant
                          /\ win'[g].alive => win[g].alive
  BY <1>1, <1>2, DeadKeep
<1>4. ~win'[h].alive
  <2>1. h \in Family(h)
    BY <1>2 DEF Family
  <2> QED BY <1>1, <1>2, <2>1 DEF Dead, WindowTypes
<1>5. /\ IsTable(wins') /\ ~Has(wins', h)
      /\ \A g \in Hwnds : g # h => (Has(wins', g) <=> Has(wins, g)) /\ ProcOf(wins', g) = ProcOf(wins, g)
  BY <1>1, <1>2, ForgetSays DEF WindowTypes
<1>6. WindowTypes'
  BY <1>2, <1>3, <1>5 DEF WindowTypes, WindowType
<1>7. /\ \A g \in Hwnds : win'[g].host # "bridge" => ~Has(wins', g)
      /\ \A g \in Hwnds : win'[g].host # "dialog" => ~Has(dlgs', g)
      /\ \A g \in Hwnds : HostRight(g)'
  BY <1>2, <1>3, <1>5 DEF WindowInv, HostRight
<1>8. ASSUME ~refused', NEW g \in Hwnds PROVE BridgeRight(g)' /\ DialogRight(g)'
  <2>1. BridgeRight(g) /\ DialogRight(g) /\ ~Waits(g)
    BY <1>2, <1>8 DEF WindowInv, Waits
  <2> QED BY <1>2, <1>3, <1>4, <1>5, <2>1 DEF BridgeRight, DialogRight, Says
<1> QED BY <1>2, <1>6, <1>7, <1>8 DEF WindowInv

LEMMA EndDialogKeeps == WindowInv /\ EndDialog => WindowInv'
<1> SUFFICES ASSUME WindowInv, EndDialog PROVE WindowInv'
  OBVIOUS
<1>1. PICK h \in Alive :
        /\ win[h].host = "dialog" /\ win' = Dead(Family(h))
        /\ dlgs' = IF ProcOf(dlgs, h) # NoProc THEN Forget(dlgs, h) ELSE dlgs
  BY DEF EndDialog
<1>2. /\ UNCHANGED <<wins, pending, dlgPending, creating, stopped, saved, awaits, strayed, refused>>
      /\ WindowTypes /\ ~awaits /\ h \in Hwnds
  BY DEF EndDialog, WindowInv, Quiet, Alive
<1>3. /\ win' \in [Hwnds -> WindowType]
      /\ \A g \in Hwnds : /\ win'[g].host = win[g].host /\ win'[g].meant = win[g].meant
                          /\ win'[g].alive => win[g].alive
  BY <1>1, <1>2, DeadKeep
<1>4. ~win'[h].alive
  <2>1. h \in Family(h)
    BY <1>2 DEF Family
  <2> QED BY <1>1, <1>2, <2>1 DEF Dead, WindowTypes
<1>5. /\ IsTable(dlgs')
      /\ \A g \in Hwnds : g # h => (Has(dlgs', g) <=> Has(dlgs, g)) /\ ProcOf(dlgs', g) = ProcOf(dlgs, g)
  <2>1. IsTable(dlgs)
    BY <1>2 DEF WindowTypes
  <2>2. CASE dlgs' = Forget(dlgs, h)
    BY <1>2, <2>1, <2>2, ForgetSays
  <2>3. CASE dlgs' = dlgs
    BY <2>1, <2>3
  <2> QED BY <1>1, <2>2, <2>3
<1>6. WindowTypes'
  BY <1>2, <1>3, <1>5 DEF WindowTypes, WindowType
<1>7. /\ \A g \in Hwnds : win'[g].host # "bridge" => ~Has(wins', g)
      /\ \A g \in Hwnds : win'[g].host # "dialog" => ~Has(dlgs', g)
      /\ \A g \in Hwnds : HostRight(g)'
  BY <1>1, <1>2, <1>3, <1>5 DEF WindowInv, HostRight
<1>8. ASSUME ~refused', NEW g \in Hwnds PROVE BridgeRight(g)' /\ DialogRight(g)'
  <2>1. BridgeRight(g) /\ DialogRight(g) /\ ~Waits(g)
    BY <1>2, <1>8 DEF WindowInv, Waits
  <2> QED BY <1>2, <1>3, <1>4, <1>5, <2>1 DEF BridgeRight, DialogRight, Says
<1> QED BY <1>2, <1>6, <1>7, <1>8 DEF WindowInv

LEMMA NothingElse ==
  ASSUME WindowInv, UNCHANGED <<win, wins, dlgs, pending, dlgPending, creating, saved, awaits, strayed, refused>>,
         stopped' \in BOOLEAN
  PROVE  WindowInv'
<1>1. WindowTypes'
  BY DEF WindowInv, WindowTypes
<1>2. \A g \in Hwnds : (BridgeRight(g) => BridgeRight(g)') /\ (DialogRight(g) => DialogRight(g)')
                       /\ (HostRight(g) => HostRight(g)')
  BY DEF BridgeRight, DialogRight, HostRight, Waits
<1> QED BY <1>1, <1>2 DEF WindowInv

LEMMA WindowStepKeeps == WindowInv /\ [WindowStep]_winVars => WindowInv'
<1> SUFFICES ASSUME WindowInv, [WindowStep]_winVars PROVE WindowInv'
  OBVIOUS
<1>1. CASE UNCHANGED winVars
  <2>1. stopped' \in BOOLEAN
    BY <1>1 DEF winVars, WindowInv, WindowTypes
  <2> QED BY <1>1, <2>1, NothingElse DEF winVars
<1>2. CASE Stop
  BY <1>2, NothingElse DEF Stop
<1> QED BY <1>1, <1>2, CreateWindowKeeps, CreateControlKeeps, CreateDialogKeeps, CreatedKeeps,
           MessageKeeps, DialogMessageKeeps, SubclassKeeps, UnsubclassKeeps, DestroyWindowKeeps,
           EndDialogKeeps DEF WindowStep

\* Only what gives something back has less to give back.
LEMMA OnlyUnsubclassShrinks ==
  ASSUME WindowInv, WindowStep, NEW h \in Hwnds, Len(saved'[h]) < Len(saved[h])
  PROVE  Unsubclass
<1>1. saved[h] \in Seq(Saved) /\ Len(saved[h]) \in Nat
  BY DEF WindowInv, WindowTypes
<1>2. saved' # saved
  BY <1>1
<1>3. ~Subclass
  <2> SUFFICES ASSUME Subclass PROVE FALSE
    OBVIOUS
  <2>1. PICK g \in Alive : \E s : saved' = [saved EXCEPT ![g] = Append(@, s)]
    BY DEF Subclass
  <2>2. PICK s : saved' = [saved EXCEPT ![g] = Append(@, s)]
    BY <2>1
  <2>3. saved'[h] = saved[h] \/ saved'[h] = Append(saved[h], s)
    BY <2>2 DEF WindowInv, WindowTypes
  <2>4. Len(Append(saved[h], s)) = Len(saved[h]) + 1
    BY <1>1
  <2> QED BY <1>1, <2>3, <2>4
<1> QED BY <1>2, <1>3 DEF WindowStep, CreateWindow, CreateControl, CreateDialog, Created, Message,
           DialogMessage, DestroyWindow, EndDialog, Stop

\* A message runs the procedure the guest means for its window, as long as every
\* procedure found a place, and what a subclassing replaced comes back with its
\* undoing (winproc.c, dlg.c; u_CreateWindow and u_SetWindowLong of api_user.c),
\* for any windows, tables of any size, and creations nested to any depth.
THEOREM ProcsAlwaysRight == WindowSpecification => ProcsRight
<1>1. WindowInv => RightProc
  BY DEF WindowInv, WindowTypes, RightProc
<1>2. WindowInv /\ [WindowStep]_winVars =>
        [ \A h \in Hwnds :
            Len(saved'[h]) < Len(saved[h]) /\ win'[h].alive /\ ~refused' =>
               /\ win'[h].host = Last(saved[h]).host
               /\ Given(h)' = Last(saved[h]).given ]_winVars
  BY OnlyUnsubclassShrinks, UnsubclassRestores
<1> QED BY <1>1, <1>2, WindowsBegin, WindowStepKeeps, PTL DEF WindowSpecification, ProcsRight, RestoresWhatWas

-----------------------------------------------------------------------------
(* Resources: what a handle stands for.                                     *)

ResourcesSpecification == ResourcesInit /\ [][ResourcesNext]_resVars

Keys == {Key(type, name) : type \in Types, name \in Asked}
Found == [used : {TRUE}, key : Keys, hglobal : Blocks \cup {0}, usage : Int]
Inside(key) == Table[InTable(key)].inside
Holds(h, b) == rsrc[h].used /\ rsrc[h].hglobal = b

ResTypes ==
    /\ rsrc \in [Slots -> {FreeSlot} \cup Found] /\ loads \in [Slots -> Nat]
    /\ Live \subseteq Blocks /\ copies \subseteq Live

\* A slot nobody found has no loads; a block is held by one slot at most, and
\* is one the heap gave it; what is held and not a copy is held by a slot.
OneHolder ==
    /\ \A h \in Slots : ~rsrc[h].used => loads[h] = 0
    /\ \A i, j \in Slots : rsrc[i].used /\ rsrc[j].used /\ rsrc[i].key = rsrc[j].key => i = j
    /\ \A h \in Slots, b \in Blocks : Holds(h, b) => b \in Live \ copies
    /\ \A i, j \in Slots, b \in Blocks : Holds(i, b) /\ Holds(j, b) => i = j
    /\ \A b \in Live \ copies : \E h \in Slots : Holds(h, b)

\* The uses counted are the loads, as long as there is a block.  A count below
\* 0 is of a slot without one: the next load begins it anew.
Counted(h) ==
    IF rsrc[h].hglobal = 0 THEN loads[h] = 0
    ELSE /\ loads[h] > 0 /\ rsrc[h].usage = loads[h]
         /\ contents[rsrc[h].hglobal] = rsrc[h].key

ResInv == /\ ResTypes /\ OneHolder
          /\ \A h \in Slots : rsrc[h].used /\ Inside(rsrc[h].key) => Counted(h)

\* What a slot may be, and that a number of a block is no slot's emptiness.
LEMMA SlotFacts ==
  ASSUME ResTypes, NEW h \in Slots
  PROVE  /\ 0 \notin Blocks
         /\ rsrc[h].used \in BOOLEAN
         /\ rsrc[h].used => /\ rsrc[h] \in Found /\ rsrc[h].key \in Keys
                            /\ rsrc[h].hglobal \in Blocks \cup {0} /\ rsrc[h].usage \in Int
         /\ ~rsrc[h].used => rsrc[h] = FreeSlot
         /\ loads[h] \in Nat
<1>1. rsrc[h] = FreeSlot \/ rsrc[h] \in Found
  BY DEF ResTypes
<1>2. loads[h] \in Nat /\ 0 \notin Blocks
  BY ResourceAssumption DEF ResTypes
<1>3. FreeSlot.used = FALSE
  BY DEF FreeSlot
<1>4. \A r \in Found : r.used = TRUE /\ r.key \in Keys /\ r.hglobal \in Blocks \cup {0} /\ r.usage \in Int
  BY DEF Found
<1> QED BY <1>1, <1>2, <1>3, <1>4

LEMMA ResourcesBegin == ResourcesInit => ResInv
<1> SUFFICES ASSUME ResourcesInit PROVE ResInv
  OBVIOUS
<1>1. /\ \A h \in Slots : rsrc[h] = FreeSlot /\ loads[h] = 0
      /\ rsrc \in [Slots -> {FreeSlot} \cup Found] /\ loads \in [Slots -> Nat]
      /\ Live = {} /\ copies = {}
  BY DEF ResourcesInit, Live
<1>2. \A h \in Slots : rsrc[h].used = FALSE
  BY <1>1 DEF FreeSlot
<1> QED BY <1>1, <1>2 DEF ResInv, ResTypes, OneHolder, Holds

LEMMA FoundFirst ==
  ASSUME NEW S \in SUBSET Slots, S # {}
  PROVE  LET i == CHOOSE i \in S : \A j \in S : i <= j IN i \in S
<1>1. S \in SUBSET Nat
  <2>1. MAX_RES \in Nat
    BY ResourceAssumption
  <2>2. \A x \in Slots : x \in Nat
    BY <2>1 DEF Slots
  <2> QED BY <2>2
<1>2. \E x \in S : \A y \in S : x <= y
  BY <1>1, LeastOf
<1> QED BY <1>2

\* The slot for a resource is the one it has; else one that is free.
LEMMA SlotFor ==
  ASSUME ResTypes, NEW key, FindSlot(key) # 0
  PROVE  /\ FindSlot(key) \in Slots
         /\ rsrc[FindSlot(key)].used \/ \A i \in Slots : ~(rsrc[i].used /\ rsrc[i].key = key)
<1> DEFINE same == {i \in Slots : rsrc[i].used /\ rsrc[i].key = key}
           free == {i \in Slots : ~rsrc[i].used}
           L(S) == CHOOSE i \in S : \A j \in S : i <= j
<1>1. FindSlot(key) = IF same # {} THEN L(same) ELSE IF free # {} THEN L(free) ELSE 0
  BY DEF FindSlot
<1>2. same \in SUBSET Slots /\ free \in SUBSET Slots
  OBVIOUS
<1>3. (same # {} => L(same) \in same) /\ (free # {} => L(free) \in free)
  BY <1>2, FoundFirst
<1> QED BY <1>1, <1>3

LEMMA FindKeeps ==
  ASSUME ResInv, NEW type \in Types, NEW name \in Asked, FindResource(type, name)
  PROVE  ResInv'
<1> DEFINE key == Key(type, name)
           h == FindSlot(key)
           new == [used |-> TRUE, key |-> key, hglobal |-> 0, usage |-> 0]
<1>1. /\ h # 0 /\ UNCHANGED <<contents, loads, copies>>
      /\ rsrc' = IF rsrc[h].used THEN rsrc ELSE [rsrc EXCEPT ![h] = new]
  BY DEF FindResource
<1>2. h \in Slots /\ (rsrc[h].used \/ \A i \in Slots : ~(rsrc[i].used /\ rsrc[i].key = key))
  BY <1>1, SlotFor DEF ResInv
<1>3. CASE rsrc[h].used
  BY <1>1, <1>3 DEF ResInv, ResTypes, OneHolder, Holds, Counted, Live
<1>4. CASE ~rsrc[h].used
  <2>1. new \in Found /\ new.used /\ new.key = key /\ new.hglobal = 0
    BY DEF Found, Keys
  <2> HIDE DEF new, h, key
  <2>2. /\ rsrc' \in [Slots -> {FreeSlot} \cup Found] /\ rsrc'[h] = new
        /\ \A i \in Slots : i # h => rsrc'[i] = rsrc[i]
    BY <1>1, <1>2, <1>4, <2>1 DEF ResInv, ResTypes
  <2>3. Live' = Live /\ ResTypes'
    BY <1>1, <2>2 DEF ResInv, ResTypes, Live
  <2>4. \A i \in Slots, b \in Blocks : (Holds(i, b))' <=> Holds(i, b)
    BY <1>4, <2>1, <2>2, ResourceAssumption DEF Holds
  <2>5. OneHolder'
    BY <1>1, <1>2, <1>4, <2>1, <2>2, <2>3, <2>4 DEF ResInv, OneHolder, ResTypes
  <2>6. ASSUME NEW i \in Slots, rsrc'[i].used, Inside(rsrc'[i].key) PROVE Counted(i)'
    BY <1>1, <1>4, <2>1, <2>2, <2>6 DEF ResInv, OneHolder, Counted
  <2> QED BY <2>3, <2>5, <2>6 DEF ResInv, Inside
<1> QED BY <1>3, <1>4

\* A slot given another block and another count, and what it is then.
SlotWith(h, b, u) == [rsrc EXCEPT ![h].hglobal = b, ![h].usage = u]
SlotHas(r, h, b, u) ==
    /\ r \in [Slots -> {FreeSlot} \cup Found]
    /\ r[h].used /\ r[h].key = rsrc[h].key /\ r[h].hglobal = b /\ r[h].usage = u
    /\ \A i \in Slots : i # h => r[i] = rsrc[i]

LEMMA SlotWithHas ==
  ASSUME ResTypes, NEW h \in Slots, rsrc[h].used, NEW b \in Blocks \cup {0}, NEW u \in Int
  PROVE  SlotHas(SlotWith(h, b, u), h, b, u)
<1>1. rsrc[h] \in Found
  BY SlotFacts
<1> QED BY <1>1 DEF ResTypes, Found, SlotHas, SlotWith

\* A slot counted on while the blocks stay as they are, but for new ones.
LEMMA LoadKeeps == ASSUME ResInv, NEW h \in Slots, LoadResource(h) PROVE ResInv'
<1>1. /\ ResTypes /\ rsrc[h].used /\ rsrc[h] \in Found /\ loads[h] \in Nat /\ 0 \notin Blocks
      /\ rsrc[h].usage \in Int /\ rsrc[h].hglobal \in Blocks \cup {0}
  BY SlotFacts DEF ResInv, LoadResource
<1>3. CASE LoadAgain(h)
  <2>1. rsrc' = SlotWith(h, rsrc[h].hglobal, rsrc[h].usage + 1)
    BY <1>1, <1>3 DEF LoadAgain, ResTypes, Found, SlotWith
  <2>2. /\ loads' \in [Slots -> Nat] /\ loads'[h] = loads[h] + 1
        /\ \A i \in Slots : i # h => loads'[i] = loads[i]
        /\ UNCHANGED <<contents, copies>> /\ rsrc[h].hglobal # 0
    BY <1>1, <1>3 DEF LoadAgain, ResTypes
  <2>3. /\ rsrc' \in [Slots -> {FreeSlot} \cup Found]
        /\ rsrc'[h].used /\ rsrc'[h].key = rsrc[h].key /\ rsrc'[h].hglobal = rsrc[h].hglobal
        /\ rsrc'[h].usage = rsrc[h].usage + 1
        /\ \A i \in Slots : i # h => rsrc'[i] = rsrc[i]
    <3>1. rsrc[h].hglobal \in Blocks \cup {0} /\ rsrc[h].usage + 1 \in Int
      BY <1>1
    <3>2. SlotHas(rsrc', h, rsrc[h].hglobal, rsrc[h].usage + 1)
      BY <1>1, <2>1, <3>1, SlotWithHas
    <3> QED BY <3>2 DEF SlotHas
  <2>4. ResTypes' /\ Live' = Live
    BY <1>1, <2>2, <2>3 DEF ResTypes, Live
  <2>5. \A i \in Slots : /\ rsrc'[i].used = rsrc[i].used /\ rsrc'[i].key = rsrc[i].key
                        /\ rsrc'[i].hglobal = rsrc[i].hglobal
    BY <1>1, <2>3, SlotFacts
  <2>6. OneHolder'
    BY <1>1, <2>2, <2>4, <2>5 DEF ResInv, OneHolder, Holds
  <2>7. ASSUME NEW i \in Slots, rsrc'[i].used, Inside(rsrc'[i].key) PROVE Counted(i)'
    <3>1. Counted(i)
      BY <2>5, <2>7 DEF ResInv
    <3> QED BY <1>1, <2>2, <2>3, <2>5, <3>1 DEF Counted
  <2> QED BY <2>4, <2>6, <2>7 DEF ResInv, Inside
<1>4. CASE LoadFirst(h)
  <2> DEFINE in == Inside(rsrc[h].key)
             u == IF in THEN 1 ELSE rsrc[h].usage
             l == IF in THEN loads[h] + 1 ELSE loads[h]
             what == IF in THEN rsrc[h].key ELSE "zeros"
  <2>1. PICK b \in Blocks \ Live :
           /\ rsrc' = SlotWith(h, b, u) /\ contents' = WithBlock(b, what)
           /\ loads' = [loads EXCEPT ![h] = l]
    <3>1. PICK b \in Blocks \ Live :
             IF in
             THEN /\ rsrc' = [rsrc EXCEPT ![h].hglobal = b, ![h].usage = 1]
                  /\ contents' = WithBlock(b, rsrc[h].key)
                  /\ loads' = [loads EXCEPT ![h] = @ + 1]
             ELSE /\ rsrc' = [rsrc EXCEPT ![h].hglobal = b]
                  /\ contents' = WithBlock(b, "zeros")
                  /\ UNCHANGED loads
      BY <1>4 DEF LoadFirst, WithinFile, Inside
    <3>2. loads' = [loads EXCEPT ![h] = l]
      BY <1>1, <3>1 DEF ResTypes
    <3>3. rsrc' = SlotWith(h, b, u)
      BY <1>1, <3>1 DEF ResTypes, Found, SlotWith
    <3>4. contents' = WithBlock(b, what)
      BY <3>1
    <3> QED BY <3>2, <3>3, <3>4
  <2>2. /\ rsrc[h].hglobal = 0 /\ copies' = copies /\ u \in Int /\ l \in Nat
        /\ Inside(rsrc[h].key) => u = 1 /\ l = loads[h] + 1 /\ what = rsrc[h].key
    BY <1>1, <1>4 DEF LoadFirst
  <2> HIDE DEF u, l, what, in
  <2>3. /\ loads' \in [Slots -> Nat] /\ loads'[h] = l
        /\ \A i \in Slots : i # h => loads'[i] = loads[i]
        /\ Live' = Live \cup {b} /\ contents'[b] = what
        /\ \A x \in Live : contents'[x] = contents[x]
    BY <1>1, <2>1, <2>2 DEF ResTypes, WithBlock, Live
  <2>4. /\ rsrc' \in [Slots -> {FreeSlot} \cup Found]
        /\ rsrc'[h].used /\ rsrc'[h].key = rsrc[h].key /\ rsrc'[h].hglobal = b
        /\ rsrc'[h].usage = u
        /\ \A i \in Slots : i # h => rsrc'[i] = rsrc[i]
    <3>1. SlotHas(rsrc', h, b, u)
      BY <1>1, <2>1, <2>2, SlotWithHas
    <3> QED BY <3>1 DEF SlotHas
  <2>5. ResTypes'
    BY <1>1, <2>1, <2>3, <2>4, <2>2 DEF ResTypes
  <2>6. \A i \in Slots : rsrc'[i].used = rsrc[i].used /\ rsrc'[i].key = rsrc[i].key
    BY <1>1, <2>4, SlotFacts
  <2>7. \A i \in Slots, x \in Blocks : (Holds(i, x))' <=> IF i = h THEN x = b ELSE Holds(i, x)
    BY <2>4 DEF Holds
  <2>8. OneHolder'
    BY <1>1, <2>1, <2>3, <2>5, <2>6, <2>7, <2>2 DEF ResInv, OneHolder, ResTypes, Holds
  <2>9. ASSUME NEW i \in Slots, rsrc'[i].used, Inside(rsrc'[i].key) PROVE Counted(i)'
    <3>1. Counted(i)
      BY <2>6, <2>9 DEF ResInv
    <3>2. CASE i = h
      BY <1>1, <2>1, <2>3, <2>4, <2>6, <2>9, <2>2, <3>1, <3>2 DEF Counted
    <3>3. CASE i # h
      <4>1. rsrc[i].hglobal # 0 => rsrc[i].hglobal \in Live
        BY <1>1, <2>4, <2>6, <2>9, SlotFacts DEF ResInv, OneHolder, Holds
      <4> QED BY <1>1, <2>1, <2>3, <2>4, <3>1, <3>3, <4>1 DEF Counted
    <3> QED BY <3>2, <3>3
  <2> QED BY <2>5, <2>8, <2>9 DEF ResInv, Inside
<1> QED BY <1>3, <1>4 DEF LoadResource

\* FreeResource finds no slot, or one that holds the block.
FreedOf(h, b) ==
    IF rsrc[h].usage - 1 > 0
    THEN rsrc' = SlotWith(h, b, rsrc[h].usage - 1) /\ contents' = contents
    ELSE rsrc' = SlotWith(h, 0, rsrc[h].usage - 1) /\ contents' = Without(b)

LEMMA FreedSays ==
  ASSUME ResTypes, NEW b, Freed(b)
  PROVE  \/ /\ \A h \in Slots : ~Holds(h, b)
            /\ rsrc' = rsrc /\ contents' = Without(b)
         \/ \E h \in Slots : Holds(h, b) /\ FreedOf(h, b)
<1> DEFINE of == {i \in Slots : rsrc[i].used /\ rsrc[i].hglobal = b}
           h == CHOOSE i \in of : \A j \in of : i <= j
<1>1. IF of = {} THEN rsrc' = rsrc /\ contents' = Without(b)
      ELSE IF rsrc[h].usage - 1 > 0
      THEN rsrc' = [rsrc EXCEPT ![h].usage = @ - 1] /\ contents' = contents
      ELSE /\ rsrc' = [rsrc EXCEPT ![h].usage = @ - 1, ![h].hglobal = 0]
           /\ contents' = Without(b)
  BY DEF Freed
<1>2. CASE of = {}
  BY <1>1, <1>2 DEF Holds
<1>3. CASE of # {}
  <2>1. h \in of
    BY <1>3, FoundFirst
  <2>2. h \in Slots /\ Holds(h, b)
    BY <2>1 DEF Holds
  <2> HIDE DEF h, of
  <2>3. rsrc[h] \in Found /\ rsrc[h].hglobal = b
    BY <2>2, SlotFacts DEF Holds
  <2>4. CASE rsrc[h].usage - 1 > 0
    <3>1. rsrc' = [rsrc EXCEPT ![h].usage = @ - 1] /\ contents' = contents
      BY <1>1, <1>3, <2>4
    <3>2. rsrc' = SlotWith(h, b, rsrc[h].usage - 1)
      BY <2>2, <2>3, <3>1 DEF SlotWith, ResTypes, Found
    <3> QED BY <2>2, <2>4, <3>1, <3>2 DEF FreedOf
  <2>5. CASE ~(rsrc[h].usage - 1 > 0)
    <3>1. rsrc' = [rsrc EXCEPT ![h].usage = @ - 1, ![h].hglobal = 0] /\ contents' = Without(b)
      BY <1>1, <1>3, <2>5
    <3>2. rsrc' = SlotWith(h, 0, rsrc[h].usage - 1)
      BY <2>2, <2>3, <3>1 DEF SlotWith, ResTypes, Found
    <3> QED BY <2>2, <2>5, <3>1, <3>2 DEF FreedOf
  <2> QED BY <2>4, <2>5
<1> QED BY <1>2, <1>3

LEMMA WithoutIs ==
  ASSUME NEW b, contents' = Without(b)
  PROVE  Live' = Live \ {b} /\ \A x \in Live \ {b} : contents'[x] = contents[x]
BY DEF Without, Live

\* Freeing 0 changes a count, at most, of a slot that holds no block.
LEMMA NothingKeeps ==
  ASSUME ResInv, Freed(0), copies' = copies, loads' \in [Slots -> Nat],
         \A h \in Slots : \/ loads'[h] = loads[h]
                          \/ rsrc[h].used /\ ~Inside(rsrc[h].key)
  PROVE  ResInv'
<1>1. ResTypes /\ 0 \notin Blocks /\ 0 \notin Live
  BY ResourceAssumption DEF ResInv, ResTypes
<1>2. Live' = Live /\ \A x \in Live : contents'[x] = contents[x]
  BY <1>1, FreedSays, WithoutIs DEF FreedOf, Live
<1>3. /\ rsrc' \in [Slots -> {FreeSlot} \cup Found]
      /\ \A i \in Slots : /\ rsrc'[i].used = rsrc[i].used /\ rsrc'[i].key = rsrc[i].key
                          /\ rsrc'[i].hglobal = rsrc[i].hglobal
                          /\ rsrc[i].hglobal # 0 => rsrc'[i] = rsrc[i]
  <2>1. CASE rsrc' = rsrc
    BY <1>1, <2>1 DEF ResTypes
  <2>2. ASSUME NEW h \in Slots, Holds(h, 0), FreedOf(h, 0) PROVE <1>3
    <3>1. rsrc' = SlotWith(h, 0, rsrc[h].usage - 1) /\ rsrc[h].usage - 1 \in Int
          /\ rsrc[h].used /\ rsrc[h].hglobal = 0
      BY <1>1, <2>2, SlotFacts DEF FreedOf, Holds
    <3>2. SlotHas(rsrc', h, 0, rsrc[h].usage - 1)
      BY <1>1, <3>1, SlotWithHas
    <3> QED BY <1>1, <3>1, <3>2, SlotFacts DEF SlotHas
  <2> QED BY <1>1, <2>1, <2>2, FreedSays
<1>4. ResTypes'
  BY <1>1, <1>2, <1>3 DEF ResTypes
<1>5. OneHolder'
  BY <1>1, <1>2, <1>3, <1>4 DEF ResInv, OneHolder, Holds
<1>6. ASSUME NEW i \in Slots, rsrc'[i].used, Inside(rsrc'[i].key) PROVE Counted(i)'
  <2>1. Counted(i) /\ loads'[i] = loads[i] /\ rsrc[i].used
    BY <1>3, <1>6 DEF ResInv
  <2>2. rsrc[i].hglobal # 0 => rsrc[i].hglobal \in Live
    BY <1>1, <2>1, SlotFacts DEF ResInv, OneHolder, Holds
  <2> QED BY <1>2, <1>3, <2>1, <2>2 DEF Counted
<1> QED BY <1>4, <1>5, <1>6 DEF ResInv, Inside

LEMMA FreeLoadedKeeps == ASSUME ResInv, NEW h \in Slots, FreeLoaded(h) PROVE ResInv'
<1>1. /\ ResTypes /\ 0 \notin Blocks /\ loads[h] \in Nat /\ loads[h] > 0 /\ copies' = copies
      /\ loads' = [loads EXCEPT ![h] = loads[h] - 1] /\ Freed(rsrc[h].hglobal)
  BY SlotFacts DEF ResInv, FreeLoaded
<1>2. rsrc[h].used /\ rsrc[h].hglobal \in Blocks \cup {0} /\ rsrc[h].usage \in Int
  BY <1>1, SlotFacts DEF ResInv, OneHolder
<1>3. /\ loads' \in [Slots -> Nat] /\ loads'[h] = loads[h] - 1
      /\ \A i \in Slots : i # h => loads'[i] = loads[i]
  BY <1>1 DEF ResTypes
<1>4. CASE rsrc[h].hglobal = 0
  <2>1. ~Inside(rsrc[h].key)
    BY <1>1, <1>2, <1>4 DEF ResInv, Counted
  <2> QED BY <1>1, <1>2, <1>3, <1>4, <2>1, NothingKeeps
<1>5. CASE rsrc[h].hglobal # 0
  <2> DEFINE b == rsrc[h].hglobal
             u == rsrc[h].usage - 1
             a == IF u > 0 THEN b ELSE 0
  <2>1. b \in Blocks /\ Holds(h, b) /\ b \in Live \ copies
        /\ \A i \in Slots : Holds(i, b) => i = h
    BY <1>2, <1>5 DEF ResInv, OneHolder, Holds
  <2>2. FreedOf(h, b)
    BY <1>1, <2>1, FreedSays
  <2>3. rsrc' = SlotWith(h, a, u) /\ a \in Blocks \cup {0} /\ u \in Int
    BY <1>2, <2>1, <2>2 DEF FreedOf
  <2>4. SlotHas(rsrc', h, a, u)
    BY <1>1, <1>2, <2>3, SlotWithHas
  <2>5. IF u > 0 THEN contents' = contents ELSE contents' = Without(b)
    BY <2>2 DEF FreedOf
  <2>6. /\ Live' = IF u > 0 THEN Live ELSE Live \ {b}
        /\ \A x \in Live : x # b \/ u > 0 => contents'[x] = contents[x]
    BY <2>5, WithoutIs DEF Live
  <2>7. a = IF u > 0 THEN b ELSE 0
    OBVIOUS
  <2> HIDE DEF a, u
  <2>8. ResTypes'
    BY <1>1, <1>3, <2>1, <2>4, <2>6 DEF ResTypes, SlotHas
  <2>9. \A i \in Slots : rsrc'[i].used = rsrc[i].used /\ rsrc'[i].key = rsrc[i].key
    BY <1>1, <1>2, <2>4, SlotFacts DEF SlotHas
  <2>10. \A i \in Slots, x \in Blocks : (Holds(i, x))' <=> Holds(i, x) /\ (x = b => u > 0)
    BY <1>1, <1>2, <2>1, <2>4, <2>7 DEF Holds, SlotHas
  <2>11. OneHolder'
    <3>1. /\ \A i \in Slots : ~rsrc'[i].used => loads'[i] = 0
          /\ \A i, j \in Slots : rsrc'[i].used /\ rsrc'[j].used /\ rsrc'[i].key = rsrc'[j].key => i = j
      BY <1>1, <1>2, <1>3, <2>9 DEF ResInv, OneHolder
    <3>2. /\ \A i \in Slots, x \in Blocks : (Holds(i, x))' => x \in Live' \ copies'
          /\ \A i, j \in Slots, x \in Blocks : (Holds(i, x))' /\ (Holds(j, x))' => i = j
          /\ \A x \in Live' \ copies' : \E i \in Slots : (Holds(i, x))'
      BY <1>1, <2>6, <2>10 DEF ResInv, OneHolder, ResTypes
    <3> QED BY <3>1, <3>2 DEF OneHolder
  <2>12. ASSUME NEW i \in Slots, rsrc'[i].used, Inside(rsrc'[i].key) PROVE Counted(i)'
    <3>1. Counted(i) /\ rsrc[i].used
      BY <2>9, <2>12 DEF ResInv
    <3>2. CASE i = h
      <4>1. u = rsrc[h].usage - 1 /\ rsrc[h].usage = loads[h] /\ contents[b] = rsrc[h].key
        BY <1>5, <3>1, <3>2 DEF Counted, u
      <4> QED BY <1>1, <1>3, <2>1, <2>4, <2>6, <2>7, <3>2, <4>1 DEF Counted, SlotHas
    <3>3. CASE i # h
      <4>1. rsrc'[i] = rsrc[i] /\ loads'[i] = loads[i]
        BY <1>3, <2>4, <3>3 DEF SlotHas
      <4>2. rsrc[i].hglobal # 0 => rsrc[i].hglobal \in Live /\ rsrc[i].hglobal # b
        BY <1>1, <2>1, <3>1, <3>3, SlotFacts DEF ResInv, OneHolder, Holds
      <4> QED BY <2>6, <3>1, <4>1, <4>2 DEF Counted
    <3> QED BY <3>2, <3>3
  <2> QED BY <2>8, <2>11, <2>12 DEF ResInv, Inside
<1> QED BY <1>4, <1>5

\* What holds no slot: the blocks of the guest itself.
LEMMA FreeCopyKeeps == ASSUME ResInv, NEW b \in Blocks, FreeCopy(b) PROVE ResInv'
<1>1. /\ ResTypes /\ 0 \notin Blocks /\ b \in copies /\ copies' = copies \ {b} /\ loads' = loads
      /\ Freed(b)
  BY ResourceAssumption DEF ResInv, FreeCopy
<1>2. \A i \in Slots : ~Holds(i, b)
  BY <1>1 DEF ResInv, OneHolder
<1>3. rsrc' = rsrc /\ contents' = Without(b)
  BY <1>1, <1>2, FreedSays
<1>4. Live' = Live \ {b} /\ \A x \in Live \ {b} : contents'[x] = contents[x]
  BY <1>3, WithoutIs
<1>5. ResTypes'
  BY <1>1, <1>3, <1>4 DEF ResTypes
<1>6. OneHolder'
  BY <1>1, <1>2, <1>3, <1>4 DEF ResInv, OneHolder, Holds
<1>7. ASSUME NEW i \in Slots, rsrc'[i].used, Inside(rsrc'[i].key) PROVE Counted(i)'
  <2>1. Counted(i) /\ rsrc[i].used
    BY <1>3, <1>7 DEF ResInv
  <2>2. rsrc[i].hglobal # 0 => rsrc[i].hglobal \in Live \ {b}
    BY <1>1, <1>2, <2>1, SlotFacts DEF ResInv, OneHolder, Holds
  <2> QED BY <1>1, <1>3, <1>4, <2>1, <2>2 DEF Counted
<1> QED BY <1>5, <1>6, <1>7 DEF ResInv, Inside

LEMMA AllocKeeps == ASSUME ResInv, NEW h \in Slots, AllocResource(h) PROVE ResInv'
<1>1. PICK b \in Blocks \ Live : contents' = WithBlock(b, "guest") /\ copies' = copies \cup {b}
  BY DEF AllocResource
<1>2. UNCHANGED <<rsrc, loads>> /\ ResTypes
  BY DEF AllocResource, ResInv
<1>3. Live' = Live \cup {b} /\ \A x \in Live : contents'[x] = contents[x]
  BY <1>1 DEF WithBlock, Live
<1>4. ResTypes'
  BY <1>1, <1>2, <1>3 DEF ResTypes
<1>5. OneHolder'
  BY <1>1, <1>2, <1>3 DEF ResInv, OneHolder, Holds, ResTypes
<1>6. ASSUME NEW i \in Slots, rsrc'[i].used, Inside(rsrc'[i].key) PROVE Counted(i)'
  <2>1. Counted(i) /\ rsrc[i].used
    BY <1>2, <1>6 DEF ResInv
  <2>2. rsrc[i].hglobal # 0 => rsrc[i].hglobal \in Live
    BY <1>2, <2>1, SlotFacts DEF ResInv, OneHolder, Holds
  <2> QED BY <1>2, <1>3, <2>1, <2>2 DEF Counted
<1> QED BY <1>4, <1>5, <1>6 DEF ResInv, Inside

LEMMA ResourcesKeep == ResInv /\ [ResourcesNext]_resVars => ResInv'
<1> SUFFICES ASSUME ResInv, [ResourcesNext]_resVars PROVE ResInv'
  OBVIOUS
<1>1. CASE UNCHANGED resVars
  BY <1>1 DEF resVars, ResInv, ResTypes, OneHolder, Holds, Counted, Inside, Live
<1>2. CASE FreeNothing
  BY <1>2, NothingKeeps DEF FreeNothing, ResInv, ResTypes
<1> QED
  BY <1>1, <1>2, FindKeeps, LoadKeeps, FreeLoadedKeeps, FreeCopyKeeps, AllocKeeps DEF ResourcesNext

LEMMA HeldIs == ResInv => ResourcesHeld
<1> SUFFICES ASSUME ResInv PROVE ResourcesHeld
  OBVIOUS
<1>1. ASSUME NEW h \in Slots, rsrc[h].used, WithinFile(h)
      PROVE  /\ loads[h] > 0 => rsrc[h].usage = loads[h]
             /\ loads[h] > 0 <=> rsrc[h].hglobal # 0
             /\ loads[h] > 0 => /\ rsrc[h].hglobal \in Live \ copies
                                /\ contents[rsrc[h].hglobal] = rsrc[h].key
  <2>1. Counted(h)
    BY <1>1 DEF ResInv, WithinFile, Inside
  <2>2. rsrc[h].hglobal # 0 => rsrc[h].hglobal \in Live \ copies
    BY <1>1, SlotFacts DEF ResInv, OneHolder, Holds
  <2> QED BY <2>1, <2>2 DEF Counted
<1>2. /\ \A i, j \in Slots : rsrc[i].used /\ rsrc[j].used /\ rsrc[i].key = rsrc[j].key => i = j
      /\ \A b \in Live \ copies : \E h \in Slots : rsrc[h].used /\ rsrc[h].hglobal = b
      /\ copies \subseteq Live
  BY DEF ResInv, OneHolder, ResTypes, Holds
<1> QED BY <1>1, <1>2 DEF ResourcesHeld

\* api_res.c:256: however many times it is found, loaded and freed, a resource
\* has one handle and its own block, exactly as long as it has loads to free.
THEOREM ResourcesAlwaysHeld == ResourcesSpecification => []ResourcesHeld
<1> QED BY ResourcesBegin, ResourcesKeep, HeldIs, PTL DEF ResourcesSpecification
=============================================================================
