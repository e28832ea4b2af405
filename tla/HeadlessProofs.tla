---------------------------- MODULE HeadlessProofs ----------------------------
(***************************************************************************)
(* What the library's window system and its mixer keep to, for every size   *)
(* of their tables: the array of posted messages is a queue, a list box and *)
(* its data keep step, a handle is not another object's, the mixer plays    *)
(* from no memory that is gone, and the windows are a tree of what is       *)
(* there, told of its life in order.                                        *)
(***************************************************************************)
EXTENDS HeadlessWindows, HeadlessObjects, Mixer, SequenceTheorems,
        FiniteSetTheorems, WellFoundedInduction, TLAPS

-----------------------------------------------------------------------------
(* The queue of posted messages.                                            *)

QueueSpecification == EmptyQueue /\ [][QueueStep]_queueVars

\* Where the array and the two numbers that make it round are.
QueueShape ==
    /\ queue \in [0 .. QLEN - 1 -> Messages \cup {NoMessage}]
    /\ qhead \in 0 .. QLEN - 1
    /\ qcount \in 0 .. QLEN
    /\ quit_posted \in BOOLEAN

\* The remainder, for what goes round at most once.
LEMMA OnceRound ==
    ASSUME NEW n \in Nat \ {0}, NEW x \in 0 .. 2 * n - 1
    PROVE  x % n = IF x < n THEN x ELSE x - n
<1>1. CASE x < n
  BY <1>1
<1>2. CASE x >= n
  <2>1. x = n * 1 + (x - n) /\ x - n \in 0 .. n - 1
    BY <1>2
  <2> QED BY <2>1, <1>2
<1> QED BY <1>1, <1>2

PlacesAreThere ==
    \A k \in 0 .. QLEN :
        /\ Place(k) \in 0 .. QLEN - 1
        /\ Place(k) = IF qhead + k < QLEN THEN qhead + k ELSE qhead + k - QLEN

LEMMA PlaceIsPlace == QueueShape => PlacesAreThere
<1> SUFFICES ASSUME QueueShape, NEW k \in 0 .. QLEN
             PROVE  /\ Place(k) \in 0 .. QLEN - 1
                    /\ Place(k) = IF qhead + k < QLEN THEN qhead + k ELSE qhead + k - QLEN
  BY DEF PlacesAreThere
<1>1. QLEN \in Nat \ {0} /\ qhead \in 0 .. QLEN - 1 /\ qhead + k \in 0 .. 2 * QLEN - 1
  BY QueueConstants DEF QueueShape
<1>2. (qhead + k) % QLEN = IF qhead + k < QLEN THEN qhead + k ELSE qhead + k - QLEN
  <2>1. \A x \in 0 .. 2 * QLEN - 1 : x % QLEN = IF x < QLEN THEN x ELSE x - QLEN
    BY <1>1, OnceRound
  <2> QED BY <1>1, <2>1
<1> QED BY <1>1, <1>2 DEF Place

\* What waits is a sequence as long as the count says.
WaitingIsThere ==
    /\ Waiting \in Seq(Messages \cup {NoMessage})
    /\ Len(Waiting) = qcount
    /\ \A k \in 1 .. qcount : Waiting[k] = queue[Place(k - 1)]

LEMMA WaitingIsSeq == QueueShape => WaitingIsThere
<1> SUFFICES ASSUME QueueShape PROVE WaitingIsThere
  OBVIOUS
<1>1. \A k \in 1 .. qcount : queue[Place(k - 1)] \in Messages \cup {NoMessage}
  BY PlaceIsPlace, QueueConstants DEF QueueShape, PlacesAreThere
<1>2. qcount \in Nat
  BY QueueConstants DEF QueueShape
<1> QED BY <1>1, <1>2 DEF Waiting, WaitingIsThere

LEMMA QueueBegins == EmptyQueue => QueueShape /\ Queue!Init
<1> SUFFICES ASSUME EmptyQueue PROVE QueueShape /\ Queue!Init
  OBVIOUS
<1>1. QueueShape
  <2>1. queue \in [0 .. QLEN - 1 -> Messages \cup {NoMessage}]
    BY DEF EmptyQueue
  <2>2. qhead \in 0 .. QLEN - 1 /\ qcount \in 0 .. QLEN
    BY QueueConstants DEF EmptyQueue
  <2>3. quit_posted \in BOOLEAN
    BY DEF EmptyQueue
  <2> QED BY <2>1, <2>2, <2>3 DEF QueueShape
<1>2. Waiting = << >>
  BY <1>1, WaitingIsSeq, EmptySeq DEF EmptyQueue, WaitingIsThere
<1> QED BY <1>1, <1>2 DEF EmptyQueue, Queue!Init

LEMMA QueueStaysShaped == QueueShape /\ [QueueStep]_queueVars => QueueShape'
<1> SUFFICES ASSUME QueueShape, [QueueStep]_queueVars PROVE QueueShape'
  OBVIOUS
<1> USE QueueConstants
<1>1. ASSUME NEW m \in Messages, PostMessage(m) PROVE QueueShape'
  <2>1. Place(qcount) \in 0 .. QLEN - 1
    BY PlaceIsPlace DEF QueueShape, PlacesAreThere
  <2> QED BY <1>1, <2>1 DEF PostMessage, QueueShape
<1>2. CASE PostQuitMessage
  BY <1>2 DEF PostQuitMessage, QueueShape
<1>3. CASE TakeMessage
  <2>1. Place(1) \in 0 .. QLEN - 1
    BY PlaceIsPlace DEF QueueShape, PlacesAreThere
  <2> QED BY <1>3, <2>1 DEF TakeMessage, QueueShape
<1>4. CASE TakeQuit
  BY <1>4 DEF TakeQuit, QueueShape
<1>5. CASE ResetQueue
  <2>1. queue' \in [0 .. QLEN - 1 -> Messages \cup {NoMessage}]
    BY <1>5 DEF ResetQueue
  <2>2. qhead' \in 0 .. QLEN - 1 /\ qcount' \in 0 .. QLEN
    BY <1>5 DEF ResetQueue
  <2>3. quit_posted' \in BOOLEAN
    BY <1>5 DEF ResetQueue
  <2> QED BY <2>1, <2>2, <2>3 DEF QueueShape
<1>6. CASE UNCHANGED queueVars
  BY <1>6 DEF queueVars, QueueShape
<1> QED BY <1>1, <1>2, <1>3, <1>4, <1>5, <1>6 DEF QueueStep

\* A message goes behind those that wait and none of them moves.
LEMMA PostIsPost ==
    ASSUME QueueShape, QueueShape', NEW m \in Messages, PostMessage(m)
    PROVE  Queue!Post(m)
<1> USE QueueConstants
<1> DEFINE M == Messages \cup {NoMessage}
<1>1. /\ Waiting \in Seq(M) /\ Len(Waiting) = qcount /\ qcount \in Nat
      /\ \A k \in 1 .. qcount : Waiting[k] = queue[Place(k - 1)]
  BY WaitingIsSeq DEF QueueShape, WaitingIsThere
<1>2. /\ Waiting' \in Seq(M) /\ Len(Waiting') = qcount + 1
      /\ \A k \in 1 .. qcount + 1 : Waiting'[k] = queue'[Place(k - 1)]
  <2>1. /\ Waiting' \in Seq(M) /\ Len(Waiting') = qcount'
        /\ \A k \in 1 .. qcount' : Waiting'[k] = queue'[Place(k - 1)']
    <3>1. WaitingIsThere'
      BY WaitingIsSeq, PTL
    <3> QED BY <3>1 DEF WaitingIsThere
  <2>2. qcount' = qcount + 1 /\ qhead' = qhead
    BY DEF PostMessage
  <2> QED BY <2>1, <2>2 DEF Place
<1>p. PlacesAreThere /\ qcount \in 0 .. QLEN - 1 /\ qhead \in 0 .. QLEN - 1
  BY PlaceIsPlace DEF QueueShape, PostMessage
<1>3. \A k \in 1 .. qcount : Place(k - 1) # Place(qcount)
  <2> SUFFICES ASSUME NEW k \in 1 .. qcount PROVE Place(k - 1) # Place(qcount)
    OBVIOUS
  <2>1. k - 1 \in 0 .. QLEN /\ qcount \in 0 .. QLEN
    BY <1>p
  <2> QED BY <1>p, <2>1 DEF PlacesAreThere
<1>4. \A k \in 1 .. qcount : Place(k - 1) \in 0 .. QLEN - 1
  BY <1>p DEF PlacesAreThere
<1>5. Place(qcount) \in 0 .. QLEN - 1
  BY <1>p DEF PlacesAreThere
<1>6. \A k \in 1 .. qcount + 1 :
         Waiting'[k] = IF k = qcount + 1 THEN m ELSE Waiting[k]
  BY <1>1, <1>2, <1>3, <1>4, <1>5 DEF PostMessage, QueueShape
<1>7. Waiting' = Append(Waiting, m)
  <2>1. /\ Append(Waiting, m) \in Seq(M) /\ Len(Append(Waiting, m)) = qcount + 1
        /\ \A k \in 1 .. qcount : Append(Waiting, m)[k] = Waiting[k]
        /\ Append(Waiting, m)[qcount + 1] = m
    BY <1>1, AppendProperties
  <2>2. \A k \in 1 .. Len(Waiting') : Waiting'[k] = Append(Waiting, m)[k]
    BY <1>1, <1>2, <1>6, <2>1
  <2> QED BY <1>2, <2>1, <2>2, SeqEqual
<1> QED BY <1>1, <1>7 DEF PostMessage, Queue!Post

\* The oldest goes, and the rest are where they were.
LEMMA TakeIsTake ==
    ASSUME QueueShape, QueueShape', TakeMessage PROVE Queue!Take
<1> USE QueueConstants
<1> DEFINE M == Messages \cup {NoMessage}
<1>1. /\ Waiting \in Seq(M) /\ Len(Waiting) = qcount /\ qcount \in Nat \ {0}
      /\ \A k \in 1 .. qcount : Waiting[k] = queue[Place(k - 1)]
  BY WaitingIsSeq DEF QueueShape, WaitingIsThere, TakeMessage
<1>2. /\ Waiting' \in Seq(M) /\ Len(Waiting') = qcount - 1
      /\ \A k \in 1 .. qcount - 1 : Waiting'[k] = queue[Place(k - 1)']
  <2>1. /\ Waiting' \in Seq(M) /\ Len(Waiting') = qcount'
        /\ \A k \in 1 .. qcount' : Waiting'[k] = queue'[Place(k - 1)']
    <3>1. WaitingIsThere'
      BY WaitingIsSeq, PTL
    <3> QED BY <3>1 DEF WaitingIsThere
  <2> QED BY <2>1 DEF TakeMessage
<1>3. \A k \in 1 .. qcount - 1 : Place(k - 1)' = Place(k)
  <2>1. \A k \in 0 .. QLEN :
           Place(k)' = IF qhead' + k < QLEN THEN qhead' + k ELSE qhead' + k - QLEN
    <3>1. PlacesAreThere'
      BY PlaceIsPlace, PTL
    <3> QED BY <3>1 DEF PlacesAreThere
  <2>2. PlacesAreThere
    BY PlaceIsPlace
  <2>3. qhead' = IF qhead + 1 < QLEN THEN qhead + 1 ELSE qhead + 1 - QLEN
    BY <2>2 DEF TakeMessage, PlacesAreThere
  <2> SUFFICES ASSUME NEW k \in 1 .. qcount - 1 PROVE Place(k - 1)' = Place(k)
    OBVIOUS
  <2>4. Place(k - 1)' = IF qhead' + (k - 1) < QLEN THEN qhead' + (k - 1)
                                               ELSE qhead' + (k - 1) - QLEN
    <3>1. k - 1 \in 0 .. QLEN
      BY DEF QueueShape
    <3> QED BY <2>1, <3>1
  <2>5. Place(k) = IF qhead + k < QLEN THEN qhead + k ELSE qhead + k - QLEN
    BY <2>2, SMTT(60) DEF QueueShape, PlacesAreThere
  <2> QED BY <2>3, <2>4, <2>5 DEF QueueShape
<1>4. Waiting # << >>
  BY <1>1, EmptySeq
<1>5. Waiting' = Tail(Waiting)
  <2>1. /\ Tail(Waiting) \in Seq(M) /\ Len(Tail(Waiting)) = qcount - 1
        /\ \A k \in 1 .. qcount - 1 : Tail(Waiting)[k] = Waiting[k + 1]
    BY <1>1, <1>4, HeadTailProperties
  <2>2. \A k \in 1 .. qcount - 1 : Waiting[k + 1] = queue[Place(k)]
    BY <1>1
  <2>3. \A k \in 1 .. qcount - 1 : Waiting'[k] = queue[Place(k)]
    BY <1>2, <1>3, Zenon
  <2>4. \A k \in 1 .. Len(Waiting') : Waiting'[k] = Tail(Waiting)[k]
    BY <1>2, <2>1, <2>2, <2>3
  <2> QED BY <1>2, <2>1, <2>4, SeqEqual
<1> QED BY <1>4, <1>5 DEF TakeMessage, Queue!Take

\* Every step of the array is a step of a queue, or none at all.
LEMMA QueueStepIsNext ==
    QueueShape /\ QueueShape' /\ [QueueStep]_queueVars
        => [Queue!Next]_<<Waiting, quit_posted>>
<1> SUFFICES ASSUME QueueShape, QueueShape', [QueueStep]_queueVars
             PROVE  [Queue!Next]_<<Waiting, quit_posted>>
  OBVIOUS
<1>w. ASSUME UNCHANGED <<queue, qhead, qcount>> PROVE Waiting' = Waiting
  BY <1>w DEF Waiting, Place
<1>1. ASSUME NEW m \in Messages, PostMessage(m) PROVE Queue!Next
  BY <1>1, PostIsPost DEF Queue!Next
<1>2. CASE PostQuitMessage
  BY <1>2, <1>w DEF PostQuitMessage, Queue!AskToQuit, Queue!Next
<1>3. CASE TakeMessage
  BY <1>3, TakeIsTake DEF Queue!Next
<1>4. CASE TakeQuit
  <2>1. Waiting = << >>
    BY <1>4, WaitingIsSeq, EmptySeq DEF TakeQuit, QuitIsNext, WaitingIsThere
  <2> QED BY <1>4, <1>w, <2>1 DEF TakeQuit, QuitIsNext, Queue!TakeQuit, Queue!Next
<1>5. CASE ResetQueue
  <2>1. Len(Waiting') = 0 /\ Waiting' \in Seq(Messages \cup {NoMessage})
    <3>1. WaitingIsThere'
      BY WaitingIsSeq, PTL
    <3> QED BY <1>5, <3>1 DEF ResetQueue, WaitingIsThere
  <2>2. Waiting' = << >>
    BY <2>1, EmptySeq
  <2> QED BY <1>5, <2>2 DEF ResetQueue, Queue!Empty, Queue!Next
<1>6. CASE UNCHANGED queueVars
  BY <1>6, <1>w DEF queueVars
<1> QED BY <1>1, <1>2, <1>3, <1>4, <1>5, <1>6 DEF QueueStep

\* u_PostMessage and next_msg (headless.c): whatever is posted while the place
\* of the oldest comes round the array, messages come out in the order they
\* went in, and the word to quit only behind them all.
THEOREM QueueAlwaysInOrder == QueueSpecification => QueueInOrder
<1>1. EmptyQueue => QueueShape /\ Queue!Init
  BY QueueBegins
<1>2. QueueShape /\ [QueueStep]_queueVars => QueueShape'
  BY QueueStaysShaped
<1>3. QueueShape /\ QueueShape' /\ [QueueStep]_queueVars
        => [Queue!Next]_<<Waiting, quit_posted>>
  BY QueueStepIsNext
<1> QED BY <1>1, <1>2, <1>3, PTL DEF QueueSpecification, QueueInOrder, Queue!Spec

-----------------------------------------------------------------------------
(* The items of a list.                                                     *)

ListSpecification == ListInit /\ [][ListStep]_listVars

\* What InsertAt and RemoveAt do to a sequence.
LEMMA InsertAtShifts ==
    ASSUME NEW S, NEW s \in Seq(S), NEW i \in 1 .. Len(s) + 1, NEW e \in S
    PROVE  /\ InsertAt(s, i, e) \in Seq(S)
           /\ Len(InsertAt(s, i, e)) = Len(s) + 1
           /\ \A k \in 1 .. Len(s) + 1 :
                 InsertAt(s, i, e)[k] = IF k < i THEN s[k] ELSE IF k = i THEN e ELSE s[k - 1]
<1> DEFINE a == SubSeq(s, 1, i - 1)
           b == SubSeq(s, i, Len(s))
<1>1. /\ Len(s) \in Nat /\ i \in Nat \ {0} /\ i <= Len(s) + 1
      /\ \A k \in 1 .. Len(s) : s[k] \in S
  BY LenProperties, ElementOfSeq
<1>2. /\ a \in Seq(S) /\ Len(a) = i - 1
      /\ \A k \in 1 .. i - 1 : a[k] = s[k]
  <2>1. \A k \in 1 .. i - 1 : s[k] \in S
    BY <1>1
  <2>2. /\ a \in Seq(S) /\ Len(a) = IF 1 <= i - 1 THEN (i - 1) - 1 + 1 ELSE 0
        /\ \A k \in 1 .. (i - 1) - 1 + 1 : a[k] = s[1 + k - 1]
    BY <1>1, <2>1, SubSeqProperties
  <2> QED BY <1>1, <2>2
<1>3. /\ b \in Seq(S) /\ Len(b) = Len(s) - i + 1
      /\ \A k \in 1 .. Len(s) - i + 1 : b[k] = s[i + k - 1]
  <2>1. \A k \in i .. Len(s) : s[k] \in S
    BY <1>1
  <2>2. /\ b \in Seq(S) /\ Len(b) = IF i <= Len(s) THEN Len(s) - i + 1 ELSE 0
        /\ \A k \in 1 .. Len(s) - i + 1 : b[k] = s[i + k - 1]
    BY <1>1, <2>1, SubSeqProperties
  <2> QED BY <1>1, <2>2
<1>4. <<e>> \in Seq(S) /\ Len(<<e>>) = 1 /\ <<e>>[1] = e
  OBVIOUS
<1>5. /\ a \o <<e>> \in Seq(S) /\ Len(a \o <<e>>) = i
      /\ \A k \in 1 .. i : (a \o <<e>>)[k] = IF k < i THEN s[k] ELSE e
  <2>1. /\ a \o <<e>> \in Seq(S) /\ Len(a \o <<e>>) = Len(a) + Len(<<e>>)
        /\ \A k \in 1 .. Len(a) + Len(<<e>>) :
              (a \o <<e>>)[k] = IF k <= Len(a) THEN a[k] ELSE <<e>>[k - Len(a)]
    BY <1>2, <1>4, ConcatProperties
  <2> HIDE DEF a, b
  <2>2. Len(a) = i - 1 /\ Len(<<e>>) = 1
    BY <1>2, <1>4
  <2>3. \A k \in 1 .. i - 1 : (a \o <<e>>)[k] = s[k]
    BY <1>1, <1>2, <2>1, <2>2
  <2>4. (a \o <<e>>)[i] = e
    <3>1. i \in 1 .. Len(a) + Len(<<e>>) /\ ~(i <= Len(a)) /\ i - Len(a) = 1
      BY <1>1, <2>2
    <3>2. (a \o <<e>>)[i] = <<e>>[i - Len(a)]
      BY <2>1, <3>1
    <3> QED BY <1>4, <3>1, <3>2
  <2> QED BY <1>1, <2>1, <2>2, <2>3, <2>4
<1>6. /\ (a \o <<e>>) \o b \in Seq(S) /\ Len((a \o <<e>>) \o b) = Len(s) + 1
      /\ \A k \in 1 .. Len(s) + 1 :
            ((a \o <<e>>) \o b)[k] = IF k < i THEN s[k] ELSE IF k = i THEN e ELSE s[k - 1]
  <2>1. /\ (a \o <<e>>) \o b \in Seq(S)
        /\ Len((a \o <<e>>) \o b) = Len(a \o <<e>>) + Len(b)
        /\ \A k \in 1 .. Len(a \o <<e>>) + Len(b) :
              ((a \o <<e>>) \o b)[k] = IF k <= Len(a \o <<e>>) THEN (a \o <<e>>)[k]
                                                           ELSE b[k - Len(a \o <<e>>)]
    BY <1>3, <1>5, ConcatProperties, ZenonT(60)
  <2> HIDE DEF a, b
  <2>2. Len(a \o <<e>>) = i /\ Len(b) = Len(s) - i + 1
    BY <1>3, <1>5
  <2>3. \A k \in 1 .. i : ((a \o <<e>>) \o b)[k] = IF k < i THEN s[k] ELSE e
    BY <1>1, <1>5, <2>1, <2>2
  <2>4. \A k \in i + 1 .. Len(s) + 1 : ((a \o <<e>>) \o b)[k] = s[k - 1]
    <3> SUFFICES ASSUME NEW k \in i + 1 .. Len(s) + 1
                 PROVE  ((a \o <<e>>) \o b)[k] = s[k - 1]
      OBVIOUS
    <3>1. /\ k \in 1 .. Len(a \o <<e>>) + Len(b) /\ ~(k <= Len(a \o <<e>>))
          /\ k - Len(a \o <<e>>) = k - i
      BY <1>1, <2>2
    <3>2. ((a \o <<e>>) \o b)[k] = b[k - i]
      BY <2>1, <3>1
    <3>3. k - i \in 1 .. Len(s) - i + 1 /\ i + (k - i) - 1 = k - 1
      BY <1>1
    <3>4. b[k - i] = s[i + (k - i) - 1]
      BY <1>3, <3>3
    <3> QED BY <3>2, <3>3, <3>4
  <2>5. PICK t : t = (a \o <<e>>) \o b
    OBVIOUS
  <2>6. t \in Seq(S) /\ Len(t) = Len(s) + 1
    BY <1>1, <2>1, <2>2, <2>5
  <2>7. ASSUME NEW k \in 1 .. Len(s) + 1
        PROVE  t[k] = IF k < i THEN s[k] ELSE IF k = i THEN e ELSE s[k - 1]
    <3>1. k \in 1 .. i \/ k \in i + 1 .. Len(s) + 1
      BY <1>1
    <3>2. \A j \in 1 .. i : t[j] = IF j < i THEN s[j] ELSE e
      BY <2>3, <2>5, Zenon
    <3>3. \A j \in i + 1 .. Len(s) + 1 : t[j] = s[j - 1]
      BY <2>4, <2>5, Zenon
    <3>4. k \in 1 .. i => k < i \/ k = i
      BY <1>1
    <3>5. k \in i + 1 .. Len(s) + 1 => ~(k < i) /\ k # i
      BY <1>1
    <3> QED BY <3>1, <3>2, <3>3, <3>4, <3>5, ZenonT(60)
  <2> QED BY <2>5, <2>6, <2>7, Zenon
<1> QED BY <1>6 DEF InsertAt

LEMMA RemoveAtShifts ==
    ASSUME NEW S, NEW s \in Seq(S), NEW i \in 1 .. Len(s)
    PROVE  /\ RemoveAt(s, i) \in Seq(S)
           /\ Len(RemoveAt(s, i)) = Len(s) - 1
           /\ \A k \in 1 .. Len(s) - 1 :
                 RemoveAt(s, i)[k] = IF k < i THEN s[k] ELSE s[k + 1]
<1> DEFINE a == SubSeq(s, 1, i - 1)
           b == SubSeq(s, i + 1, Len(s))
<1>1. /\ Len(s) \in Nat /\ i \in Nat \ {0} /\ i <= Len(s)
      /\ \A k \in 1 .. Len(s) : s[k] \in S
  BY LenProperties, ElementOfSeq
<1>2. /\ a \in Seq(S) /\ Len(a) = i - 1
      /\ \A k \in 1 .. i - 1 : a[k] = s[k]
  <2>1. \A k \in 1 .. i - 1 : s[k] \in S
    BY <1>1
  <2>2. /\ a \in Seq(S) /\ Len(a) = IF 1 <= i - 1 THEN (i - 1) - 1 + 1 ELSE 0
        /\ \A k \in 1 .. (i - 1) - 1 + 1 : a[k] = s[1 + k - 1]
    BY <1>1, <2>1, SubSeqProperties
  <2> QED BY <1>1, <2>2
<1>3. /\ b \in Seq(S) /\ Len(b) = Len(s) - i
      /\ \A k \in 1 .. Len(s) - i : b[k] = s[i + k]
  <2>1. \A k \in i + 1 .. Len(s) : s[k] \in S
    BY <1>1
  <2>2. /\ b \in Seq(S) /\ Len(b) = IF i + 1 <= Len(s) THEN Len(s) - (i + 1) + 1 ELSE 0
        /\ \A k \in 1 .. Len(s) - (i + 1) + 1 : b[k] = s[i + 1 + k - 1]
    BY <1>1, <2>1, SubSeqProperties
  <2> QED BY <1>1, <2>2
<1>4. /\ a \o b \in Seq(S) /\ Len(a \o b) = Len(a) + Len(b)
      /\ \A k \in 1 .. Len(a) + Len(b) :
            (a \o b)[k] = IF k <= Len(a) THEN a[k] ELSE b[k - Len(a)]
  BY <1>2, <1>3, ConcatProperties
<1> HIDE DEF a, b
<1>5. /\ Len(a \o b) = Len(s) - 1
      /\ \A k \in 1 .. Len(s) - 1 : (a \o b)[k] = IF k < i THEN s[k] ELSE s[k + 1]
  <2>1. Len(a) = i - 1 /\ Len(b) = Len(s) - i
    BY <1>2, <1>3
  <2>2. \A k \in 1 .. i - 1 : (a \o b)[k] = s[k]
    BY <1>1, <1>2, <1>4, <2>1
  <2>3. \A k \in i .. Len(s) - 1 : (a \o b)[k] = s[k + 1]
    <3> SUFFICES ASSUME NEW k \in i .. Len(s) - 1 PROVE (a \o b)[k] = s[k + 1]
      OBVIOUS
    <3>1. k \in 1 .. Len(a) + Len(b) /\ ~(k <= Len(a)) /\ k - Len(a) = k - i + 1
      BY <1>1, <2>1
    <3>2. (a \o b)[k] = b[k - i + 1]
      BY <1>4, <3>1
    <3>3. k - i + 1 \in 1 .. Len(s) - i /\ i + (k - i + 1) = k + 1
      BY <1>1
    <3>4. b[k - i + 1] = s[i + (k - i + 1)]
      BY <1>3, <3>3
    <3> QED BY <3>2, <3>3, <3>4
  <2>4. Len(a \o b) = Len(s) - 1
    BY <1>1, <1>4, <2>1
  <2>5. ASSUME NEW k \in 1 .. Len(s) - 1
        PROVE  (a \o b)[k] = IF k < i THEN s[k] ELSE s[k + 1]
    <3>1. CASE k < i
      <4>1. k \in 1 .. i - 1
        BY <1>1, <3>1
      <4>2. (a \o b)[k] = s[k]
        BY <2>2, <4>1
      <4> QED BY <3>1, <4>2
    <3>2. CASE ~(k < i)
      <4>1. k \in i .. Len(s) - 1
        BY <1>1, <3>2
      <4>2. (a \o b)[k] = s[k + 1]
        BY <2>3, <4>1
      <4> QED BY <3>2, <4>2
    <3> QED BY <3>1, <3>2
  <2> QED BY <2>4, <2>5
<1> QED BY <1>4, <1>5 DEF RemoveAt, a, b

\* What is in the table, besides what DataFollowsItems says of it.
ListShape ==
    /\ count \in 0 .. MAX_ITEMS
    /\ itemdata \in [Places -> Data]
    /\ items \in Seq(Data \cup {Unset})
    /\ cursel \in Int

ListInv == ListShape /\ DataFollowsItems

LEMMA ListBegins == ListInit => ListInv
<1> SUFFICES ASSUME ListInit PROVE ListInv
  OBVIOUS
<1>1. ListShape
  BY ListConstants DEF ListInit, ListShape, Places
<1>2. DataFollowsItems
  BY DEF ListInit, DataFollowsItems
<1> QED BY <1>1, <1>2 DEF ListInv

LEMMA AddKeeps == ASSUME ListInv, Add, UNCHANGED <<cursel, itemdata>> PROVE ListInv'
<1>1. CASE count >= MAX_ITEMS /\ UNCHANGED <<count, items>>
  BY <1>1 DEF ListInv, ListShape, DataFollowsItems
<1>2. CASE count < MAX_ITEMS /\ count' = count + 1 /\ items' = Append(items, Unset)
  <2>1. /\ items' \in Seq(Data \cup {Unset}) /\ Len(items') = count + 1
        /\ \A n \in 1 .. count : items'[n] = items[n]
        /\ items'[count + 1] = Unset
    BY <1>2, AppendProperties DEF ListInv, ListShape, DataFollowsItems
  <2>2. ListShape'
    BY <1>2, <2>1, ListConstants DEF ListInv, ListShape
  <2>3. DataFollowsItems'
    BY <1>2, <2>1 DEF ListInv, ListShape, DataFollowsItems
  <2> QED BY <2>2, <2>3 DEF ListInv
<1> QED BY <1>1, <1>2 DEF Add

LEMMA InsertKeeps ==
    ASSUME ListInv, NEW wp \in Named \cup {-1}, Insert(wp), UNCHANGED cursel
    PROVE  ListInv'
<1>1. CASE count >= MAX_ITEMS /\ UNCHANGED <<count, itemdata, items>>
  BY <1>1 DEF ListInv, ListShape, DataFollowsItems
<1>2. CASE /\ count < MAX_ITEMS
           /\ itemdata' = Inserted(Position(wp))
           /\ count' = count + 1
           /\ items' = InsertAt(items, Position(wp) + 1, 0)
  <2> DEFINE place == Position(wp)
  <2>1. place \in 0 .. count /\ count \in 0 .. MAX_ITEMS - 1 /\ MAX_ITEMS \in Nat
    BY <1>2, ListConstants DEF ListInv, ListShape, Position, Named
  <2> HIDE DEF place
  <2>2. /\ items' \in Seq(Data \cup {Unset}) /\ Len(items') = count + 1
        /\ \A k \in 1 .. count + 1 :
              items'[k] = IF k < place + 1 THEN items[k] ELSE IF k = place + 1 THEN 0 ELSE items[k - 1]
    <3>1. Len(items) = count /\ 0 \in Data \cup {Unset} /\ place + 1 \in 1 .. Len(items) + 1
      BY <2>1, ListConstants DEF ListInv, DataFollowsItems
    <3>2. items \in Seq(Data \cup {Unset}) /\ items' = InsertAt(items, place + 1, 0)
      BY <1>2 DEF ListInv, ListShape, place
    <3> DEFINE S == Data \cup {Unset}
    <3> HIDE DEF S
    <3>3. /\ InsertAt(items, place + 1, 0) \in Seq(S)
          /\ Len(InsertAt(items, place + 1, 0)) = Len(items) + 1
          /\ \A k \in 1 .. Len(items) + 1 :
                InsertAt(items, place + 1, 0)[k] =
                  IF k < place + 1 THEN items[k] ELSE IF k = place + 1 THEN 0 ELSE items[k - 1]
      <4>1. items \in Seq(S) /\ 0 \in S
        BY <3>1, <3>2 DEF S
      <4> DEFINE i == place + 1
      <4>2. i \in 1 .. Len(items) + 1
        BY <3>1
      <4> HIDE DEF i
      <4>3. /\ InsertAt(items, i, 0) \in Seq(S)
            /\ Len(InsertAt(items, i, 0)) = Len(items) + 1
            /\ \A k \in 1 .. Len(items) + 1 :
                  InsertAt(items, i, 0)[k] =
                    IF k < i THEN items[k] ELSE IF k = i THEN 0 ELSE items[k - 1]
        BY <4>1, <4>2, InsertAtShifts
      <4> QED BY <4>3 DEF i
    <3> QED BY <3>1, <3>2, <3>3 DEF S
  <2>3. \A p \in Places :
           itemdata'[p] = IF p = place THEN 0
                          ELSE IF p \in place + 1 .. count THEN itemdata[p - 1] ELSE itemdata[p]
    BY <1>2, <2>1, SMTT(60) DEF Inserted, Moved, Places, place
  <2>4. itemdata' \in [Places -> Data]
    <3>1. DOMAIN itemdata' = Places
      BY <1>2 DEF Inserted, Moved
    <3>2. \A p \in Places : itemdata'[p] \in Data
      BY <2>1, <2>3, ListConstants DEF ListInv, ListShape, Places
    <3>3. itemdata' = [p \in Places |-> itemdata'[p]]
      BY <1>2, <3>1 DEF Inserted, Moved
    <3> QED BY <3>2, <3>3
  <2>5. ListShape'
    BY <1>2, <2>1, <2>2, <2>4 DEF ListInv, ListShape
  <2>6. \A n \in 1 .. count + 1 : items'[n] \in {Unset, itemdata'[n - 1]}
    <3> SUFFICES ASSUME NEW n \in 1 .. count + 1
                 PROVE  items'[n] \in {Unset, itemdata'[n - 1]}
      OBVIOUS
    <3>1. n - 1 \in Places
      BY <2>1 DEF Places
    <3>2. CASE n < place + 1
      <4>1. items'[n] = items[n] /\ itemdata'[n - 1] = itemdata[n - 1] /\ n \in 1 .. count
        BY <2>1, <2>2, <2>3, <3>1, <3>2
      <4> QED BY <4>1 DEF ListInv, DataFollowsItems
    <3>3. CASE n = place + 1
      BY <2>1, <2>2, <2>3, <3>1, <3>3
    <3>4. CASE n > place + 1
      <4>1. /\ items'[n] = items[n - 1] /\ itemdata'[n - 1] = itemdata[(n - 1) - 1]
            /\ n - 1 \in 1 .. count
        BY <2>1, <2>2, <2>3, <3>1, <3>4
      <4> QED BY <4>1 DEF ListInv, DataFollowsItems
    <3> QED BY <2>1, <3>2, <3>3, <3>4
  <2>7. cursel' \in -1 .. count
    BY <2>1 DEF ListInv, ListShape, DataFollowsItems
  <2> QED BY <1>2, <2>1, <2>2, <2>5, <2>6, <2>7 DEF ListInv, DataFollowsItems
<1> QED BY <1>1, <1>2 DEF Insert

LEMMA DeleteKeeps == ASSUME ListInv, NEW wp \in Named, Delete(wp) PROVE ListInv'
<1>1. CASE wp >= count /\ UNCHANGED <<count, cursel, itemdata, items>>
  BY <1>1 DEF ListInv, ListShape, DataFollowsItems
<1>2. CASE /\ wp < count
           /\ itemdata' = Deleted(wp)
           /\ count' = count - 1
           /\ cursel' = SelectionLeft(count - 1)
           /\ items' = RemoveAt(items, wp + 1)
  <2>1. wp \in 0 .. count - 1 /\ count \in 1 .. MAX_ITEMS /\ MAX_ITEMS \in Nat
    BY <1>2, ListConstants DEF ListInv, ListShape, Named
  <2>2. /\ items' \in Seq(Data \cup {Unset}) /\ Len(items') = count - 1
        /\ \A k \in 1 .. count - 1 : items'[k] = IF k < wp + 1 THEN items[k] ELSE items[k + 1]
    <3>1. Len(items) = count /\ wp + 1 \in 1 .. Len(items)
      BY <2>1 DEF ListInv, DataFollowsItems
    <3>2. items \in Seq(Data \cup {Unset}) /\ items' = RemoveAt(items, wp + 1)
      BY <1>2 DEF ListInv, ListShape
    <3> QED BY <3>1, <3>2, RemoveAtShifts
  <2>3. \A p \in Places :
           itemdata'[p] = IF p \in wp .. count - 2 THEN itemdata[p + 1] ELSE itemdata[p]
    BY <1>2, <2>1 DEF Deleted, Moved, Places
  <2>4. itemdata' \in [Places -> Data]
    <3>1. \A p \in Places : itemdata'[p] \in Data
      BY <2>1, <2>3 DEF ListInv, ListShape, Places
    <3>2. itemdata' = [p \in Places |-> itemdata'[p]]
      BY <1>2 DEF Deleted, Moved
    <3> QED BY <3>1, <3>2
  <2>5. cursel' \in Int /\ cursel' \in -1 .. count' - 1
    BY <1>2, <2>1 DEF SelectionLeft, ListInv, ListShape, DataFollowsItems
  <2>6. \A n \in 1 .. count - 1 : items'[n] \in {Unset, itemdata'[n - 1]}
    <3> SUFFICES ASSUME NEW n \in 1 .. count - 1
                 PROVE  items'[n] \in {Unset, itemdata'[n - 1]}
      OBVIOUS
    <3>1. n - 1 \in Places
      BY <2>1 DEF Places
    <3>2. CASE n < wp + 1
      <4>1. items'[n] = items[n] /\ itemdata'[n - 1] = itemdata[n - 1] /\ n \in 1 .. count
        BY <2>1, <2>2, <2>3, <3>1, <3>2
      <4> QED BY <4>1 DEF ListInv, DataFollowsItems
    <3>3. CASE ~(n < wp + 1)
      <4>1. /\ items'[n] = items[n + 1] /\ itemdata'[n - 1] = itemdata[(n + 1) - 1]
            /\ n + 1 \in 1 .. count
        BY <2>1, <2>2, <2>3, <3>1, <3>3
      <4> QED BY <4>1 DEF ListInv, DataFollowsItems
    <3> QED BY <3>2, <3>3
  <2>7. ListShape'
    BY <1>2, <2>1, <2>2, <2>4, <2>5 DEF ListShape
  <2>8. DataFollowsItems'
    BY <1>2, <2>1, <2>2, <2>5, <2>6 DEF DataFollowsItems
  <2> QED BY <2>7, <2>8 DEF ListInv
<1> QED BY <1>1, <1>2 DEF Delete

LEMMA SetItemDataKeeps ==
    ASSUME ListInv, NEW wp \in Named, NEW d \in Data, SetItemData(wp, d),
           UNCHANGED <<count, cursel>>
    PROVE  ListInv'
<1>1. CASE wp >= count /\ UNCHANGED <<itemdata, items>>
  BY <1>1 DEF ListInv, ListShape, DataFollowsItems
<1>2. CASE /\ wp < count
           /\ itemdata' = [itemdata EXCEPT ![wp] = d]
           /\ items' = [items EXCEPT ![wp + 1] = d]
  <2>1. wp \in 0 .. count - 1 /\ count \in 0 .. MAX_ITEMS /\ MAX_ITEMS \in Nat
    BY <1>2, ListConstants DEF ListInv, ListShape, Named
  <2>2. /\ items' \in Seq(Data \cup {Unset}) /\ Len(items') = count
        /\ \A n \in 1 .. count : items'[n] = IF n = wp + 1 THEN d ELSE items[n]
    BY <1>2, <2>1, ExceptSeq DEF ListInv, ListShape, DataFollowsItems
  <2>3. itemdata' \in [Places -> Data]
    BY <1>2, <2>1 DEF ListInv, ListShape
  <2>4. \A n \in 1 .. count : itemdata'[n - 1] = IF n = wp + 1 THEN d ELSE itemdata[n - 1]
    BY <1>2, <2>1 DEF ListInv, ListShape, Places
  <2> QED BY <2>1, <2>2, <2>3, <2>4 DEF ListInv, ListShape, DataFollowsItems
<1> QED BY <1>1, <1>2 DEF SetItemData

LEMMA ListStepKeeps == ListInv /\ [ListStep]_listVars => ListInv'
<1> SUFFICES ASSUME ListInv, [ListStep]_listVars PROVE ListInv'
  OBVIOUS
<1>1. CASE Add /\ UNCHANGED <<cursel, itemdata>>
  BY <1>1, AddKeeps
<1>2. ASSUME NEW wp \in Named \cup {-1}, Insert(wp), UNCHANGED cursel PROVE ListInv'
  BY <1>2, InsertKeeps
<1>3. ASSUME NEW wp \in Named, Delete(wp) PROVE ListInv'
  BY <1>3, DeleteKeeps
<1>4. CASE ResetContent
  <2>1. itemdata' \in [Places -> Data] /\ items' \in Seq(Data \cup {Unset}) /\ Len(items') = 0
    BY <1>4, ListConstants DEF ResetContent
  <2> QED BY <1>4, <2>1, ListConstants DEF ResetContent, ListInv, ListShape, DataFollowsItems
<1>5. ASSUME NEW wp \in Named \cup {-1}, SetCurSel(wp), UNCHANGED <<count, itemdata, items>>
      PROVE  ListInv'
  BY <1>5, ListConstants DEF SetCurSel, ListInv, ListShape, DataFollowsItems, Named
<1>6. ASSUME NEW wp \in Named, NEW d \in Data, SetItemData(wp, d), UNCHANGED <<count, cursel>>
      PROVE  ListInv'
  BY <1>6, SetItemDataKeeps
<1>7. CASE UNCHANGED <<count, cursel, itemdata, items>>
  BY <1>7 DEF ListInv, ListShape, DataFollowsItems
<1> QED BY <1>1, <1>2, <1>3, <1>4, <1>5, <1>6, <1>7 DEF ListStep, listVars

\* list_proc (headless.c): what the program keeps with an item stays with it
\* while others are put in and taken out around it, in a table of any size.
THEOREM DataAlwaysFollowItems == ListSpecification => []DataFollowsItems
<1>1. ListInit => ListInv
  BY ListBegins
<1>2. ListInv /\ [ListStep]_listVars => ListInv'
  BY ListStepKeeps
<1>3. ListInv => DataFollowsItems
  BY DEF ListInv
<1> QED BY <1>1, <1>2, <1>3, PTL DEF ListSpecification

-----------------------------------------------------------------------------
(* The drawing objects and menus.                                           *)

ObjectSpecification == ObjectInit /\ [][ObjectStep]_objVars

LEMMA LeastIsThere ==
    ASSUME NEW S \in SUBSET Nat, S # {}
    PROVE  Min(S) \in S /\ \A y \in S : Min(S) <= y
<1> DEFINE R == {ss \in Nat \X Nat : ss[1] < ss[2]}
<1>1. IsWellFoundedOn(R, Nat)
  BY NatLessThanWellFounded DEF OpToRel
<1>2. \A x, y \in Nat : <<y, x>> \in R <=> y < x
  OBVIOUS
<1> HIDE DEF R
<1>3. \E x \in S : \A y \in S : ~(<<y, x>> \in R)
  BY <1>1, WFMin
<1>4. \E x \in S : \A y \in S : x <= y
  <2>1. PICK x \in S : \A y \in S : ~(<<y, x>> \in R)
    BY <1>3
  <2>2. \A y \in S : y \in Nat /\ x \in Nat /\ ~(y < x)
    BY <1>2, <2>1
  <2>3. \A y \in S : x <= y
    BY <2>2
  <2> QED BY <2>1, <2>3
<1> QED BY <1>4 DEF Min

ObjType == [kind : Kinds \cup {"free"},
            has : [ObjSlots \cup {"palette"} -> Handles \cup {Nothing}],
            sub : [0 .. Submenus - 1 -> Handles \cup {Nothing}]]
WorldType == [objs : [Handles -> ObjType], stock : [Stock -> Handles \cup {Nothing}],
              fell : BOOLEAN, made : Handles \cup {Nothing}]

Full(w) == \A h \in Handles : w.objs[h].kind # "free"

\* A table the steps of the host keep: what the stock names is there and of its
\* kind, and nothing was written through a null pointer unless there was no
\* place for a font.
Honest(w) ==
    /\ w \in WorldType
    /\ \A n \in Stock : w.stock[n] # Nothing => w.objs[w.stock[n]].kind = StockKind(n)
    /\ w.fell => Full(w)

\* What no step takes away: the kind of an object that is there.
KindsKept(w, v) == \A h \in Handles : w.objs[h].kind # "free" => v.objs[h].kind = w.objs[h].kind

LEMMA HandlesAreNumbers ==
    Handles \subseteq Nat /\ Nothing \notin Handles /\ 13 \in Stock /\ StockKind(13) = "font"
BY ObjectConstants DEF Handles, Nothing, Stock, StockKind

LEMMA StockKindIsKind == \A n \in Stock : StockKind(n) \in Kinds /\ StockKind(n) # "free"
BY DEF StockKind, Kinds, ObjSlots

LEMMA UnusedIsObj ==
    ASSUME NEW kind \in Kinds PROVE [Unused EXCEPT !.kind = kind] \in ObjType
BY DEF Unused, ObjType, Nothing, ObjSlots

\* A free place is found whenever there is one, and nothing else is touched.
LEMMA NewIsHonest ==
    ASSUME NEW w, Honest(w), NEW kind \in Kinds
    PROVE  /\ Honest(New(w, kind)) /\ KindsKept(w, New(w, kind))
           /\ New(w, kind).stock = w.stock /\ New(w, kind).fell = w.fell
           /\ New(w, kind).made = Nothing => Full(New(w, kind))
           /\ New(w, kind).made # Nothing => New(w, kind).objs[New(w, kind).made].kind = kind
<1> DEFINE free == {h \in Handles : w.objs[h].kind = "free"}
           v == New(w, kind)
<1>1. kind # "free"
  BY DEF Kinds, ObjSlots
<1>2. CASE free = {}
  <2>1. v = [w EXCEPT !.made = Nothing]
    BY <1>2 DEF New
  <2>2. /\ v \in WorldType /\ v.made = Nothing
        /\ v.objs = w.objs /\ v.stock = w.stock /\ v.fell = w.fell
    BY <2>1 DEF Honest, WorldType
  <2>3. Full(v)
    BY <1>2, <2>2 DEF Full
  <2> QED BY <2>2, <2>3 DEF Honest, Full, KindsKept
<1>3. CASE free # {}
  <2> DEFINE m == Min(free)
  <2>1. m \in Handles /\ w.objs[m].kind = "free" /\ m # Nothing
    BY <1>3, LeastIsThere, HandlesAreNumbers
  <2>2. v = [w EXCEPT !.objs[m] = [Unused EXCEPT !.kind = kind], !.made = m]
    BY <1>3 DEF New
  <2> HIDE DEF v, m
  <2>3. /\ v.stock = w.stock /\ v.fell = w.fell /\ v.made = m
        /\ v.objs = [w.objs EXCEPT ![m] = [Unused EXCEPT !.kind = kind]]
        /\ v \in WorldType
    BY <2>1, <2>2, UnusedIsObj DEF Honest, WorldType
  <2>4. \A h \in Handles : v.objs[h].kind = IF h = m THEN kind ELSE w.objs[h].kind
    BY <2>1, <2>3 DEF Honest, WorldType, Unused
  <2>5. KindsKept(w, v)
    BY <2>1, <2>4 DEF KindsKept
  <2>6. \A n \in Stock : v.stock[n] # Nothing => v.objs[v.stock[n]].kind = StockKind(n)
    <3> SUFFICES ASSUME NEW n \in Stock, w.stock[n] # Nothing
                 PROVE  v.objs[w.stock[n]].kind = StockKind(n)
      BY <2>3
    <3>1. w.stock[n] \in Handles /\ w.objs[w.stock[n]].kind = StockKind(n)
      BY DEF Honest, WorldType
    <3> QED BY <3>1, <2>5, StockKindIsKind DEF KindsKept
  <2>7. ~w.fell
    BY <2>1 DEF Honest, Full
  <2>8. Honest(v)
    BY <2>3, <2>6, <2>7 DEF Honest
  <2>9. v.made # Nothing /\ v.objs[v.made].kind = kind
    BY <2>1, <2>3, <2>4
  <2> QED BY <2>3, <2>5, <2>8, <2>9 DEF v
<1> QED BY <1>2, <1>3

\* A step that moves only what objects draw with, their submenus or what was
\* made last keeps the table honest.
LEMMA SameKindsHonest ==
    ASSUME NEW w, NEW v, Honest(w), v \in WorldType, v.stock = w.stock, v.fell = w.fell,
           \A h \in Handles : v.objs[h].kind = w.objs[h].kind
    PROVE  Honest(v)
<1>1. \A n \in Stock : v.stock[n] # Nothing => v.objs[v.stock[n]].kind = StockKind(n)
  BY DEF Honest, WorldType
<1>2. v.fell => Full(v)
  BY DEF Honest, Full
<1> QED BY <1>1, <1>2 DEF Honest

\* An object changed in one of its parts is an object, and the table a table.
LEMMA PartsTyped ==
    ASSUME NEW w \in WorldType, NEW h \in Handles, NEW x \in Handles \cup {Nothing}
    PROVE  /\ [w EXCEPT !.objs[h].kind = "free"] \in WorldType
           /\ \A s \in ObjSlots \cup {"palette"} : [w EXCEPT !.objs[h].has[s] = x] \in WorldType
           /\ \A p \in 0 .. Submenus - 1 : [w EXCEPT !.objs[h].sub[p] = x] \in WorldType
           /\ [w EXCEPT !.made = x] \in WorldType
<1>1. w.objs[h] \in ObjType
  BY DEF WorldType
<1>2. ASSUME NEW o \in ObjType PROVE [w EXCEPT !.objs[h] = o] \in WorldType
  <2>1. [w.objs EXCEPT ![h] = o] \in [Handles -> ObjType]
    BY DEF WorldType
  <2> QED BY <2>1 DEF WorldType
<1>3. [w.objs[h] EXCEPT !.kind = "free"] \in ObjType
  BY <1>1 DEF ObjType
<1>4. ASSUME NEW s \in ObjSlots \cup {"palette"}
      PROVE  [w.objs[h] EXCEPT !.has[s] = x] \in ObjType
  <2>1. [w.objs[h].has EXCEPT ![s] = x] \in [ObjSlots \cup {"palette"} -> Handles \cup {Nothing}]
    BY <1>1 DEF ObjType
  <2> QED BY <1>1, <2>1 DEF ObjType
<1>5. ASSUME NEW p \in 0 .. Submenus - 1
      PROVE  [w.objs[h] EXCEPT !.sub[p] = x] \in ObjType
  <2>1. [w.objs[h].sub EXCEPT ![p] = x] \in [0 .. Submenus - 1 -> Handles \cup {Nothing}]
    BY <1>1 DEF ObjType
  <2> QED BY <1>1, <2>1 DEF ObjType
<1>6. [w EXCEPT !.made = x] \in WorldType
  BY DEF WorldType
<1>7. [w EXCEPT !.objs[h].kind = "free"] \in WorldType
  BY <1>2, <1>3
<1>8. \A s \in ObjSlots \cup {"palette"} : [w EXCEPT !.objs[h].has[s] = x] \in WorldType
  BY <1>2, <1>4
<1>9. \A p \in 0 .. Submenus - 1 : [w EXCEPT !.objs[h].sub[p] = x] \in WorldType
  BY <1>2, <1>5
<1> QED BY <1>6, <1>7, <1>8, <1>9

LEMMA HasHonest ==
    ASSUME NEW w, Honest(w), NEW h \in Handles, NEW s \in ObjSlots \cup {"palette"},
           NEW x \in Handles \cup {Nothing}, NEW y \in Handles \cup {Nothing}
    PROVE  /\ Honest([w EXCEPT !.objs[h].has[s] = x])
           /\ Honest([w EXCEPT !.objs[h].has[s] = x, !.made = y])
           /\ Honest([w EXCEPT !.made = y])
<1>1. /\ [w EXCEPT !.objs[h].has[s] = x] \in WorldType
      /\ [w EXCEPT !.objs[h].has[s] = x, !.made = y] \in WorldType
      /\ [w EXCEPT !.made = y] \in WorldType
  <2>1. [w EXCEPT !.objs[h].has[s] = x] \in WorldType /\ [w EXCEPT !.made = y] \in WorldType
    BY PartsTyped DEF Honest
  <2> DEFINE v == [w EXCEPT !.objs[h].has[s] = x]
  <2>2. [v EXCEPT !.made = y] \in WorldType
    BY <2>1, PartsTyped
  <2>3. [v EXCEPT !.made = y] = [w EXCEPT !.objs[h].has[s] = x, !.made = y]
    OBVIOUS
  <2> QED BY <2>1, <2>2, <2>3
<1>2. \A k \in Handles :
        /\ [w EXCEPT !.objs[h].has[s] = x].objs[k].kind = w.objs[k].kind
        /\ [w EXCEPT !.objs[h].has[s] = x, !.made = y].objs[k].kind = w.objs[k].kind
        /\ [w EXCEPT !.made = y].objs[k].kind = w.objs[k].kind
  BY DEF Honest, WorldType, ObjType
<1> QED BY <1>1, <1>2, SameKindsHonest DEF Honest, WorldType

LEMMA StockIsHonest ==
    ASSUME NEW w, Honest(w), NEW n \in Stock
    PROVE  Honest(StockObject(w, n)) /\ StockObject(w, n).made \in Handles \cup {Nothing}
<1>1. CASE w.stock[n] # Nothing
  <2>1. Honest([w EXCEPT !.made = w.stock[n]]) /\ w.stock[n] \in Handles
    <3>1. w.stock[n] \in Handles
      BY <1>1 DEF Honest, WorldType
    <3>2. [w EXCEPT !.made = w.stock[n]] \in WorldType
      BY <3>1 DEF Honest, WorldType
    <3> QED BY <3>1, <3>2, SameKindsHonest DEF Honest, WorldType
  <2> QED BY <1>1, <2>1 DEF StockObject, Honest, WorldType
<1>2. CASE w.stock[n] = Nothing
  <2> DEFINE v == New(w, StockKind(n))
             u == [v EXCEPT !.stock[n] = v.made,
                            !.fell = @ \/ (v.made = Nothing /\ StockKind(n) = "font")]
  <2>1. /\ Honest(v) /\ v.stock = w.stock
        /\ v.made = Nothing => Full(v)
        /\ v.made # Nothing => v.objs[v.made].kind = StockKind(n)
    BY NewIsHonest, StockKindIsKind
  <2>2. StockObject(w, n) = u
    BY <1>2 DEF StockObject
  <2> HIDE DEF v
  <2>3. /\ u.objs = v.objs /\ u.made = v.made
        /\ u.stock = [v.stock EXCEPT ![n] = v.made]
        /\ u.fell = (v.fell \/ (v.made = Nothing /\ StockKind(n) = "font"))
    BY <2>1 DEF Honest, WorldType
  <2>4. u \in WorldType
    BY <2>1 DEF Honest, WorldType
  <2> HIDE DEF u
  <2>5. \A m \in Stock : u.stock[m] # Nothing => u.objs[u.stock[m]].kind = StockKind(m)
    BY <2>1, <2>3 DEF Honest, WorldType
  <2>6. u.fell => Full(u)
    BY <2>1, <2>3 DEF Honest, Full
  <2>7. Honest(u) /\ u.made \in Handles \cup {Nothing}
    BY <2>4, <2>5, <2>6 DEF Honest, WorldType
  <2> QED BY <2>2, <2>7
<1> QED BY <1>1, <1>2

LEMMA DrawsIsHonest ==
    ASSUME NEW w, Honest(w), NEW dc \in Handles, NEW n \in Stock,
           NEW s \in ObjSlots \cup {"palette"}
    PROVE  Honest(DrawsWith(w, dc, s, n))
BY StockIsHonest, HasHonest DEF DrawsWith

LEMMA DcIsHonest == ASSUME NEW w, Honest(w) PROVE Honest(NewDC(w))
<1> DEFINE v == New(w, "dc")
           f == DrawsWith(v, v.made, "font", 13)
           p == DrawsWith(f, v.made, "pen", 7)
           b == DrawsWith(p, v.made, "brush", 0)
           l == DrawsWith(b, v.made, "palette", 15)
<1>1. Honest(v)
  BY NewIsHonest DEF Kinds
<1>2. CASE v.made = Nothing
  BY <1>1, <1>2 DEF NewDC
<1>3. CASE v.made # Nothing
  <2>1. v.made \in Handles /\ {0, 7, 13, 15} \subseteq Stock
        /\ {"font", "pen", "brush", "palette"} \subseteq ObjSlots \cup {"palette"}
    <3> HIDE DEF v
    <3>1. v.made \in Handles
      BY <1>1, <1>3 DEF Honest, WorldType
    <3>2. {0, 7, 13, 15} \subseteq Stock
      BY DEF Stock
    <3>3. {"font", "pen", "brush", "palette"} \subseteq ObjSlots \cup {"palette"}
      BY DEF ObjSlots
    <3> QED BY <3>1, <3>2, <3>3
  <2> HIDE DEF v
  <2>2. Honest(f)
    BY <1>1, <2>1, DrawsIsHonest
  <2> HIDE DEF f
  <2>3. Honest(p)
    BY <2>1, <2>2, DrawsIsHonest
  <2> HIDE DEF p
  <2>4. Honest(b)
    BY <2>1, <2>3, DrawsIsHonest
  <2> HIDE DEF b
  <2>5. Honest(l)
    BY <2>1, <2>4, DrawsIsHonest
  <2> HIDE DEF l
  <2>6. Honest([l EXCEPT !.made = v.made])
    BY <2>1, <2>5, HasHonest
  <2>7. NewDC(w) = [l EXCEPT !.made = v.made]
    BY <1>3 DEF NewDC, v, f, p, b, l
  <2> QED BY <2>6, <2>7
<1> QED BY <1>2, <1>3

LEMMA ErasedIsHonest == ASSUME NEW w, Honest(w), ~w.fell, NEW h \in Handles PROVE Honest(Erased(w, h))
<1>1. CASE There(w, h) /\ \A n \in Stock : w.stock[n] # h
  <2> DEFINE v == [w EXCEPT !.objs[h].kind = "free"]
  <2>1. v \in WorldType /\ v.stock = w.stock /\ v.fell = FALSE
    <3>1. v \in WorldType
      BY PartsTyped DEF Honest, Nothing
    <3>2. v.stock = w.stock /\ v.fell = w.fell
      BY DEF Honest, WorldType
    <3> QED BY <3>1, <3>2 DEF Honest, WorldType
  <2>2. \A k \in Handles : k # h => v.objs[k] = w.objs[k]
    BY DEF Honest, WorldType
  <2> HIDE DEF v
  <2>3. \A n \in Stock : v.stock[n] # Nothing => v.objs[v.stock[n]].kind = StockKind(n)
    BY <1>1, <2>1, <2>2 DEF Honest, WorldType
  <2>4. Honest(v)
    BY <2>1, <2>3 DEF Honest
  <2> QED BY <1>1, <2>4 DEF Erased, v
<1>2. CASE ~(There(w, h) /\ \A n \in Stock : w.stock[n] # h)
  BY <1>2 DEF Erased
<1> QED BY <1>1, <1>2

LEMMA SelectIsHonest ==
    ASSUME NEW w, Honest(w), NEW dc \in Handles, NEW h \in Handles
    PROVE  Honest(Select(w, dc, h))
<1> DEFINE kind == w.objs[h].kind
           old == w.objs[dc].has[kind]
           v == [w EXCEPT !.objs[dc].has[kind] = h, !.made = old]
<1>1. CASE ~There(w, dc) \/ ~There(w, h) \/ w.objs[dc].kind # "dc" \/ kind \notin ObjSlots
  BY <1>1 DEF Select
<1>2. CASE ~(~There(w, dc) \/ ~There(w, h) \/ w.objs[dc].kind # "dc" \/ kind \notin ObjSlots)
  <2>1. kind \in ObjSlots \cup {"palette"} /\ old \in Handles \cup {Nothing}
    BY <1>2 DEF Honest, WorldType, ObjType
  <2>2. Honest(v)
    BY <2>1, HasHonest
  <2>3. Honest(New(v, "bitmap"))
    BY <2>2, NewIsHonest DEF Kinds, ObjSlots
  <2>4. Select(w, dc, h) = IF old = Nothing /\ kind = "bitmap" THEN New(v, "bitmap") ELSE v
    BY <1>2 DEF Select
  <2> QED BY <2>2, <2>3, <2>4
<1> QED BY <1>1, <1>2

LEMMA SubMenuIsHonest ==
    ASSUME NEW w, Honest(w), NEW menu \in Handles, NEW pos \in 0 .. Submenus - 1
    PROVE  Honest(SubMenu(w, menu, pos))
<1> DEFINE v == New(w, "menu")
           u == [v EXCEPT !.objs[menu].sub[pos] = v.made]
<1>1. Honest(v)
  BY NewIsHonest DEF Kinds
<1>2. SubMenu(w, menu, pos) = w \/ SubMenu(w, menu, pos) = u
  BY DEF SubMenu
<1> HIDE DEF v
<1>3. u \in WorldType /\ u.stock = v.stock /\ u.fell = v.fell
  <2>1. v \in WorldType /\ v.made \in Handles \cup {Nothing}
    BY <1>1 DEF Honest, WorldType
  <2>2. u \in WorldType
    BY <2>1, PartsTyped
  <2> QED BY <2>1, <2>2 DEF WorldType
<1>4. \A h \in Handles : u.objs[h].kind = v.objs[h].kind
  BY <1>1 DEF Honest, WorldType, ObjType
<1>5. Honest(u)
  BY <1>1, <1>3, <1>4, SameKindsHonest
<1> QED BY <1>2, <1>5

Objects == [objs |-> objs, stock |-> stock, fell |-> fell, made |-> Nothing]
ObjInv == Honest(Objects)

LEMMA ObjectsBegin == ObjectInit => ObjInv
<1> SUFFICES ASSUME ObjectInit PROVE ObjInv
  OBVIOUS
<1>1. Unused \in ObjType
  BY DEF Unused, ObjType
<1>2. Objects \in WorldType
  BY <1>1 DEF ObjectInit, Objects, WorldType
<1>3. \A n \in Stock : Objects.stock[n] = Nothing
  BY DEF ObjectInit, Objects
<1> QED BY <1>2, <1>3 DEF ObjInv, Honest, ObjectInit, Objects

LEMMA BecomesHonest == ASSUME NEW w, Honest(w), Becomes(w) PROVE ObjInv'
<1>1. Objects' = [w EXCEPT !.made = Nothing]
  BY DEF Becomes, Objects, Honest, WorldType
<1>2. [w EXCEPT !.made = Nothing] \in WorldType
  BY DEF Honest, WorldType
<1>3. Honest([w EXCEPT !.made = Nothing])
  BY <1>2, SameKindsHonest DEF Honest, WorldType
<1> QED BY <1>1, <1>3 DEF ObjInv

LEMMA ObjectStepKeeps == ObjInv /\ [ObjectStep]_objVars => ObjInv'
<1> SUFFICES ASSUME ObjInv, [ObjectStep]_objVars PROVE ObjInv'
  OBVIOUS
<1>1. CASE ObjectStep
  <2>1. Objects = World /\ Honest(World) /\ ~World.fell
    BY <1>1 DEF ObjectStep, Objects, World, ObjInv, Honest, WorldType
  <2>2. ASSUME NEW k \in Kinds \ {"dc"}, Becomes(New(World, k)) PROVE ObjInv'
    BY <2>1, <2>2, NewIsHonest, BecomesHonest
  <2>3. ASSUME NEW n \in {0, 7, 13, 15}, Becomes(StockObject(World, n)) PROVE ObjInv'
    BY <2>1, <2>3, StockIsHonest, BecomesHonest DEF Stock
  <2>4. CASE Becomes(NewDC(World))
    BY <2>1, <2>4, DcIsHonest, BecomesHonest
  <2>5. ASSUME NEW h \in Handles, Becomes(Erased(World, h)) PROVE ObjInv'
    BY <2>1, <2>5, ErasedIsHonest, BecomesHonest
  <2>6. ASSUME NEW dc \in Handles, NEW h \in Handles, Becomes(Select(World, dc, h))
        PROVE  ObjInv'
    BY <2>1, <2>6, SelectIsHonest, BecomesHonest
  <2>7. ASSUME NEW h \in Handles, NEW i \in 0 .. Submenus - 1, Becomes(SubMenu(World, h, i))
        PROVE  ObjInv'
    BY <2>1, <2>7, SubMenuIsHonest, BecomesHonest
  <2>8. CASE Becomes(StockObject(World, 13))
    BY <2>1, <2>8, StockIsHonest, BecomesHonest, HandlesAreNumbers
  <2> QED BY <1>1, <2>2, <2>3, <2>4, <2>5, <2>6, <2>7, <2>8 DEF ObjectStep
<1>2. CASE UNCHANGED objVars
  BY <1>2 DEF objVars, ObjInv, Objects
<1> QED BY <1>1, <1>2

LEMMA HonestHandles == ObjInv => HandlesStayHonest
<1> SUFFICES ASSUME ObjInv PROVE HandlesStayHonest
  OBVIOUS
<1>1. \A n \in Stock : stock[n] # Nothing => objs[stock[n]].kind = StockKind(n)
  BY DEF ObjInv, Honest, Objects
<1>2. fell => \A h \in Handles : objs[h].kind # "free"
  BY DEF ObjInv, Honest, Objects, Full
<1>3. \A dc \in Handles : FontOf(World, dc) # Nothing => objs[FontOf(World, dc)].kind = "font"
  <2> SUFFICES ASSUME NEW dc \in Handles, FontOf(World, dc) # Nothing
               PROVE  objs[FontOf(World, dc)].kind = "font"
    OBVIOUS
  <2>1. World.objs = objs /\ World.stock = stock
    BY DEF World
  <2>2. CASE FontOf(World, dc) = stock[13]
    BY <1>1, <2>2, HandlesAreNumbers
  <2>3. CASE FontOf(World, dc) # stock[13]
    BY <2>1, <2>3 DEF FontOf
  <2> QED BY <2>2, <2>3
<1> QED BY <1>1, <1>2, <1>3 DEF HandlesStayHonest

\* stock_object, obj_free and dc_font (headless.c): whatever is made and
\* deleted under handles that are used again, what text is measured with is a
\* font, and a stock object is there and of its kind.
THEOREM HandlesAlwaysHonest == ObjectSpecification => []HandlesStayHonest
<1>1. ObjectInit => ObjInv
  BY ObjectsBegin
<1>2. ObjInv /\ [ObjectStep]_objVars => ObjInv'
  BY ObjectStepKeeps
<1>3. ObjInv => HandlesStayHonest
  BY HonestHandles
<1> QED BY <1>1, <1>2, <1>3, PTL DEF ObjectSpecification

-----------------------------------------------------------------------------
(* The mixer.                                                               *)

MixSpecification == MixInit /\ [][MixStep]_mixVars

Formats == {Format[r] : r \in Resources}
HdrType == {Idle} \cup [busy : {TRUE}, data : Pointers, done : BOOLEAN]
ChanType == [open : BOOLEAN, dev : Formats \cup {NoFormat}, hdr : [Headers -> HdrType],
             inflight : Nat, seq : Nat]
WaveType == {NoWave} \cup [used : {TRUE}, ptr : Pointers, fmt : Formats, id : Resources]

\* A channel counts what it has queued, and has a device while it has any.
ChanSound(c) ==
    /\ c \in ChanType
    /\ c.inflight = Cardinality(Busy(c))
    /\ Busy(c) # {} => HasDevice(c)

LEMMA FormatsAreFormats == NoFormat \notin Formats /\ Headers \subseteq Nat /\ NHDR \in Nat
BY MixerConstants DEF Formats, Headers

LEMMA HeadersFinite ==
    ASSUME NEW S, S \subseteq Headers
    PROVE  /\ IsFiniteSet(S) /\ Cardinality(S) \in Nat
           /\ Cardinality(S) = 0 <=> S = {}
<1>1. IsFiniteSet(Headers)
  BY FormatsAreFormats, FS_Interval DEF Headers
<1>2. IsFiniteSet(S)
  BY <1>1, FS_Subset
<1> QED BY <1>2, FS_CardinalityType, FS_EmptySet

LEMMA IdleIsNotBusy ==
    /\ Idle \in HdrType /\ Idle.busy = FALSE
    /\ \A x \in HdrType : x.busy = (x # Idle)
    /\ \A x \in HdrType : x # Idle => x \in [busy : {TRUE}, data : Pointers, done : BOOLEAN]
    /\ \A p \in Pointers : Playing(p) \in HdrType /\ Playing(p) # Idle /\ Playing(p).data = p
                           /\ Playing(p).done = FALSE
<1>1. \A x \in [busy : {TRUE}, data : Pointers, done : BOOLEAN] : x.busy = TRUE
  OBVIOUS
<1>2. Idle.busy = FALSE /\ Idle \in HdrType
  BY DEF Idle, HdrType
<1>3. \A x \in HdrType : x.busy = (x # Idle)
  BY <1>1, <1>2 DEF HdrType
<1>4. \A p \in Pointers : Playing(p) \in [busy : {TRUE}, data : Pointers, done : BOOLEAN]
                           /\ Playing(p).busy = TRUE /\ Playing(p).data = p /\ Playing(p).done = FALSE
  BY DEF Playing
<1>5. \A p \in Pointers : Playing(p) # Idle
  BY <1>2, <1>4
<1> QED BY <1>2, <1>3, <1>4, <1>5 DEF HdrType

LEMMA BusyParts ==
    ASSUME NEW c, c \in ChanType
    PROVE  /\ Busy(c) = {h \in Headers : c.hdr[h] # Idle}
           /\ Done(c) \subseteq Busy(c) /\ Busy(c) \subseteq Headers
BY IdleIsNotBusy DEF ChanType, Busy, Done

\* Looking for buffers that are done takes those and no other.
LEMMA ServicedSound ==
    ASSUME NEW c, ChanSound(c)
    PROVE  /\ ChanSound(Serviced(c))
           /\ Busy(Serviced(c)) = Busy(c) \ Done(c)
           /\ Done(Serviced(c)) = {}
           /\ Serviced(c).dev = c.dev /\ Serviced(c).open = c.open
           /\ \A h \in Busy(c) \ Done(c) : Serviced(c).hdr[h] = c.hdr[h]
<1> DEFINE v == [c EXCEPT !.hdr = [h \in Headers |-> IF h \in Done(c) THEN Idle ELSE c.hdr[h]],
                          !.inflight = @ - Cardinality(Done(c))]
<1>1. c \in ChanType /\ Done(c) \subseteq Busy(c) /\ Busy(c) \subseteq Headers
      /\ Busy(c) = {h \in Headers : c.hdr[h] # Idle}
  BY BusyParts DEF ChanSound
<1>2. CASE ~HasDevice(c) \/ c.inflight = 0
  <2>1. Busy(c) = {}
    BY <1>1, <1>2, HeadersFinite DEF ChanSound
  <2>2. Serviced(c) = c
    BY <1>2 DEF Serviced
  <2> QED BY <1>1, <2>1, <2>2
<1>3. CASE HasDevice(c) /\ c.inflight # 0
  <2>1. Serviced(c) = v
    BY <1>3 DEF Serviced
  <2>2. Cardinality(Busy(c) \ Done(c)) = c.inflight - Cardinality(Done(c))
    <3>1. IsFiniteSet(Busy(c)) /\ Busy(c) \cap Done(c) = Done(c)
      BY <1>1, HeadersFinite
    <3>2. Cardinality(Busy(c) \ Done(c)) = Cardinality(Busy(c)) - Cardinality(Busy(c) \cap Done(c))
      BY <3>1, FS_Difference
    <3> QED BY <3>1, <3>2 DEF ChanSound
  <2>3. Cardinality(Busy(c) \ Done(c)) \in Nat
    BY <1>1, HeadersFinite
  <2>4. /\ v.dev = c.dev /\ v.open = c.open /\ v.seq = c.seq
        /\ v.inflight = Cardinality(Busy(c) \ Done(c))
        /\ v.hdr = [h \in Headers |-> IF h \in Done(c) THEN Idle ELSE c.hdr[h]]
        /\ v \in ChanType
    <3>1. [h \in Headers |-> IF h \in Done(c) THEN Idle ELSE c.hdr[h]] \in [Headers -> HdrType]
      BY <1>1, IdleIsNotBusy DEF ChanType
    <3> QED BY <1>1, <2>2, <2>3, <3>1 DEF ChanType
  <2> HIDE DEF v
  <2>5. Busy(v) = Busy(c) \ Done(c)
    BY <1>1, <2>4, BusyParts
  <2>6. \A h \in Busy(c) \ Done(c) : v.hdr[h] = c.hdr[h]
    BY <1>1, <2>4
  <2>7. Done(v) = {}
    BY <2>5, <2>6 DEF Done
  <2>8. ChanSound(v)
    BY <1>3, <2>4, <2>5 DEF ChanSound, HasDevice
  <2> QED BY <2>1, <2>4, <2>5, <2>6, <2>7, <2>8
<1> QED BY <1>2, <1>3

\* A channel that is reset, or shut, has nothing left in flight.
LEMMA ResetSound ==
    ASSUME NEW c, ChanSound(c)
    PROVE  /\ ChanSound(Reset(c)) /\ Busy(Reset(c)) = {}
           /\ Reset(c).dev = c.dev /\ Reset(c).open = c.open
<1> DEFINE f == [h \in Headers |-> IF c.hdr[h].busy THEN [c.hdr[h] EXCEPT !.done = TRUE] ELSE Idle]
           v == [c EXCEPT !.hdr = f]
<1>1. c \in ChanType /\ Busy(c) = {h \in Headers : c.hdr[h] # Idle}
  BY BusyParts DEF ChanSound
<1>2. CASE ~HasDevice(c)
  BY <1>2 DEF Reset, ChanSound
<1>3. CASE HasDevice(c)
  <2>1. \A h \in Headers : /\ c.hdr[h] \in HdrType
                           /\ f[h] \in HdrType
                           /\ f[h] # Idle <=> c.hdr[h] # Idle
                           /\ f[h] # Idle => f[h].done
    <3> SUFFICES ASSUME NEW h \in Headers
                 PROVE  /\ c.hdr[h] \in HdrType
                        /\ f[h] \in HdrType
                        /\ f[h] # Idle <=> c.hdr[h] # Idle
                        /\ f[h] # Idle => f[h].done
      OBVIOUS
    <3>1. c.hdr[h] \in HdrType
      BY <1>1 DEF ChanType
    <3>2. CASE c.hdr[h] = Idle
      BY <3>1, <3>2, IdleIsNotBusy
    <3>3. CASE c.hdr[h] # Idle
      <4>1. c.hdr[h] \in [busy : {TRUE}, data : Pointers, done : BOOLEAN] /\ c.hdr[h].busy
        BY <3>1, <3>3, IdleIsNotBusy
      <4>2. f[h] = [c.hdr[h] EXCEPT !.done = TRUE]
        BY <4>1
      <4>3. f[h] \in [busy : {TRUE}, data : Pointers, done : BOOLEAN] /\ f[h].done /\ f[h].busy
        BY <4>1, <4>2
      <4> QED BY <3>1, <3>3, <4>3, IdleIsNotBusy DEF HdrType
    <3> QED BY <3>2, <3>3
  <2>2. /\ v.dev = c.dev /\ v.open = c.open /\ v.inflight = c.inflight /\ v.hdr = f
        /\ v \in ChanType
    <3>1. f \in [Headers -> HdrType]
      BY <2>1
    <3> HIDE DEF f
    <3> QED BY <1>1, <3>1 DEF ChanType
  <2> HIDE DEF v, f
  <2>3. Busy(v) = Busy(c)
    BY <1>1, <2>1, <2>2, BusyParts
  <2>4. Done(v) = Busy(v)
    BY <1>1, <2>1, <2>2, <2>3 DEF Done
  <2>5. ChanSound(v)
    BY <2>2, <2>3, <1>3 DEF ChanSound, HasDevice
  <2>6. Reset(c) = Serviced(v)
    BY <1>3 DEF Reset, v, f
  <2> QED BY <2>2, <2>4, <2>5, <2>6, ServicedSound
<1> QED BY <1>2, <1>3

LEMMA ShutSound ==
    ASSUME NEW c, ChanSound(c)
    PROVE  /\ ChanSound(Shut(c)) /\ Busy(Shut(c)) = {}
           /\ ~HasDevice(Shut(c)) /\ Shut(c).open = c.open
<1>1. CASE ~HasDevice(c)
  BY <1>1 DEF Shut, ChanSound
<1>2. CASE HasDevice(c)
  <2> DEFINE r == Reset(c)
             v == [r EXCEPT !.dev = NoFormat, !.inflight = 0, !.hdr = [h \in Headers |-> Idle]]
  <2>1. Shut(c) = v
    BY <1>2 DEF Shut
  <2>2. r \in ChanType /\ r.open = c.open
    BY ResetSound DEF ChanSound
  <2> HIDE DEF r
  <2>3. v \in ChanType /\ v.dev = NoFormat /\ v.inflight = 0 /\ v.open = c.open
        /\ v.hdr = [h \in Headers |-> Idle]
    BY <2>2, IdleIsNotBusy DEF ChanType
  <2> HIDE DEF v
  <2>4. Busy(v) = {}
    BY <2>3, BusyParts
  <2> QED BY <2>1, <2>3, <2>4, FS_EmptySet DEF ChanSound, HasDevice
<1> QED BY <1>1, <1>2

LEMMA SoundReads ==
    ASSUME NEW c, ChanSound(c)
    PROVE  /\ Read(Serviced(c)) = Read(c)
           /\ Read(Reset(c)) = {} /\ Read(Shut(c)) = {}
<1>1. Read(Serviced(c)) = Read(c)
  BY ServicedSound DEF Read
<1>2. Read(Reset(c)) = {} /\ Read(Shut(c)) = {}
  BY ResetSound, ShutSound DEF Read
<1> QED BY <1>1, <1>2

\* A channel seen to before a play has a device if the play may go on, and
\* none it did not have if the mixer may not open one.
LEMMA WithDeviceSound ==
    ASSUME NEW c, ChanSound(c), NEW f \in Formats, NEW d \in WithDevice(c, f)
    PROVE  /\ ChanSound(d.c) /\ Read(d.c) \subseteq Read(c)
           /\ d.ok => HasDevice(d.c) /\ MayOpen
           /\ HasDevice(d.c) => HasDevice(c) \/ MayOpen
           /\ ~d.ok /\ d.asked => ~HasDevice(d.c)
           /\ d.c.open = c.open
<1>0. NoFormat \notin Formats
  BY FormatsAreFormats
<1>1. CASE ~MayOpen
  BY <1>1 DEF WithDevice
<1>2. CASE MayOpen /\ c.dev = f
  BY <1>0, <1>2 DEF WithDevice, HasDevice
<1>3. CASE MayOpen /\ c.dev # f
  <2> DEFINE s == Shut(c)
             v == [s EXCEPT !.dev = f]
  <2>1. ChanSound(s) /\ Busy(s) = {} /\ ~HasDevice(s) /\ Read(s) = {} /\ s.open = c.open
    BY ShutSound, SoundReads
  <2>2. d = [c |-> v, ok |-> TRUE, asked |-> TRUE] \/ d = [c |-> s, ok |-> FALSE, asked |-> TRUE]
    BY <1>3 DEF WithDevice
  <2> HIDE DEF s
  <2>3. v \in ChanType /\ v.dev = f /\ v.hdr = s.hdr /\ v.inflight = s.inflight /\ v.open = s.open
    BY <2>1 DEF ChanSound, ChanType
  <2> HIDE DEF v
  <2>4. Busy(v) = {}
    BY <2>1, <2>3 DEF Busy
  <2>5. ChanSound(v) /\ HasDevice(v) /\ Read(v) = {}
    BY <1>0, <2>1, <2>3, <2>4 DEF ChanSound, HasDevice, Read
  <2>6. CASE d = [c |-> v, ok |-> TRUE, asked |-> TRUE]
    <3>1. d.c = v /\ d.ok = TRUE /\ d.asked = TRUE
      BY <2>6
    <3> QED BY <1>3, <2>1, <2>3, <2>5, <3>1
  <2>7. CASE d = [c |-> s, ok |-> FALSE, asked |-> TRUE]
    <3>1. d.c = s /\ d.ok = FALSE /\ d.asked = TRUE
      BY <2>7
    <3> QED BY <2>1, <3>1
  <2> QED BY <2>2, <2>6, <2>7
<1> QED BY <1>1, <1>2, <1>3

\* One more buffer, of the wave that is played.
LEMMA QueuedSound ==
    ASSUME NEW c, ChanSound(c), HasDevice(c), NEW w, w.ptr \in Pointers, seq \in Nat,
           NEW x \in Queued(c, w)
    PROVE  /\ ChanSound(x) /\ Read(x) \subseteq Read(c) \cup {w.ptr}
           /\ HasDevice(x) /\ x.open = c.open
           /\ \A h \in Busy(c) \ Done(c) : x.hdr[h] # Idle
<1> DEFINE s == Serviced(c)
           free == Headers \ Busy(s)
           m == Min(free)
           v == [s EXCEPT !.hdr[m] = Playing(w.ptr), !.inflight = @ + 1, !.seq = seq + 1]
<1>1. /\ ChanSound(s) /\ s.dev = c.dev /\ s.open = c.open /\ Read(s) = Read(c)
      /\ Busy(s) = Busy(c) \ Done(c) /\ \A h \in Busy(c) \ Done(c) : s.hdr[h] = c.hdr[h]
  BY ServicedSound, SoundReads
<1>2. \A h \in Busy(c) \ Done(c) : s.hdr[h] # Idle
  BY <1>1, BusyParts DEF ChanSound
<1>3. x = s \/ (free # {} /\ x = v)
  BY DEF Queued
<1> HIDE DEF s
<1>4. CASE x = s
  BY <1>1, <1>2, <1>4 DEF HasDevice
<1>5. CASE free # {} /\ x = v
  <2>1. m \in Headers /\ m \notin Busy(s)
    <3>1. free \in SUBSET Nat
      BY FormatsAreFormats
    <3>2. m \in free
      BY <1>5, <3>1, LeastIsThere
    <3> QED BY <3>2
  <2> HIDE DEF m
  <2>2. /\ v.dev = s.dev /\ v.open = s.open /\ v.inflight = s.inflight + 1
        /\ v.hdr = [s.hdr EXCEPT ![m] = Playing(w.ptr)]
        /\ v \in ChanType
    <3> DEFINE g == [s.hdr EXCEPT ![m] = Playing(w.ptr)]
    <3>1. s \in ChanType /\ s.inflight + 1 \in Nat /\ seq + 1 \in Nat
      BY <1>1 DEF ChanSound, ChanType
    <3>2. g \in [Headers -> HdrType]
      BY <2>1, <3>1, IdleIsNotBusy DEF ChanType
    <3>3. v = [s EXCEPT !.hdr = g, !.inflight = s.inflight + 1, !.seq = seq + 1]
      BY <3>1 DEF ChanType
    <3> HIDE DEF g, v
    <3>4. /\ v.dev = s.dev /\ v.open = s.open /\ v.inflight = s.inflight + 1
          /\ v.hdr = g /\ v \in ChanType
      BY <3>1, <3>2, <3>3 DEF ChanType
    <3> QED BY <3>4 DEF g
  <2> HIDE DEF v
  <2>3. \A h \in Headers : v.hdr[h] = IF h = m THEN Playing(w.ptr) ELSE s.hdr[h]
    BY <1>1, <2>1, <2>2 DEF ChanSound, ChanType
  <2>4. Busy(v) = Busy(s) \cup {m}
    <3>1. /\ Busy(s) = {h \in Headers : s.hdr[h] # Idle}
          /\ Busy(v) = {h \in Headers : v.hdr[h] # Idle}
      BY <1>1, <2>2, BusyParts DEF ChanSound
    <3>2. Playing(w.ptr) # Idle
      BY IdleIsNotBusy
    <3> QED BY <2>1, <2>3, <3>1, <3>2
  <2>5. Cardinality(Busy(v)) = Cardinality(Busy(s)) + 1
    <3>1. IsFiniteSet(Busy(s))
      BY <1>1, BusyParts, HeadersFinite DEF ChanSound
    <3> QED BY <2>1, <2>4, <3>1, FS_AddElement
  <2>6. ChanSound(v)
    BY <1>1, <2>2, <2>5 DEF ChanSound, HasDevice
  <2>7. Read(v) \subseteq Read(s) \cup {w.ptr}
    <3> SUFFICES ASSUME NEW h \in Busy(v) \ Done(v) PROVE v.hdr[h].data \in Read(s) \cup {w.ptr}
      BY DEF Read
    <3>1. h \in Headers
      BY DEF Busy
    <3>2. CASE h = m
      BY <2>3, <3>1, <3>2, IdleIsNotBusy
    <3>3. CASE h # m
      <4>1. h \in Busy(s) /\ v.hdr[h] = s.hdr[h]
        BY <2>3, <2>4, <3>1, <3>3
      <4>2. h \notin Done(s)
        BY <4>1 DEF Done
      <4> QED BY <4>1, <4>2 DEF Read
    <3> QED BY <3>2, <3>3
  <2>8. \A h \in Busy(c) \ Done(c) : v.hdr[h] # Idle
    BY <1>1, <1>2, <2>1, <2>3, IdleIsNotBusy DEF Busy
  <2> QED BY <1>1, <1>5, <2>2, <2>6, <2>7, <2>8 DEF HasDevice
<1> QED BY <1>3, <1>4, <1>5

-----------------------------------------------------------------------------
(* The invariant: the channels are sound, what they read is open, two waves *)
(* are in two places, and nobody has a device that was given back.          *)

MixShape ==
    /\ up \in BOOLEAN /\ suspended \in BOOLEAN /\ nodevice \in BOOLEAN
    /\ seq \in Nat
    /\ ch \in [Channels -> ChanType]
    /\ wave \in [Slots -> WaveType]

WavesApart == \A s, t \in Opened : wave[s].ptr = wave[t].ptr => s = t

MixInv ==
    /\ MixShape
    /\ \A i \in Channels : ChanSound(ch[i])
    /\ \A i \in Channels : Read(ch[i]) \subseteq {wave[s].ptr : s \in Opened}
    /\ WavesApart
    /\ DeviceGivenBack

LEMMA WavesTyped ==
    ASSUME MixShape
    PROVE  /\ Opened = {s \in Slots : wave[s] # NoWave}
           /\ \A s \in Opened : wave[s].ptr \in Pointers /\ wave[s].fmt \in Formats
<1> DEFINE Waves == [used : {TRUE}, ptr : Pointers, fmt : Formats, id : Resources]
<1>1. \A x \in Waves : x.used = TRUE /\ x.ptr \in Pointers /\ x.fmt \in Formats
  OBVIOUS
<1>2. NoWave.used = FALSE /\ WaveType = {NoWave} \cup Waves
  BY DEF NoWave, WaveType
<1> HIDE DEF Waves
<1>3. \A x \in WaveType : x.used = (x # NoWave)
  BY <1>1, <1>2
<1>4. \A x \in WaveType : x # NoWave => x.ptr \in Pointers /\ x.fmt \in Formats
  BY <1>1, <1>2
<1>5. \A s \in Slots : wave[s] \in WaveType
  BY DEF MixShape
<1> HIDE DEF NoWave
<1>6. Opened = {s \in Slots : wave[s] # NoWave}
  BY <1>3, <1>5 DEF Opened
<1> QED BY <1>4, <1>5, <1>6

LEMMA ClosedSound == ChanSound(Closed) /\ Busy(Closed) = {} /\ ~HasDevice(Closed) /\ Read(Closed) = {}
<1>1. Closed \in ChanType /\ \A h \in Headers : Closed.hdr[h] = Idle
  BY IdleIsNotBusy DEF Closed, ChanType
<1>2. Busy(Closed) = {}
  BY <1>1, BusyParts
<1> QED BY <1>1, <1>2, FS_EmptySet DEF ChanSound, HasDevice, Closed, Read

LEMMA MixBegins == MixInit => MixInv
<1> SUFFICES ASSUME MixInit PROVE MixInv
  OBVIOUS
<1>1. MixShape
  BY ClosedSound DEF MixInit, MixShape, ChanSound, WaveType
<1>2. Opened = {}
  BY <1>1, WavesTyped DEF MixInit
<1> QED BY <1>1, <1>2, ClosedSound DEF MixInit, MixInv, WavesApart, DeviceGivenBack

\* Where the waves stay as they are, a step need only keep the channels.
LEMMA ChannelsStep ==
    ASSUME MixInv, UNCHANGED wave,
           up' \in BOOLEAN, suspended' \in BOOLEAN, nodevice' \in BOOLEAN, seq' \in Nat,
           ch' = [i \in Channels |-> ch'[i]],
           \A i \in Channels : ChanSound(ch'[i]) /\ Read(ch'[i]) \subseteq {wave[s].ptr : s \in Opened},
           DeviceGivenBack'
    PROVE  MixInv'
<1>1. Opened' = Opened
  BY DEF Opened
<1>2. MixShape'
  <2>1. \A i \in Channels : ch'[i] \in ChanType
    BY DEF ChanSound
  <2> HIDE DEF ChanType
  <2>2. ch' \in [Channels -> ChanType]
    BY <2>1
  <2> QED BY <2>2 DEF MixInv, MixShape
<1>3. WavesApart'
  BY <1>1 DEF MixInv, WavesApart
<1> QED BY <1>1, <1>2, <1>3 DEF MixInv

Memory == {wave[s].ptr : s \in Opened}

LEMMA AllServicedSound ==
    ASSUME MixInv, NEW i \in Channels
    PROVE  /\ ChanSound(AllServiced[i]) /\ Read(AllServiced[i]) = Read(ch[i])
           /\ AllServiced[i].dev = ch[i].dev /\ AllServiced[i].open = ch[i].open
           /\ Busy(AllServiced[i]) = Busy(ch[i]) \ Done(ch[i])
<1>1. ChanSound(ch[i]) /\ AllServiced[i] = Serviced(ch[i])
  BY DEF MixInv, AllServiced
<1> QED BY <1>1, ServicedSound, SoundReads

\* A channel that is looked at, reset, shut or opened reads no more than it did.
LEMMA ConfigureInitKeeps == MixInv /\ ConfigureInit => MixInv'
<1> SUFFICES ASSUME MixInv, ConfigureInit PROVE MixInv'
  OBVIOUS
<1>1. \A i \in Channels : ch'[i] = Closed
  BY DEF ConfigureInit
<1>2. MixShape'
  <2>1. ch' \in [Channels -> ChanType]
    BY ClosedSound DEF ConfigureInit, ChanSound
  <2>2. wave' \in [Slots -> WaveType]
    BY DEF ConfigureInit, WaveType
  <2> QED BY <2>1, <2>2 DEF ConfigureInit, MixShape
<1>3. Opened' = {}
  <2>1. \A s \in Slots : wave'[s] = NoWave
    BY DEF ConfigureInit
  <2> QED BY <2>1 DEF Opened, NoWave
<1> QED BY <1>1, <1>2, <1>3, ClosedSound DEF MixInv, WavesApart, DeviceGivenBack

LEMMA PumpKeeps == MixInv /\ Pump => MixInv'
<1> SUFFICES ASSUME MixInv, Pump PROVE MixInv'
  OBVIOUS
<1>1. ch' = AllServiced /\ ch' = [i \in Channels |-> ch'[i]]
  BY DEF Pump, AllServiced
<1>2. \A i \in Channels : /\ ChanSound(ch'[i]) /\ Read(ch'[i]) = Read(ch[i])
                          /\ ch'[i].dev = ch[i].dev
  BY <1>1, AllServicedSound
<1>3. DeviceGivenBack'
  BY <1>2 DEF MixInv, DeviceGivenBack, HasDevice, Pump
<1> QED BY <1>1, <1>2, <1>3, ChannelsStep DEF MixInv, MixShape, Pump

LEMMA OpenChannelKeeps == \A i \in Channels : MixInv /\ OpenChannel(i) => MixInv'
<1> SUFFICES ASSUME NEW i \in Channels, MixInv, OpenChannel(i) PROVE MixInv'
  OBVIOUS
<1> DEFINE o(j) == [ch[j] EXCEPT !.open = @ \/ j = i]
<1>1. ASSUME NEW j \in Channels
      PROVE /\ ChanSound(ch'[j]) /\ Read(ch'[j]) = Read(ch[j])
            /\ ch'[j].dev = ch[j].dev
  <2>1. ChanSound(ch[j]) /\ ch[j] \in ChanType
    BY DEF MixInv, ChanSound
  <2>2. (ch[j].open \/ j = i) \in BOOLEAN
    BY <2>1 DEF ChanType
  <2>3. /\ o(j) \in ChanType /\ o(j).dev = ch[j].dev /\ o(j).hdr = ch[j].hdr
        /\ o(j).inflight = ch[j].inflight
    BY <2>1, <2>2 DEF ChanType
  <2>4. ch'[j] = Serviced(o(j))
    BY DEF OpenChannel
  <2> HIDE DEF o
  <2>5. Busy(o(j)) = Busy(ch[j]) /\ Read(o(j)) = Read(ch[j])
    BY <2>3 DEF Busy, Done, Read
  <2>6. ChanSound(o(j))
    BY <2>1, <2>3, <2>5 DEF ChanSound, HasDevice
  <2> QED BY <2>3, <2>4, <2>5, <2>6, ServicedSound, SoundReads
<1>2. ch' = [j \in Channels |-> ch'[j]]
  BY DEF OpenChannel
<1>3. DeviceGivenBack'
  BY <1>1 DEF MixInv, DeviceGivenBack, HasDevice, OpenChannel
<1> QED BY <1>1, <1>2, <1>3, ChannelsStep DEF MixInv, MixShape, OpenChannel

LEMMA FlushKeeps == \A S \in SUBSET Channels : MixInv /\ Flush(S) => MixInv'
<1> SUFFICES ASSUME NEW S \in SUBSET Channels, MixInv, Flush(S) PROVE MixInv'
  OBVIOUS
<1>1. \A j \in Channels : /\ ChanSound(ch'[j]) /\ Read(ch'[j]) \subseteq Read(ch[j])
                          /\ ch'[j].dev = ch[j].dev
  <2> SUFFICES ASSUME NEW j \in Channels
               PROVE /\ ChanSound(ch'[j]) /\ Read(ch'[j]) \subseteq Read(ch[j])
                     /\ ch'[j].dev = ch[j].dev
    OBVIOUS
  <2>1. ChanSound(ch[j]) /\ ch'[j] = IF j \in S THEN Reset(ch[j]) ELSE ch[j]
    BY DEF MixInv, Flush
  <2> QED BY <2>1, ResetSound, SoundReads
<1>2. ch' = [j \in Channels |-> ch'[j]]
  BY DEF Flush
<1>3. DeviceGivenBack'
  BY <1>1 DEF MixInv, DeviceGivenBack, HasDevice, Flush
<1> QED BY <1>1, <1>2, <1>3, ChannelsStep DEF MixInv, MixShape, Flush

\* A channel that is shut and closed.
LEMMA ClosedAgainSound ==
    ASSUME NEW c, ChanSound(c)
    PROVE  LET v == [Shut(c) EXCEPT !.open = FALSE]
           IN  ChanSound(v) /\ Read(v) = {} /\ ~HasDevice(v) /\ v.open = FALSE
<1> DEFINE s == Shut(c)
           v == [s EXCEPT !.open = FALSE]
<1>1. ChanSound(s) /\ s \in ChanType /\ Busy(s) = {} /\ ~HasDevice(s) /\ Read(s) = {}
  BY ShutSound, SoundReads DEF ChanSound
<1> HIDE DEF s
<1>2. v \in ChanType /\ v.open = FALSE /\ v.dev = s.dev /\ v.hdr = s.hdr /\ v.inflight = s.inflight
  BY <1>1 DEF ChanType
<1> HIDE DEF v
<1>3. Busy(v) = {} /\ Read(v) = {} /\ ~HasDevice(v)
  BY <1>1, <1>2 DEF Busy, Read, HasDevice
<1>4. ChanSound(v)
  BY <1>1, <1>2, <1>3 DEF ChanSound
<1> QED BY <1>2, <1>3, <1>4 DEF v, s

LEMMA CloseChannelKeeps == \A S \in SUBSET Channels : MixInv /\ CloseChannel(S) => MixInv'
<1> SUFFICES ASSUME NEW S \in SUBSET Channels, MixInv, CloseChannel(S) PROVE MixInv'
  OBVIOUS
<1>1. \A j \in Channels : /\ ChanSound(ch'[j]) /\ Read(ch'[j]) \subseteq Read(ch[j])
                          /\ HasDevice(ch'[j]) => HasDevice(ch[j])
  <2> SUFFICES ASSUME NEW j \in Channels
               PROVE /\ ChanSound(ch'[j]) /\ Read(ch'[j]) \subseteq Read(ch[j])
                     /\ HasDevice(ch'[j]) => HasDevice(ch[j])
    OBVIOUS
  <2>1. ChanSound(ch[j]) /\ ch'[j] = IF j \in S THEN [Shut(ch[j]) EXCEPT !.open = FALSE] ELSE ch[j]
    BY DEF MixInv, CloseChannel
  <2> QED BY <2>1, ClosedAgainSound
<1>2. ch' = [j \in Channels |-> ch'[j]]
  BY DEF CloseChannel
<1>3. DeviceGivenBack'
  BY <1>1 DEF MixInv, DeviceGivenBack, CloseChannel
<1> QED BY <1>1, <1>2, <1>3, ChannelsStep DEF MixInv, MixShape, CloseChannel

LEMMA ActivateKeeps == \A on \in BOOLEAN : MixInv /\ Activate(on) => MixInv'
<1> SUFFICES ASSUME NEW on \in BOOLEAN, MixInv, Activate(on) PROVE MixInv'
  OBVIOUS
<1>1. CASE on = TRUE
  <2>1. DeviceGivenBack'
    BY <1>1 DEF MixInv, DeviceGivenBack, Activate
  <2>2. ch' = ch /\ suspended' \in BOOLEAN
    BY <1>1 DEF Activate
  <2> QED BY <2>1, <2>2, ChannelsStep DEF MixInv, MixShape, Activate
<1>2. CASE on = FALSE
  <2>1. ch' = [i \in Channels |-> Shut(ch[i])] /\ suspended' = TRUE
    BY <1>2 DEF Activate
  <2>2. \A j \in Channels : ChanSound(ch'[j]) /\ Read(ch'[j]) = {} /\ ~HasDevice(ch'[j])
    <3> SUFFICES ASSUME NEW j \in Channels
                 PROVE ChanSound(ch'[j]) /\ Read(ch'[j]) = {} /\ ~HasDevice(ch'[j])
      OBVIOUS
    <3>1. ChanSound(ch[j]) /\ ch'[j] = Shut(ch[j])
      BY <2>1 DEF MixInv
    <3> QED BY <3>1, ShutSound, SoundReads
  <2>3. DeviceGivenBack'
    BY <2>2 DEF DeviceGivenBack
  <2>4. ch' = [j \in Channels |-> ch'[j]]
    BY <2>1
  <2> QED BY <2>1, <2>2, <2>3, <2>4, ChannelsStep DEF MixInv, MixShape, Activate
<1> QED BY <1>1, <1>2

LEMMA CloseSessionKeeps == MixInv /\ CloseSession => MixInv'
<1> SUFFICES ASSUME MixInv, CloseSession PROVE MixInv'
  OBVIOUS
<1>1. \A j \in Channels : ChanSound(ch'[j]) /\ Read(ch'[j]) = {} /\ ~HasDevice(ch'[j])
  <2> SUFFICES ASSUME NEW j \in Channels
               PROVE ChanSound(ch'[j]) /\ Read(ch'[j]) = {} /\ ~HasDevice(ch'[j])
    OBVIOUS
  <2>1. ChanSound(ch[j]) /\ ch'[j] = [Shut(ch[j]) EXCEPT !.open = FALSE]
    BY DEF MixInv, CloseSession
  <2> QED BY <2>1, ClosedAgainSound
<1>2. MixShape'
  <2>1. \A j \in Channels : ch'[j] \in ChanType
    BY <1>1 DEF ChanSound
  <2> HIDE DEF ChanType
  <2>2. ch' \in [Channels -> ChanType]
    <3>1. ch' = [j \in Channels |-> ch'[j]]
      BY DEF CloseSession
    <3> QED BY <2>1, <3>1
  <2>3. wave' \in [Slots -> WaveType]
    BY DEF CloseSession, WaveType
  <2> QED BY <2>2, <2>3 DEF CloseSession, MixInv, MixShape
<1>3. Opened' = {}
  <2>1. \A s \in Slots : wave'[s] = NoWave
    BY DEF CloseSession
  <2> QED BY <2>1 DEF Opened, NoWave
<1> QED BY <1>1, <1>2, <1>3 DEF MixInv, WavesApart, DeviceGivenBack

LEMMA OpenWaveKeeps == \A r \in Resources : MixInv /\ OpenWave(r) => MixInv'
<1> SUFFICES ASSUME NEW r \in Resources, MixInv, OpenWave(r) PROVE MixInv'
  OBVIOUS
<1> DEFINE k == Min(Slots \ Opened)
<1>1. PICK p \in Pointers \ Memory :
         wave' = [wave EXCEPT ![k] = [used |-> TRUE, ptr |-> p, fmt |-> Format[r], id |-> r]]
  BY DEF OpenWave, Memory
<1>2. k \in Slots /\ k \notin Opened
  <2>1. Slots \ Opened \in SUBSET Nat /\ Slots \ Opened # {}
    BY DEF OpenWave, Slots, Opened
  <2> QED BY <2>1, LeastIsThere
<1> HIDE DEF k
<1> DEFINE w == [used |-> TRUE, ptr |-> p, fmt |-> Format[r], id |-> r]
<1>3. w \in WaveType /\ w.used = TRUE /\ w.ptr = p
  BY DEF WaveType, Formats
<1> HIDE DEF w
<1>4. wave \in [Slots -> WaveType] /\ wave' = [wave EXCEPT ![k] = w]
  BY <1>1 DEF MixInv, MixShape, w
<1>5. \A s \in Slots : wave'[s] = IF s = k THEN w ELSE wave[s]
  BY <1>2, <1>4
<1>6. Opened' = Opened \cup {k}
  BY <1>2, <1>3, <1>5 DEF Opened
<1>7. \A s \in Opened : wave'[s] = wave[s] /\ wave'[s].ptr # p
  BY <1>1, <1>2, <1>5 DEF Opened, Memory
<1>8. wave'[k].ptr = p
  BY <1>2, <1>3, <1>5
<1>9. WavesApart'
  BY <1>6, <1>7, <1>8 DEF MixInv, WavesApart
<1>10. {wave[s].ptr : s \in Opened} \subseteq {wave'[s].ptr : s \in Opened'}
  BY <1>6, <1>7
<1>11. MixShape'
  <2>1. wave' \in [Slots -> WaveType]
    BY <1>2, <1>3, <1>4
  <2> QED BY <2>1 DEF MixInv, MixShape, OpenWave
<1>12. ch' = ch /\ up' = up /\ suspended' = suspended /\ nodevice' = nodevice
  BY DEF OpenWave
<1>13. DeviceGivenBack'
  BY <1>12 DEF MixInv, DeviceGivenBack
<1> QED BY <1>9, <1>10, <1>11, <1>12, <1>13 DEF MixInv

LEMMA FreeWaveKeeps == \A p \in Pointers : MixInv /\ FreeWave(p) => MixInv'
<1> SUFFICES ASSUME NEW p \in Pointers, MixInv, FreeWave(p) PROVE MixInv'
  OBVIOUS
<1>1. PICK k \in Find(p) : wave' = [wave EXCEPT ![k] = NoWave]
  BY DEF FreeWave
<1>2. k \in Slots /\ wave \in [Slots -> WaveType] /\ NoWave \in WaveType
  BY DEF Find, Opened, MixInv, MixShape, WaveType
<1>3. \A s \in Slots : wave'[s] = IF s = k THEN NoWave ELSE wave[s]
  BY <1>1, <1>2
<1>4. NoWave.used = FALSE
  BY DEF NoWave
<1>5. Opened' = Opened \ {k}
  BY <1>2, <1>3, <1>4 DEF Opened
<1>6. WavesApart'
  <2>1. \A s \in Opened' : wave'[s] = wave[s] /\ s \in Opened
    BY <1>3, <1>5 DEF Opened
  <2> QED BY <2>1 DEF MixInv, WavesApart
<1>7. \A j \in Channels : ChanSound(ch'[j]) /\ Read(ch'[j]) = {} /\ ch'[j].dev = ch[j].dev
  <2> SUFFICES ASSUME NEW j \in Channels
               PROVE ChanSound(ch'[j]) /\ Read(ch'[j]) = {} /\ ch'[j].dev = ch[j].dev
    OBVIOUS
  <2>1. ChanSound(ch[j]) /\ ch'[j] = Reset(ch[j])
    BY DEF MixInv, FreeWave, Stopped
  <2> QED BY <2>1, ResetSound, SoundReads
<1>8. MixShape'
  <2>1. \A j \in Channels : ch'[j] \in ChanType
    BY <1>7 DEF ChanSound
  <2>2. wave' \in [Slots -> WaveType]
    BY <1>1, <1>2
  <2> HIDE DEF ChanType
  <2>3. ch' \in [Channels -> ChanType]
    <3>1. ch' = [j \in Channels |-> ch'[j]]
      BY DEF FreeWave, Stopped
    <3> QED BY <2>1, <3>1
  <2> QED BY <2>2, <2>3 DEF FreeWave, MixInv, MixShape
<1>9. DeviceGivenBack'
  BY <1>7 DEF MixInv, DeviceGivenBack, HasDevice, FreeWave
<1> QED BY <1>6, <1>7, <1>8, <1>9 DEF MixInv

LEMMA HostDoneKeeps == \A i \in Channels, h \in Headers : MixInv /\ HostDone(i, h) => MixInv'
<1> SUFFICES ASSUME NEW i \in Channels, NEW h \in Headers, MixInv, HostDone(i, h) PROVE MixInv'
  OBVIOUS
<1> DEFINE c == ch[i]
           x == [c.hdr[h] EXCEPT !.done = TRUE]
           g == [c.hdr EXCEPT ![h] = x]
           v == [c EXCEPT !.hdr = g]
<1>1. ChanSound(c) /\ c \in ChanType /\ h \in Busy(c) /\ h \notin Done(c)
      /\ Busy(c) = {k \in Headers : c.hdr[k] # Idle}
  BY BusyParts DEF MixInv, ChanSound, HostDone
<1>2. ch' = [ch EXCEPT ![i] = v]
  BY DEF HostDone
<1>3. ch \in [Channels -> ChanType]
  BY DEF MixInv, MixShape
<1> HIDE DEF c
<1>4. x \in HdrType /\ x # Idle /\ x.done /\ x.data = c.hdr[h].data
  <2>1. c.hdr[h] \in [busy : {TRUE}, data : Pointers, done : BOOLEAN]
    BY <1>1, IdleIsNotBusy DEF ChanType
  <2>2. x \in [busy : {TRUE}, data : Pointers, done : BOOLEAN] /\ x.done /\ x.busy
        /\ x.data = c.hdr[h].data
    BY <2>1
  <2> HIDE DEF x
  <2> QED BY <2>2, IdleIsNotBusy DEF HdrType
<1> HIDE DEF x
<1>5. g \in [Headers -> HdrType] /\ \A k \in Headers : g[k] = IF k = h THEN x ELSE c.hdr[k]
  BY <1>1, <1>4 DEF ChanType
<1> HIDE DEF g
<1>6. v \in ChanType /\ v.hdr = g /\ v.dev = c.dev /\ v.inflight = c.inflight
  BY <1>1, <1>5 DEF ChanType
<1> HIDE DEF v
<1>7. Busy(v) = Busy(c)
  <2>1. Busy(v) = {k \in Headers : v.hdr[k] # Idle}
    BY <1>6, BusyParts
  <2> QED BY <1>1, <1>4, <1>5, <1>6, <2>1
<1>8. ChanSound(v)
  BY <1>1, <1>6, <1>7 DEF ChanSound, HasDevice
<1>9. Read(v) \subseteq Read(c)
  <2> SUFFICES ASSUME NEW k \in Busy(v) \ Done(v) PROVE v.hdr[k].data \in Read(c)
    BY DEF Read
  <2>1. k \in Headers /\ k \in Busy(c)
    BY <1>1, <1>7
  <2>2. k # h
    BY <1>4, <1>5, <1>6, <2>1 DEF Done
  <2>3. v.hdr[k] = c.hdr[k]
    BY <1>5, <1>6, <2>1, <2>2
  <2>4. k \notin Done(c)
    BY <2>1, <2>3, <1>7 DEF Done
  <2> QED BY <2>1, <2>3, <2>4 DEF Read
<1>10. \A j \in Channels : ch'[j] = IF j = i THEN v ELSE ch[j]
  BY <1>2, <1>3
<1>11. \A j \in Channels : ChanSound(ch'[j]) /\ Read(ch'[j]) \subseteq Read(ch[j])
                           /\ ch'[j].dev = ch[j].dev
  BY <1>6, <1>8, <1>9, <1>10 DEF MixInv, c
<1>12. ch' = [j \in Channels |-> ch'[j]]
  BY <1>2, <1>3
<1>13. DeviceGivenBack'
  BY <1>11 DEF MixInv, DeviceGivenBack, HasDevice, HostDone
<1> QED BY <1>11, <1>12, <1>13, ChannelsStep DEF MixInv, MixShape, HostDone

\* The channel a play is put on.
LEMMA PlayOnKeeps ==
    \A i \in Channels, s \in Opened, clear \in BOOLEAN :
       MixInv /\ up /\ UNCHANGED <<up, suspended, wave>>
         /\ PlayOn(AllServiced, i, wave[s], clear) => MixInv'
<1> SUFFICES ASSUME NEW i \in Channels, NEW s \in Opened, NEW clear \in BOOLEAN,
                    MixInv, up, UNCHANGED <<up, suspended, wave>>,
                    PlayOn(AllServiced, i, wave[s], clear)
             PROVE  MixInv'
  OBVIOUS
<1> DEFINE cs == AllServiced
           w == wave[s]
           c == IF clear THEN Reset(cs[i]) ELSE cs[i]
           others == {j \in Channels \ {i} : HasDevice(cs[j])}
<1>1. PICK d \in WithDevice(c, w.fmt) :
         /\ nodevice' = (nodevice \/ (d.asked /\ ~d.ok /\ others = {}))
         /\ \/ /\ ~d.ok
               /\ ch' = [cs EXCEPT ![i] = d.c]
               /\ UNCHANGED seq
            \/ /\ d.ok
               /\ \E x \in Queued(d.c, w) :
                     /\ ch' = [cs EXCEPT ![i] = x]
                     /\ seq' = IF x.seq = seq + 1 THEN seq + 1 ELSE seq
  BY DEF PlayOn
<1>2. w.ptr \in Memory /\ w.ptr \in Pointers /\ w.fmt \in Formats /\ seq \in Nat
  BY WavesTyped DEF MixInv, MixShape, Memory
<1>3. \A j \in Channels : /\ ChanSound(cs[j]) /\ Read(cs[j]) \subseteq Memory
                          /\ cs[j].dev = ch[j].dev
  BY AllServicedSound DEF MixInv, Memory
<1>4. cs = [j \in Channels |-> cs[j]]
  BY DEF AllServiced
<1> HIDE DEF cs
<1>5. ChanSound(c) /\ Read(c) \subseteq Memory /\ c.dev = ch[i].dev
  BY <1>3, ResetSound, SoundReads
<1> HIDE DEF c
<1>6. /\ ChanSound(d.c) /\ Read(d.c) \subseteq Memory
      /\ d.ok => HasDevice(d.c) /\ MayOpen
      /\ HasDevice(d.c) => HasDevice(c) \/ MayOpen
      /\ ~d.ok /\ d.asked => ~HasDevice(d.c)
  BY <1>2, <1>5, WithDeviceSound
<1>7. PICK x : /\ ch' = [cs EXCEPT ![i] = x] /\ seq' \in Nat
               /\ ChanSound(x) /\ Read(x) \subseteq Memory
               /\ HasDevice(x) => HasDevice(c) \/ MayOpen
               /\ ~d.ok /\ d.asked => ~HasDevice(x)
  <2>1. CASE ~d.ok
    <3>1. ch' = [cs EXCEPT ![i] = d.c] /\ seq' = seq
      BY <1>1, <2>1
    <3> QED BY <1>2, <1>6, <3>1
  <2>2. CASE d.ok
    <3>1. PICK x \in Queued(d.c, w) : ch' = [cs EXCEPT ![i] = x]
                                      /\ seq' = IF x.seq = seq + 1 THEN seq + 1 ELSE seq
      BY <1>1, <2>2
    <3>2. ChanSound(x) /\ Read(x) \subseteq Memory /\ HasDevice(x)
      BY <1>2, <1>6, <2>2, QueuedSound
    <3>3. seq' \in Nat
      BY <1>2, <3>1
    <3>4. HasDevice(x) => HasDevice(c) \/ MayOpen
      BY <1>6, <2>2
    <3>5. ~d.ok /\ d.asked => ~HasDevice(x)
      BY <2>2
    <3> QED BY <3>1, <3>2, <3>3, <3>4, <3>5
  <2> QED BY <2>1, <2>2
<1>8. \A j \in Channels : ch'[j] = IF j = i THEN x ELSE cs[j]
  BY <1>4, <1>7
<1>9. ch' = [j \in Channels |-> ch'[j]]
  BY <1>4, <1>7
<1>10. \A j \in Channels : ChanSound(ch'[j]) /\ Read(ch'[j]) \subseteq Memory
  BY <1>3, <1>7, <1>8
<1>11. nodevice' \in BOOLEAN
  BY <1>1
<1>12. DeviceGivenBack'
  <2> SUFFICES ASSUME suspended \/ nodevice', NEW j \in Channels PROVE ~HasDevice(ch'[j])
    BY DEF DeviceGivenBack
  <2>1. CASE suspended \/ nodevice
    <3>1. \A k \in Channels : ~HasDevice(ch[k])
      BY <2>1 DEF MixInv, DeviceGivenBack
    <3>2. ~MayOpen
      BY <2>1 DEF MayOpen
    <3> QED BY <1>3, <1>5, <1>7, <1>8, <3>1, <3>2 DEF HasDevice
  <2>2. CASE ~nodevice /\ d.asked /\ ~d.ok /\ others = {}
    BY <1>7, <1>8, <2>2
  <2> QED BY <1>1, <2>1, <2>2
<1> QED BY <1>7, <1>9, <1>10, <1>11, <1>12, ChannelsStep DEF MixInv, MixShape, Memory

LEMMA PlayKeeps ==
    \A p \in Pointers, clear \in BOOLEAN, where \in SUBSET Channels :
       MixInv /\ Play(p, clear, where) => MixInv'
<1> SUFFICES ASSUME NEW p \in Pointers, NEW clear \in BOOLEAN, NEW where \in SUBSET Channels,
                    MixInv, Play(p, clear, where)
             PROVE  MixInv'
  OBVIOUS
<1>1. PICK s \in Find(p), i \in where : PlayOn(AllServiced, i, wave[s], clear)
  BY DEF Play
<1>2. s \in Opened /\ i \in Channels
  BY DEF Find
<1>3. up /\ UNCHANGED <<up, suspended, wave>>
  BY DEF Play
<1> QED BY <1>1, <1>2, <1>3, PlayOnKeeps

LEMMA PickIsThere ==
    ASSUME NEW cs, \A i \in Channels : ChanSound(cs[i])
    PROVE  LET open == {i \in Channels : cs[i].open}
           IN  /\ Pick(cs) \subseteq open
               /\ \A i \in Pick(cs) : cs[i].inflight = 0 \/ \A j \in open : cs[j].inflight # 0
<1> DEFINE open == {i \in Channels : cs[i].open}
           idle == {i \in open : cs[i].inflight = 0}
           oldest == {i \in open : \A j \in open : cs[i].seq <= cs[j].seq}
           begun == {cs[i].seq : i \in open}
<1>1. open \in SUBSET Nat /\ idle \in SUBSET Nat /\ oldest \in SUBSET Nat
  BY DEF Channels
<1>2. Pick(cs) = IF idle # {} THEN {Min(idle)} ELSE IF open = {} THEN {} ELSE {Min(oldest)}
  BY DEF Pick
<1>3. CASE idle # {}
  <2>1. Min(idle) \in idle
    BY <1>1, <1>3, LeastIsThere
  <2> QED BY <1>2, <1>3, <2>1
<1>4. CASE idle = {} /\ open = {}
  BY <1>2, <1>4
<1>5. CASE idle = {} /\ open # {}
  <2>1. \A i \in open : cs[i].seq \in Nat
    BY DEF ChanSound, ChanType
  <2> HIDE DEF open
  <2>2. begun \in SUBSET Nat /\ begun # {}
    BY <1>5, <2>1
  <2>3. Min(begun) \in begun /\ \A y \in begun : Min(begun) <= y
    BY <2>2, LeastIsThere
  <2>4. oldest # {}
    BY <2>3, ZenonT(60)
  <2>5. Min(oldest) \in oldest
    BY <1>1, <2>4, LeastIsThere
  <2>6. \A j \in open : cs[j].inflight # 0
    BY <1>5
  <2>7. Pick(cs) = {Min(oldest)} /\ oldest \subseteq open
    BY <1>2, <1>5
  <2> QED BY <2>5, <2>6, <2>7 DEF open
<1> QED BY <1>3, <1>4, <1>5

LEMMA MixStepKeeps == MixInv /\ [MixStep]_mixVars => MixInv'
<1> SUFFICES ASSUME MixInv, [MixStep]_mixVars PROVE MixInv'
  OBVIOUS
<1>1. ASSUME NEW p \in Pointers, NEW clear \in BOOLEAN, PlayAnywhere(p, clear) PROVE MixInv'
  <2>1. \A i \in Channels : ChanSound(AllServiced[i])
    BY AllServicedSound
  <2>2. Pick(AllServiced) \in SUBSET Channels
    BY <2>1, PickIsThere
  <2> QED BY <1>1, <2>2, PlayKeeps DEF PlayAnywhere
<1>2. ASSUME NEW p \in Pointers, NEW clear \in BOOLEAN, NEW i \in Channels, PlayThere(p, clear, i)
      PROVE MixInv'
  <2>1. {j \in {i} : ch[j].open} \in SUBSET Channels
    OBVIOUS
  <2> QED BY <1>2, <2>1, PlayKeeps DEF PlayThere
<1>3. ASSUME NEW i \in Channels, Flush({i}) \/ CloseChannel({i}) PROVE MixInv'
  <2>1. {i} \in SUBSET Channels
    OBVIOUS
  <2> QED BY <1>3, <2>1, FlushKeeps, CloseChannelKeeps
<1>4. ASSUME Flush(Channels) \/ CloseChannel(Channels) PROVE MixInv'
  <2>1. Channels \in SUBSET Channels
    OBVIOUS
  <2> QED BY <1>4, <2>1, FlushKeeps, CloseChannelKeeps
<1>5. ASSUME ConfigureInit \/ Pump \/ CloseSession PROVE MixInv'
  BY <1>5, ConfigureInitKeeps, PumpKeeps, CloseSessionKeeps
<1>6. ASSUME UNCHANGED mixVars PROVE MixInv'
  <2>1. UNCHANGED <<up, suspended, nodevice, ch, wave, seq>>
    BY <1>6 DEF mixVars
  <2>2. MixShape' /\ DeviceGivenBack'
    BY <2>1 DEF MixInv, MixShape, DeviceGivenBack
  <2> QED BY <2>1, <2>2 DEF MixInv, WavesApart, Opened
<1> QED
  BY <1>1, <1>2, <1>3, <1>4, <1>5, <1>6, OpenWaveKeeps, FreeWaveKeeps, OpenChannelKeeps,
     ActivateKeeps, HostDoneKeeps DEF MixStep

\* What a play the mixer places may cut off.
LEMMA PlacedPlayCuts ==
    MixInv => \A p \in Pointers : PlayAnywhere(p, FALSE) =>
         \A i \in Channels : Cut(i) # {} =>
           /\ \A j \in Channels : ch[j].open => Busy(ch[j]) # Done(ch[j])
           /\ \A s \in Find(p) : wave[s].fmt # ch[i].dev
<1> SUFFICES ASSUME MixInv, NEW p \in Pointers, PlayAnywhere(p, FALSE),
                    NEW i \in Channels, Cut(i) # {}
             PROVE  /\ \A j \in Channels : ch[j].open => Busy(ch[j]) # Done(ch[j])
                    /\ \A s \in Find(p) : wave[s].fmt # ch[i].dev
  OBVIOUS
<1> DEFINE cs == AllServiced
<1>1. PICK s \in Find(p), k \in Pick(cs) : PlayOn(cs, k, wave[s], FALSE)
  BY DEF PlayAnywhere, Play
<1>2. \A j \in Channels : /\ ChanSound(ch[j]) /\ ChanSound(cs[j])
                          /\ cs[j].dev = ch[j].dev /\ cs[j].open = ch[j].open
                          /\ Busy(cs[j]) = Busy(ch[j]) \ Done(ch[j])
                          /\ Busy(ch[j]) \subseteq Headers
  BY AllServicedSound, BusyParts DEF MixInv, ChanSound
<1>3. \A j \in Channels : \A h \in Busy(ch[j]) \ Done(ch[j]) : cs[j].hdr[h] = ch[j].hdr[h]
                                                             /\ ch[j].hdr[h] # Idle
  <2> SUFFICES ASSUME NEW j \in Channels, NEW h \in Busy(ch[j]) \ Done(ch[j])
               PROVE cs[j].hdr[h] = ch[j].hdr[h] /\ ch[j].hdr[h] # Idle
    OBVIOUS
  <2>1. ChanSound(ch[j]) /\ ch[j] \in ChanType /\ cs[j] = Serviced(ch[j])
    BY <1>2 DEF ChanSound, AllServiced
  <2> QED BY <2>1, ServicedSound, BusyParts
<1>4. cs = [j \in Channels |-> cs[j]]
  BY DEF AllServiced
<1> HIDE DEF cs
<1>5. /\ Pick(cs) \subseteq {j \in Channels : cs[j].open}
      /\ cs[k].inflight = 0 \/ \A j \in Channels : cs[j].open => cs[j].inflight # 0
  BY <1>1, <1>2, PickIsThere
<1>6. k \in Channels /\ s \in Opened /\ wave[s].ptr = p /\ wave[s].fmt \in Formats
      /\ wave[s].ptr \in Pointers /\ seq \in Nat
  BY <1>1, <1>5, WavesTyped DEF Find, MixInv, MixShape
<1>7. PICK d \in WithDevice(cs[k], wave[s].fmt) :
         \/ ~d.ok /\ ch' = [cs EXCEPT ![k] = d.c]
         \/ d.ok /\ \E x \in Queued(d.c, wave[s]) : ch' = [cs EXCEPT ![k] = x]
  BY <1>1 DEF PlayOn
<1>8. PICK h \in Busy(ch[i]) \ Done(ch[i]) : ch'[i].hdr[h] = Idle
  BY DEF Cut
<1>9. i = k
  <2> SUFFICES ASSUME i # k PROVE FALSE
    OBVIOUS
  <2>1. ch'[i] = cs[i]
    BY <1>4, <1>7
  <2> QED BY <1>3, <1>8, <2>1
<1>10. cs[k].inflight # 0
  <2>1. h \in Busy(cs[k])
    BY <1>2, <1>8, <1>9
  <2>2. cs[k] \in ChanType /\ cs[k].inflight = Cardinality(Busy(cs[k]))
    BY <1>2, <1>6 DEF ChanSound
  <2>3. Busy(cs[k]) \subseteq Headers
    BY <2>2, BusyParts
  <2> QED BY <2>1, <2>2, <2>3, HeadersFinite
<1>11. \A j \in Channels : ch[j].open => Busy(ch[j]) # Done(ch[j])
  <2> SUFFICES ASSUME NEW j \in Channels, ch[j].open PROVE Busy(ch[j]) # Done(ch[j])
    OBVIOUS
  <2>1. cs[j].inflight # 0 /\ cs[j].inflight = Cardinality(Busy(cs[j]))
    BY <1>2, <1>5, <1>10 DEF ChanSound
  <2>2. Cardinality({}) = 0
    BY FS_EmptySet
  <2>3. Busy(cs[j]) # {}
    BY <2>1, <2>2
  <2> QED BY <1>2, <2>3
<1>12. wave[s].fmt # ch[i].dev
  <2> SUFFICES ASSUME wave[s].fmt = cs[k].dev PROVE FALSE
    BY <1>2, <1>9
  <2>1. d = [c |-> cs[k], ok |-> FALSE, asked |-> FALSE] \/ d = [c |-> cs[k], ok |-> TRUE, asked |-> FALSE]
    BY <1>7 DEF WithDevice
  <2>2. d.c = cs[k]
    BY <2>1
  <2>3. HasDevice(cs[k]) /\ ChanSound(cs[k])
    BY <1>2, <1>6, FormatsAreFormats DEF HasDevice
  <2>4. \A x \in Queued(cs[k], wave[s]) : x.hdr[h] # Idle
    <3>1. h \in Busy(cs[k]) /\ h \notin Done(cs[k])
      <4>1. h \in Busy(cs[k]) /\ cs[k].hdr[h] = ch[k].hdr[h]
        BY <1>2, <1>3, <1>8, <1>9
      <4> QED BY <1>8, <1>9, <4>1 DEF Done
    <3> QED BY <1>6, <2>3, <3>1, QueuedSound
  <2>5. cs[k].hdr[h] # Idle
    BY <1>3, <1>8, <1>9
  <2>6. ch'[k].hdr[h] # Idle
    BY <1>4, <1>6, <1>7, <2>2, <2>4, <2>5
  <2> QED BY <1>8, <1>9, <2>6
<1>13. \A t \in Find(p) : t = s
  BY <1>6 DEF Find, MixInv, WavesApart
<1> QED BY <1>11, <1>12, <1>13

\* audio.c, the mixer as a whole: whatever the device still reads lies in a
\* wave that is open, a device that was given back stays so, and a sound the
\* mixer places cuts off none that could have been let be; for every number of
\* channels, buffers and waves.
THEOREM MixerAlwaysSound == MixSpecification => SoundsSound
<1>1. MixInv => SamplesStayPut /\ DeviceGivenBack
  BY DEF MixInv, SamplesStayPut, ChanSound
<1>2. MixInv /\ [MixStep]_mixVars =>
        [\A p \in Pointers : PlayAnywhere(p, FALSE) =>
           \A i \in Channels : Cut(i) # {} =>
             /\ \A j \in Channels : ch[j].open => Busy(ch[j]) # Done(ch[j])
             /\ \A s \in Find(p) : wave[s].fmt # ch[i].dev]_mixVars
  BY PlacedPlayCuts
<1> QED BY <1>1, <1>2, MixBegins, MixStepKeeps, PTL DEF MixSpecification, SoundsSound, PlayCutsNothing

-----------------------------------------------------------------------------
(* The windows: a tree of what is there, told of its life in order.         *)

Going == {"destroy", "kids", "freeing"}
Making == {"nccreated", "created"}
Window == [used : BOOLEAN, parent : Windows \cup {None}, sys : BOOLEAN, shown : BOOLEAN]
Frame == [at : {"guest", "destroy", "freeing"}, h : Windows]
            \cup [at : {"kids"}, h : Windows, i : Nat]
            \cup [at : Making \cup {"sized", "show", "shown", "place", "hide"}, h : Windows,
                  show : BOOLEAN]

\* Children and Around, of any table w; OnIt: a frame of s at one of A, for h.
Kin(w, h) == {k \in Windows : w[k].used /\ w[k].parent = h}
ClosedUp(w, S) == \A x \in S : w[x].parent \in S \cup {None}
Way(w, k) == {h \in Windows : \A S \in SUBSET Windows : k \in S /\ ClosedUp(w, S) => h \in S}
OnIt(s, A, h) == \E n \in 1 .. Len(s) : s[n].at \in A /\ s[n].h = h

\* A window is on the screen or in one that is there, and none is around itself.
Housed(w) ==
    /\ w \in [Windows -> Window]
    /\ \A h \in Windows : w[h].used => w[h].parent = None \/ w[w[h].parent].used
    /\ \A S \in SUBSET Windows :
           S # {} /\ (\A x \in S : w[x].used) => \E x \in S : w[x].parent \notin S

InOrder(l) == \A i, j \in DOMAIN l : i < j => Rank(l[i]) < Rank(l[j])

\* What a window was told is in order; only one of the guest's class is told.
Tells(w, t) ==
    /\ t \in [Windows -> Seq(ToSet(Life))]
    /\ \A h \in Windows :
           /\ InOrder(t[h])
           /\ ~w[h].used => t[h] = << >>
           /\ Contains(t[h], "CREATE") => Contains(t[h], "NCCREATE")
           /\ Contains(t[h], "NCCREATE") => ~w[h].sys

\* What a frame may count on when it goes on, N being the names in use.
FrameOK(w, t, N, f) ==
    /\ f.at \in Going => w[f.h].used
    /\ f.at \in {"freeing", "nccreated"} => Kin(w, f.h) = {}
    /\ f.at = "nccreated" =>
           /\ f.h \notin N /\ ~Contains(t[f.h], "CREATE")
           /\ w[f.h].used /\ ~w[f.h].sys => Contains(t[f.h], "NCCREATE")
    /\ f.at = "shown" => w[f.h].used \/ w[f.h].parent # None
    /\ f.at \in {"kids", "freeing"} /\ Contains(t[f.h], "CREATE") => Contains(t[f.h], "DESTROY")
    /\ f.at = "freeing" /\ Contains(t[f.h], "CREATE") => Contains(t[f.h], "NCDESTROY")

\* A frame f and one above it, g.  What is made was not there when f began, and
\* stays out of what f destroys; what is destroyed has nothing in it, nor is it
\* itself, that f destroys; and one whose making waits for its first answer
\* is not named by the guest.
PairOK(w, f, g) ==
    /\ g.at \in Making /\ f.at # "guest" => f.h # g.h
    /\ g.at \in Going \cup Making /\ f.at \in Going => g.h \notin Way(w, f.h)
    /\ g.at \in Going /\ f.at = "shown" /\ f.h = g.h => w[g.h].parent # None
    /\ f.at = "nccreated" /\ f.h = g.h => g.at \in {"guest"} \cup Going

Stacked(w, t, N, s) ==
    /\ s \in Seq(Frame)
    /\ \A n \in 1 .. Len(s) : FrameOK(w, t, N, s[n])
    /\ \A n \in 1 .. Len(s) : \A m \in 1 .. n - 1 : PairOK(w, s[m], s[n])

\* A child the walk has passed is still being destroyed, or gone; and who was
\* told of its end has its end under way.
KidsDue(w, s) ==
    \A n \in 1 .. Len(s) : s[n].at = "kids" =>
        \A k \in Kin(w, s[n].h) : k < s[n].i => OnIt(s, Going, k)
EndsDue(t, s) ==
    \A h \in Windows :
        /\ Contains(t[h], "DESTROY") => OnIt(s, {"kids", "freeing"}, h)
        /\ Contains(t[h], "NCDESTROY") => OnIt(s, {"freeing"}, h)

NamesOK(w, N) == \A h \in N : h = None \/ (h \in Windows /\ w[h].used)

Fits(w, t, N, s) ==
    /\ Housed(w) /\ Tells(w, t) /\ NamesOK(w, N)
    /\ Stacked(w, t, N, s) /\ KidsDue(w, s) /\ EndsDue(t, s)

InUse == Range(named) \cup {active}

WindowsInv ==
    /\ Fits(wins, told, InUse, stack)
    /\ named \in [Names -> Windows \cup {None}] /\ active \in Windows \cup {None}
    /\ answer \in {-1, 0, 1} /\ Handlers(stack) <= MaxDepth

-----------------------------------------------------------------------------
(* A stack is what is below its top and its top.                            *)

LEMMA Pushed ==
  ASSUME NEW S, NEW s \in Seq(S), NEW f \in S
  PROVE  /\ Append(s, f) \in Seq(S) /\ Append(s, f) # << >>
         /\ Len(s) \in Nat /\ Len(Append(s, f)) = Len(s) + 1
         /\ \A n \in 1 .. Len(s) : Append(s, f)[n] = s[n]
         /\ Append(s, f)[Len(s) + 1] = f
         /\ Front(Append(s, f)) = s /\ Last(Append(s, f)) = f
<1> DEFINE a == Append(s, f)
<1>1. /\ a \in Seq(S) /\ a # << >>
      /\ Len(s) \in Nat /\ Len(a) = Len(s) + 1
      /\ \A n \in 1 .. Len(s) : a[n] = s[n]
      /\ a[Len(s) + 1] = f
  BY AppendProperties
<1>2. \A n \in 1 .. Len(s) : s[n] \in S
  OBVIOUS
<1> HIDE DEF a
<1>3. Last(a) = f
  BY <1>1 DEF Last
<1>4. SubSeq(a, 1, Len(s)) = s
  <2>1. 1 \in Int /\ Len(s) \in Int /\ \A i \in 1 .. Len(s) : a[i] \in S
    BY <1>1, <1>2
  <2>2. /\ SubSeq(a, 1, Len(s)) \in Seq(S)
        /\ Len(SubSeq(a, 1, Len(s))) = IF 1 <= Len(s) THEN Len(s) - 1 + 1 ELSE 0
        /\ \A i \in 1 .. Len(s) - 1 + 1 : SubSeq(a, 1, Len(s))[i] = a[1 + i - 1]
    BY <2>1, SubSeqProperties
  <2>3. Len(SubSeq(a, 1, Len(s))) = Len(s)
    BY <1>1, <2>2
  <2>4. \A i \in 1 .. Len(s) : SubSeq(a, 1, Len(s))[i] = s[i]
    BY <1>1, <2>2
  <2> QED BY <2>2, <2>3, <2>4, SeqEqual
<1>5. Len(a) - 1 = Len(s)
  BY <1>1
<1> QED BY <1>1, <1>3, <1>4, <1>5 DEF Front, a

LEMMA TopAndBelow ==
  ASSUME NEW S, NEW s \in Seq(S), s # << >>
  PROVE  Front(s) \in Seq(S) /\ Last(s) \in S /\ s = Append(Front(s), Last(s))
<1>1. PICK b \in Seq(S), f \in S : s = Append(b, f)
  BY SequenceEmptyOrAppend
<1>2. Front(s) = b /\ Last(s) = f
  BY <1>1, Pushed
<1> QED BY <1>1, <1>2

\* A frame is a window's, at one of these places.
LEMMA FrameIs ==
  /\ \A f \in Frame : f.h \in Windows /\ (f.at = "kids" => f.i \in Nat)
  /\ \A f \in Frame : f.at \in Making => [f EXCEPT !.at = "created"] \in Frame
  /\ \A h \in Windows, i \in Nat : [at |-> "kids", h |-> h, i |-> i] \in Frame
  /\ \A h \in Windows, p \in {"guest", "destroy", "freeing"} : [at |-> p, h |-> h] \in Frame
BY DEF Frame, Making

\* What each frame finds, and each two, is found with one more on top.
LEMMA StackedUp ==
  ASSUME NEW w, NEW t, NEW N, NEW s \in Seq(Frame), NEW f \in Frame
  PROVE  Stacked(w, t, N, Append(s, f)) <=>
           /\ Stacked(w, t, N, s) /\ FrameOK(w, t, N, f)
           /\ \A m \in 1 .. Len(s) : PairOK(w, s[m], f)
<1> DEFINE a == Append(s, f)
<1>1. /\ a \in Seq(Frame) /\ Len(s) \in Nat /\ Len(a) = Len(s) + 1
      /\ \A n \in 1 .. Len(s) : a[n] = s[n]
      /\ a[Len(s) + 1] = f
  BY Pushed
<1> HIDE DEF a
<1>2. ASSUME Stacked(w, t, N, a)
      PROVE  /\ Stacked(w, t, N, s) /\ FrameOK(w, t, N, f)
             /\ \A m \in 1 .. Len(s) : PairOK(w, s[m], f)
  BY <1>1, <1>2 DEF Stacked
<1>3. ASSUME Stacked(w, t, N, s), FrameOK(w, t, N, f), \A m \in 1 .. Len(s) : PairOK(w, s[m], f)
      PROVE  Stacked(w, t, N, a)
  BY <1>1, <1>3 DEF Stacked
<1> QED BY <1>2, <1>3 DEF a

LEMMA OnItUp ==
  ASSUME NEW s \in Seq(Frame), NEW f \in Frame, NEW A, NEW h
  PROVE  OnIt(Append(s, f), A, h) <=> OnIt(s, A, h) \/ (f.at \in A /\ f.h = h)
<1> DEFINE a == Append(s, f)
<1>1. /\ Len(s) \in Nat /\ Len(a) = Len(s) + 1
      /\ \A n \in 1 .. Len(s) : a[n] = s[n]
      /\ a[Len(s) + 1] = f
  BY Pushed
<1> HIDE DEF a
<1>2. OnIt(a, A, h) <=> OnIt(s, A, h) \/ (f.at \in A /\ f.h = h)
  BY <1>1 DEF OnIt
<1> QED BY <1>2 DEF a

-----------------------------------------------------------------------------
(* The way up from a window.                                                *)

LEMMA WayIs ==
  ASSUME NEW w \in [Windows -> Window], NEW k \in Windows
  PROVE  /\ Way(w, k) \in SUBSET Windows /\ k \in Way(w, k)
         /\ ClosedUp(w, Way(w, k))
         /\ \A S \in SUBSET Windows : k \in S /\ ClosedUp(w, S) => Way(w, k) \subseteq S
<1>1. Way(w, k) \in SUBSET Windows /\ k \in Way(w, k)
      /\ \A S \in SUBSET Windows : k \in S /\ ClosedUp(w, S) => Way(w, k) \subseteq S
  BY DEF Way
<1>2. ASSUME NEW x \in Way(w, k) PROVE w[x].parent \in Way(w, k) \cup {None}
  <2>1. x \in Windows /\ w[x].parent \in Windows \cup {None}
    BY <1>1 DEF Window
  <2>2. ASSUME NEW S \in SUBSET Windows, k \in S, ClosedUp(w, S), w[x].parent # None
        PROVE  w[x].parent \in S
    BY <1>1, <2>2 DEF ClosedUp
  <2> QED BY <2>1, <2>2 DEF Way
<1> QED BY <1>1, <1>2 DEF ClosedUp

\* With the same parents, or more of them, the way up is not longer.
LEMMA WayStays ==
  ASSUME NEW w \in [Windows -> Window], NEW v \in [Windows -> Window], NEW k \in Windows,
         \A x \in Way(w, k) : v[x].parent = w[x].parent
  PROVE  Way(v, k) \subseteq Way(w, k)
<1>1. /\ Way(w, k) \in SUBSET Windows /\ k \in Way(w, k) /\ ClosedUp(w, Way(w, k))
  BY WayIs
<1>2. ClosedUp(v, Way(w, k))
  BY <1>1 DEF ClosedUp
<1> QED BY <1>1, <1>2, WayIs

\* The way up of what is there is over what is there, comes to the screen, and
\* does not come to the windows inside.
LEMMA WayUp ==
  ASSUME NEW w, Housed(w), NEW k \in Windows, w[k].used
  PROVE  /\ \A x \in Way(w, k) : w[x].used
         /\ \E x \in Way(w, k) : w[x].parent = None
<1>1. w \in [Windows -> Window] /\ None \notin Windows
  BY DEF Housed, None, Windows
<1>2. /\ Way(w, k) \in SUBSET Windows /\ k \in Way(w, k) /\ ClosedUp(w, Way(w, k))
  BY <1>1, WayIs
<1>3. \A x \in Way(w, k) : w[x].used
  <2> DEFINE S == {x \in Windows : w[x].used}
  <2>1. k \in S /\ S \in SUBSET Windows /\ ClosedUp(w, S)
    BY <1>1 DEF Housed, ClosedUp, Window
  <2>2. Way(w, k) \subseteq S
    BY <1>1, <2>1, WayIs
  <2> QED BY <2>2
<1>4. \E x \in Way(w, k) : w[x].parent \notin Way(w, k)
  BY <1>2, <1>3 DEF Housed
<1> QED BY <1>2, <1>3, <1>4 DEF ClosedUp

LEMMA NotInside ==
  ASSUME NEW w, Housed(w), NEW p \in Windows, NEW k \in Kin(w, p)
  PROVE  /\ k \notin Way(w, p)
         /\ \A x \in Windows : k \in Way(w, x) => p \in Way(w, x)
<1>1. /\ w \in [Windows -> Window] /\ None \notin Windows
      /\ k \in Windows /\ w[k].used /\ w[k].parent = p
  BY DEF Housed, None, Windows, Kin
<1>2. \A x \in Windows : k \in Way(w, x) => p \in Way(w, x)
  <2> TAKE x \in Windows
  <2>1. ClosedUp(w, Way(w, x))
    BY <1>1, WayIs
  <2> QED BY <1>1, <2>1 DEF ClosedUp
<1>3. ASSUME k \in Way(w, p) PROVE FALSE
  <2> DEFINE C == {x \in Way(w, p) : k \in Way(w, x)}
  <2>1. w[p].used
    BY <1>1 DEF Housed
  <2>2. /\ Way(w, p) \in SUBSET Windows /\ p \in Way(w, p) /\ ClosedUp(w, Way(w, p))
        /\ \A x \in Way(w, p) : w[x].used
    BY <1>1, <2>1, WayIs, WayUp
  <2>3. p \in C /\ C \in SUBSET Windows /\ \A x \in C : w[x].used
    BY <1>3, <2>2
  <2>4. ASSUME NEW x \in C PROVE w[x].parent \in C
    <3>1. x \in Windows /\ x \in Way(w, p) /\ k \in Way(w, x)
      BY <2>3
    <3>2. w[x].parent \in Way(w, p) \cup {None}
      BY <2>2, <3>1 DEF ClosedUp
    <3>3. CASE x = k
      BY <1>1, <2>3, <3>3
    <3>4. CASE x # k
      <4> DEFINE q == w[x].parent
                 S == {x} \cup Way(w, q)
      <4>1. CASE q = None
        <5>1. ClosedUp(w, {x})
          BY <4>1 DEF ClosedUp
        <5>2. Way(w, x) \subseteq {x}
          BY <1>1, <3>1, <5>1, WayIs
        <5> QED BY <3>1, <3>4, <5>2
      <4>2. CASE q # None
        <5>1. q \in Way(w, p) /\ q \in Windows
          BY <2>2, <3>2, <4>2
        <5>2. /\ Way(w, q) \in SUBSET Windows /\ q \in Way(w, q) /\ ClosedUp(w, Way(w, q))
          BY <1>1, <5>1, WayIs
        <5>3. S \in SUBSET Windows /\ x \in S /\ ClosedUp(w, S)
          BY <3>1, <5>2 DEF ClosedUp
        <5>4. Way(w, x) \subseteq S
          BY <1>1, <3>1, <5>3, WayIs
        <5> QED BY <3>1, <3>4, <5>1, <5>4
      <4> QED BY <4>1, <4>2
    <3> QED BY <3>3, <3>4
  <2> HIDE DEF C
  <2>5. \E x \in C : w[x].parent \notin C
    BY <2>3 DEF Housed
  <2> QED BY <2>4, <2>5
<1> QED BY <1>2, <1>3

\* Tables that agree on who is there and in what.
LEMMA SameHouse ==
  ASSUME NEW w, Housed(w), NEW v \in [Windows -> Window],
         \A x \in Windows : v[x].used = w[x].used /\ v[x].parent = w[x].parent
  PROVE  Housed(v)
<1>1. \A h \in Windows : w[h].parent \in Windows \cup {None}
  BY DEF Housed, Window
<1>2. \A h \in Windows : v[h].used => v[h].parent = None \/ v[v[h].parent].used
  BY <1>1 DEF Housed
<1>3. ASSUME NEW S \in SUBSET Windows, S # {}, \A x \in S : v[x].used
      PROVE  \E x \in S : v[x].parent \notin S
  <2>1. \A x \in S : w[x].used
    BY <1>3
  <2>2. PICK x \in S : w[x].parent \notin S
    BY <1>3, <2>1 DEF Housed
  <2> QED BY <2>2
<1> QED BY <1>2, <1>3 DEF Housed

\* A window that goes takes nothing with it when nothing is in it.
LEMMA HouseWithout ==
  ASSUME NEW w, Housed(w), NEW h \in Windows, Kin(w, h) = {}, NEW v \in [Windows -> Window],
         ~v[h].used, v[h].parent = w[h].parent, \A x \in Windows : x # h => v[x] = w[x]
  PROVE  Housed(v)
<1>1. w \in [Windows -> Window] /\ None \notin Windows
  BY DEF Housed, None, Windows
<1>2. ASSUME NEW x \in Windows, v[x].used PROVE v[x].parent = None \/ v[v[x].parent].used
  <2>1. x # h /\ w[x].used /\ v[x].parent = w[x].parent
    BY <1>2
  <2>2. w[x].parent # h
    BY <2>1 DEF Kin
  <2>3. w[x].parent = None \/ (w[x].parent \in Windows /\ w[w[x].parent].used)
    BY <1>1, <2>1 DEF Housed, Window
  <2> QED BY <2>1, <2>2, <2>3
<1>3. ASSUME NEW S \in SUBSET Windows, S # {}, \A x \in S : v[x].used
      PROVE  \E x \in S : v[x].parent \notin S
  <2>1. \A x \in S : w[x].used /\ v[x].parent = w[x].parent
    BY <1>3
  <2>2. PICK x \in S : w[x].parent \notin S
    BY <1>3, <2>1 DEF Housed
  <2> QED BY <2>1, <2>2
<1> QED BY <1>2, <1>3 DEF Housed

\* A new window, in one that is there.
LEMMA HouseWith ==
  ASSUME NEW w, Housed(w), NEW h \in Windows, ~w[h].used, NEW v \in [Windows -> Window],
         v[h].used, v[h].parent # h,
         v[h].parent = None \/ w[v[h].parent].used,
         \A x \in Windows : x # h => v[x] = w[x]
  PROVE  Housed(v)
<1>1. w \in [Windows -> Window] /\ None \notin Windows
  BY DEF Housed, None, Windows
<1>2. ASSUME NEW x \in Windows, v[x].used PROVE v[x].parent = None \/ v[v[x].parent].used
  <2>1. CASE x = h
    BY <1>1, <2>1 DEF Window
  <2>2. CASE x # h
    <3>1. w[x].used /\ v[x].parent = w[x].parent
      BY <1>2, <2>2
    <3>2. w[x].parent = None \/ (w[x].parent \in Windows /\ w[w[x].parent].used)
      BY <1>1, <3>1 DEF Housed, Window
    <3>3. w[x].parent # None => v[w[x].parent].used
      BY <3>2
    <3> QED BY <3>1, <3>3
  <2> QED BY <2>1, <2>2
<1>3. ASSUME NEW S \in SUBSET Windows, S # {}, \A x \in S : v[x].used
      PROVE  \E x \in S : v[x].parent \notin S
  <2>1. CASE S = {h}
    BY <2>1
  <2>2. CASE S # {h}
    <3> DEFINE R == S \ {h}
    <3>1. R \in SUBSET Windows /\ R # {} /\ \A x \in R : w[x].used /\ v[x].parent = w[x].parent
      BY <1>3, <2>2
    <3>2. PICK x \in R : w[x].parent \notin R
      BY <3>1 DEF Housed
    <3>3. w[x].parent # h
      BY <1>1, <3>1, <3>2 DEF Housed
    <3> QED BY <3>1, <3>2, <3>3
  <2> QED BY <2>1, <2>2
<1> QED BY <1>2, <1>3 DEF Housed

-----------------------------------------------------------------------------
(* What windows are told.                                                   *)

LEMMA LifeIs ==
  /\ ToSet(Life) = {"NCCREATE", "CREATE", "DESTROY", "NCDESTROY"}
  /\ \A m : Contains(Life, m) <=> m \in ToSet(Life)
  /\ Rank("NCCREATE") = 1 /\ Rank("CREATE") = 2 /\ Rank("DESTROY") = 3 /\ Rank("NCDESTROY") = 4
<1>1. /\ Len(Life) = 4 /\ DOMAIN Life = 1 .. 4
      /\ Life[1] = "NCCREATE" /\ Life[2] = "CREATE" /\ Life[3] = "DESTROY" /\ Life[4] = "NCDESTROY"
  BY DEF Life
<1>2. \A n \in 1 .. 4 : Min({n}) = n
  <2> TAKE n \in 1 .. 4
  <2>1. {n} \in SUBSET Nat /\ {n} # {}
    OBVIOUS
  <2> QED BY <2>1, LeastIsThere
<1> HIDE DEF Life
<1>3. ASSUME NEW n \in 1 .. 4 PROVE Rank(Life[n]) = n
  <2>1. {i \in 1 .. Len(Life) : Life[i] = Life[n]} = {n}
    BY <1>1
  <2> QED BY <1>2, <2>1 DEF Rank, SelectInSeq
<1>4. Rank("NCCREATE") = 1 /\ Rank("CREATE") = 2 /\ Rank("DESTROY") = 3 /\ Rank("NCDESTROY") = 4
  BY <1>1, <1>3
<1>5. ToSet(Life) = {"NCCREATE", "CREATE", "DESTROY", "NCDESTROY"}
  <2>1. \A x : x \in 1 .. 4 <=> x = 1 \/ x = 2 \/ x = 3 \/ x = 4
    OBVIOUS
  <2>2. ToSet(Life) = {Life[i] : i \in 1 .. 4}
    BY <1>1 DEF ToSet
  <2> QED BY <1>1, <2>1, <2>2
<1>6. \A m : Contains(Life, m) <=> m \in ToSet(Life)
  BY <1>1 DEF Contains, ToSet
<1> QED BY <1>4, <1>5, <1>6

LEMMA ContainsUp ==
  ASSUME NEW S, NEW l \in Seq(S), NEW m \in S, NEW x
  PROVE  Contains(Append(l, m), x) <=> Contains(l, x) \/ x = m
<1> DEFINE a == Append(l, m)
<1>1. /\ Len(l) \in Nat /\ Len(a) = Len(l) + 1
      /\ \A n \in 1 .. Len(l) : a[n] = l[n]
      /\ a[Len(l) + 1] = m
  BY Pushed
<1> HIDE DEF a
<1>2. Contains(a, x) <=> Contains(l, x) \/ x = m
  BY <1>1 DEF Contains
<1> QED BY <1>2 DEF a

LEMMA InOrderUp ==
  ASSUME NEW l \in Seq(ToSet(Life)), InOrder(l), NEW m \in ToSet(Life),
         \A x \in ToSet(Life) : Contains(l, x) => Rank(x) < Rank(m)
  PROVE  InOrder(Append(l, m))
<1> DEFINE a == Append(l, m)
<1>1. /\ Len(l) \in Nat /\ Len(a) = Len(l) + 1 /\ a \in Seq(ToSet(Life))
      /\ \A n \in 1 .. Len(l) : a[n] = l[n]
      /\ a[Len(l) + 1] = m
  BY Pushed
<1>2. DOMAIN l = 1 .. Len(l) /\ \A n \in 1 .. Len(l) : l[n] \in ToSet(Life)
  OBVIOUS
<1> HIDE DEF a
<1>3. DOMAIN a = 1 .. Len(l) + 1
  BY <1>1
<1>4. ASSUME NEW i \in DOMAIN a, NEW j \in DOMAIN a, i < j PROVE Rank(a[i]) < Rank(a[j])
  <2>1. i \in 1 .. Len(l)
    BY <1>1, <1>3, <1>4
  <2>2. CASE j = Len(l) + 1
    <3>1. Contains(l, a[i]) /\ a[i] \in ToSet(Life)
      BY <1>1, <1>2, <2>1 DEF Contains
    <3> QED BY <1>1, <2>2, <3>1
  <2>3. CASE j # Len(l) + 1
    <3>1. j \in 1 .. Len(l)
      BY <1>1, <1>3, <2>3
    <3> QED BY <1>1, <1>2, <1>4, <2>1, <3>1 DEF InOrder
  <2> QED BY <2>2, <2>3
<1>5. InOrder(a)
  BY <1>4 DEF InOrder
<1> QED BY <1>5 DEF a

\* What is told when m is sent to h.
Hears(w, t, h, m) ==
    IF w[h].used /\ ~w[h].sys /\ Contains(Life, m) THEN [t EXCEPT ![h] = Append(@, m)] ELSE t

\* From t to v, m was added to what h was told, if h is told anything.
Added(w, t, v, h, m) ==
    \A k \in Windows : \A x :
        Contains(v[k], x) <=> Contains(t[k], x) \/ (k = h /\ x = m /\ w[h].used /\ ~w[h].sys)

LEMMA HearsIs ==
  ASSUME NEW w, NEW t, Tells(w, t), NEW h \in Windows, NEW m \in ToSet(Life), m # "NCCREATE",
         \A x \in ToSet(Life) : Contains(t[h], x) => Rank(x) < Rank(m),
         m = "CREATE" /\ w[h].used /\ ~w[h].sys => Contains(t[h], "NCCREATE")
  PROVE  Tells(w, Hears(w, t, h, m)) /\ Added(w, t, Hears(w, t, h, m), h, m)
<1>1. CASE ~(w[h].used /\ ~w[h].sys)
  BY <1>1 DEF Hears, Added
<1>2. CASE w[h].used /\ ~w[h].sys
  <2> DEFINE v == Hears(w, t, h, m)
             L == ToSet(Life)
  <2>1. t \in [Windows -> Seq(L)] /\ t[h] \in Seq(L) /\ InOrder(t[h])
    BY DEF Tells
  <2>2. v = [t EXCEPT ![h] = Append(t[h], m)]
    BY <1>2, LifeIs DEF Hears
  <2>3. Append(t[h], m) \in Seq(L) /\ InOrder(Append(t[h], m))
    BY <2>1, InOrderUp, Pushed
  <2>4. \A x : Contains(Append(t[h], m), x) <=> Contains(t[h], x) \/ x = m
    BY <2>1, ContainsUp
  <2> HIDE DEF v
  <2>5. /\ v \in [Windows -> Seq(L)] /\ v[h] = Append(t[h], m)
        /\ \A k \in Windows : k # h => v[k] = t[k]
    BY <2>1, <2>2, <2>3
  <2>6. \A k \in Windows : \A x : Contains(v[k], x) <=> Contains(t[k], x) \/ (k = h /\ x = m)
    BY <2>4, <2>5
  <2>7. \A k \in Windows : InOrder(v[k])
    BY <2>3, <2>5 DEF Tells
  <2>8. \A k \in Windows : ~w[k].used => v[k] = << >>
    BY <1>2, <2>5 DEF Tells
  <2>9. \A k \in Windows : /\ Contains(v[k], "CREATE") => Contains(v[k], "NCCREATE")
                           /\ Contains(v[k], "NCCREATE") => ~w[k].sys
    BY <1>2, <2>6 DEF Tells
  <2>10. Tells(w, v)
    BY <2>5, <2>7, <2>8, <2>9 DEF Tells
  <2>11. Added(w, t, v, h, m)
    BY <1>2, <2>6 DEF Added
  <2> QED BY <2>10, <2>11 DEF v
<1> QED BY <1>1, <1>2

-----------------------------------------------------------------------------
(* Frames that come and go.                                                 *)

LEMMA KidsDueUp ==
  ASSUME NEW w, NEW s \in Seq(Frame), NEW f \in Frame
  PROVE  KidsDue(w, Append(s, f)) <=>
           /\ \A n \in 1 .. Len(s) : s[n].at = "kids" =>
                \A k \in Kin(w, s[n].h) : k < s[n].i =>
                    OnIt(s, Going, k) \/ (f.at \in Going /\ f.h = k)
           /\ f.at = "kids" =>
                \A k \in Kin(w, f.h) : k < f.i => OnIt(s, Going, k) \/ f.h = k
<1> DEFINE a == Append(s, f)
<1>1. /\ Len(s) \in Nat /\ Len(a) = Len(s) + 1
      /\ \A n \in 1 .. Len(s) : a[n] = s[n]
      /\ a[Len(s) + 1] = f
  BY Pushed
<1>2. \A k : OnIt(a, Going, k) <=> OnIt(s, Going, k) \/ (f.at \in Going /\ f.h = k)
  BY OnItUp
<1>3. "kids" \in Going
  BY DEF Going
<1> HIDE DEF a
<1>4. /\ \A n \in 1 .. Len(a) : n \in 1 .. Len(s) \/ n = Len(s) + 1
      /\ \A n \in 1 .. Len(s) : n \in 1 .. Len(a)
      /\ Len(s) + 1 \in 1 .. Len(a)
  BY <1>1
<1>5. KidsDue(w, a) <=>
           /\ \A n \in 1 .. Len(s) : s[n].at = "kids" =>
                \A k \in Kin(w, s[n].h) : k < s[n].i =>
                    OnIt(s, Going, k) \/ (f.at \in Going /\ f.h = k)
           /\ f.at = "kids" =>
                \A k \in Kin(w, f.h) : k < f.i => OnIt(s, Going, k) \/ f.h = k
  BY <1>1, <1>2, <1>3, <1>4 DEF KidsDue
<1> QED BY <1>5 DEF a

\* The children that are due, but for k.
KidsBut(w, s, k) ==
    \A n \in 1 .. Len(s) : s[n].at = "kids" =>
        \A x \in Kin(w, s[n].h) : x < s[n].i => OnIt(s, Going, x) \/ x = k

LEMMA KidsButFor ==
  ASSUME NEW w, NEW s \in Seq(Frame), NEW f \in Frame, KidsDue(w, Append(s, f))
  PROVE  KidsBut(w, s, f.h)
<1>1. \A n \in 1 .. Len(s) : s[n].at = "kids" =>
          \A k \in Kin(w, s[n].h) : k < s[n].i =>
              OnIt(s, Going, k) \/ (f.at \in Going /\ f.h = k)
  BY KidsDueUp, Zenon
<1> QED BY <1>1 DEF KidsBut

LEMMA EndsDueUp ==
  ASSUME NEW t, NEW s \in Seq(Frame), NEW f \in Frame, EndsDue(t, s)
  PROVE  EndsDue(t, Append(s, f))
BY OnItUp DEF EndsDue

LEMMA EndsDueDown ==
  ASSUME NEW t, NEW s \in Seq(Frame), NEW f \in Frame, EndsDue(t, Append(s, f)),
         f.at \notin {"kids", "freeing"}
  PROVE  EndsDue(t, s)
BY OnItUp DEF EndsDue

\* A frame that is not of a destruction is left, or begins.
LEMMA PopFits ==
  ASSUME NEW w, NEW t, NEW N, NEW s \in Seq(Frame), NEW f \in Frame, f.at \notin Going,
         Fits(w, t, N, Append(s, f))
  PROVE  Fits(w, t, N, s)
<1>1. Stacked(w, t, N, s)
  BY StackedUp DEF Fits
<1>2. EndsDue(t, s)
  BY EndsDueDown DEF Fits, Going
<1>3. KidsDue(w, s)
  BY KidsDueUp DEF Fits, KidsDue
<1> QED BY <1>1, <1>2, <1>3 DEF Fits

LEMMA PushFits ==
  ASSUME NEW w, NEW t, NEW N, NEW s \in Seq(Frame), NEW f \in Frame,
         f.at \notin Going \cup Making, FrameOK(w, t, N, f), Fits(w, t, N, s),
         f.at = "guest" \/ \A n \in 1 .. Len(s) : s[n].at = "nccreated" => s[n].h # f.h
  PROVE  Fits(w, t, N, Append(s, f))
<1>1. \A n \in 1 .. Len(s) : PairOK(w, s[n], f)
  BY DEF PairOK
<1>2. Stacked(w, t, N, Append(s, f))
  BY <1>1, StackedUp DEF Fits
<1>3. EndsDue(t, Append(s, f))
  BY EndsDueUp DEF Fits
<1>4. KidsDue(w, Append(s, f))
  <2>1. f.at # "kids" /\ f.at \notin Going
    BY DEF Going
  <2> QED BY <2>1, KidsDueUp DEF Fits, KidsDue
<1> QED BY <1>2, <1>3, <1>4 DEF Fits

\* The guest's code, for what it is sent.
LEMMA GuestFits ==
  ASSUME NEW w, NEW t, NEW N, NEW s \in Seq(Frame), NEW h \in Windows, Fits(w, t, N, s)
  PROVE  Fits(w, t, N, Append(s, [at |-> "guest", h |-> h]))
<1> DEFINE f == [at |-> "guest", h |-> h]
<1>1. f \in Frame /\ f.at = "guest"
  BY FrameIs
<1> HIDE DEF f
<1>2. f.at \notin Going \cup Making /\ FrameOK(w, t, N, f)
  BY <1>1 DEF FrameOK, Going, Making
<1> QED BY <1>1, <1>2, PushFits DEF f

\* A host function that goes on with a step that promises nothing more.
LEMMA OnFits ==
  ASSUME NEW w, NEW t, NEW N, NEW s \in Seq(Frame), NEW f \in Frame, NEW g \in Frame,
         Fits(w, t, N, Append(s, f)), g.h = f.h,
         f.at \notin Going \cup {"guest", "nccreated"},
         g.at \in {"sized", "show", "shown"}, FrameOK(w, t, N, g)
  PROVE  Fits(w, t, N, Append(s, g))
<1>1. Fits(w, t, N, s)
  BY PopFits
<1>2. ASSUME NEW n \in 1 .. Len(s), s[n].at = "nccreated" PROVE s[n].h # g.h
  <2>1. PairOK(w, s[n], f)
    BY StackedUp DEF Fits
  <2> QED BY <1>2, <2>1 DEF PairOK
<1>3. g.at \notin Going \cup Making
  BY DEF Going, Making
<1> QED BY <1>1, <1>2, <1>3, PushFits

-----------------------------------------------------------------------------
(* A destruction, step by step.                                             *)

\* What is being destroyed is so once, and is in nothing that is further down.
LEMMA GoingOnce ==
  ASSUME NEW w, NEW t, NEW N, NEW s \in Seq(Frame), NEW f \in Frame, f.at \in Going,
         Fits(w, t, N, Append(s, f))
  PROVE  /\ f.h \in Windows /\ w[f.h].used
         /\ \A n \in 1 .. Len(s) : s[n].at \in Going => f.h \notin Way(w, s[n].h)
         /\ ~OnIt(s, Going, f.h) /\ ~OnIt(s, {"kids", "freeing"}, f.h) /\ ~OnIt(s, {"freeing"}, f.h)
<1>1. f.h \in Windows /\ w[f.h].used
  BY FrameIs, StackedUp DEF Fits, FrameOK
<1>2. ASSUME NEW n \in 1 .. Len(s), s[n].at \in Going PROVE f.h \notin Way(w, s[n].h)
  BY <1>2, StackedUp DEF Fits, PairOK
<1>3. f.h \in Way(w, f.h)
  BY <1>1, WayIs DEF Fits, Housed
<1>4. ~OnIt(s, Going, f.h)
  BY <1>2, <1>3 DEF OnIt
<1>5. ~OnIt(s, {"kids", "freeing"}, f.h) /\ ~OnIt(s, {"freeing"}, f.h)
  BY <1>4 DEF OnIt, Going
<1> QED BY <1>1, <1>2, <1>4, <1>5

\* Where the frame is in its destruction makes no difference to those below.
LEMMA SamePairs ==
  ASSUME NEW w, NEW e, NEW f, NEW g, f.at \in Going, g.at \in Going, f.h = g.h, PairOK(w, e, f)
  PROVE  PairOK(w, e, g)
BY DEF PairOK, Going, Making

\* Telling a window of its end breaks nothing a frame counts on.
LEMMA EndToldFrames ==
  ASSUME NEW w, NEW t, NEW N, NEW s \in Seq(Frame), Stacked(w, t, N, s), NEW v, NEW h,
         NEW m \in {"DESTROY", "NCDESTROY"}, Added(w, t, v, h, m)
  PROVE  Stacked(w, v, N, s)
<1>1. ASSUME NEW k \in Windows, NEW x, x # m PROVE Contains(v[k], x) <=> Contains(t[k], x)
  BY <1>1 DEF Added
<1>2. ASSUME NEW k \in Windows, NEW x, Contains(t[k], x) PROVE Contains(v[k], x)
  BY <1>2 DEF Added
<1>3. m # "CREATE" /\ m # "NCCREATE"
  OBVIOUS
<1>4. ASSUME NEW n \in 1 .. Len(s) PROVE FrameOK(w, v, N, s[n])
  <2>1. s[n].h \in Windows /\ FrameOK(w, t, N, s[n])
    BY FrameIs DEF Stacked
  <2>2. PICK k \in Windows : k = s[n].h
    BY <2>1
  <2>3. /\ Contains(v[k], "CREATE") <=> Contains(t[k], "CREATE")
        /\ Contains(v[k], "NCCREATE") <=> Contains(t[k], "NCCREATE")
    BY <1>1, <1>3
  <2>4. /\ Contains(t[k], "DESTROY") => Contains(v[k], "DESTROY")
        /\ Contains(t[k], "NCDESTROY") => Contains(v[k], "NCDESTROY")
    BY <1>2
  <2> QED BY <2>1, <2>2, <2>3, <2>4 DEF FrameOK
<1> QED BY <1>4 DEF Stacked

LEMMA DestroyBeginsFits ==
  ASSUME NEW w, NEW t, NEW N, NEW s \in Seq(Frame), NEW f \in Frame, f.at = "destroy",
         Fits(w, t, N, Append(s, f))
  PROVE  Fits(w, Hears(w, t, f.h, "DESTROY"), N, Append(s, [at |-> "kids", h |-> f.h, i |-> 1]))
<1> DEFINE v == Hears(w, t, f.h, "DESTROY")
           g == [at |-> "kids", h |-> f.h, i |-> 1]
           h == f.h
<1>1. /\ f.at \in Going /\ f.at \notin {"kids", "freeing"}
      /\ h \in Windows /\ w[h].used
      /\ ~OnIt(s, Going, h) /\ ~OnIt(s, {"kids", "freeing"}, h) /\ ~OnIt(s, {"freeing"}, h)
  BY GoingOnce DEF Going
<1>2. g \in Frame /\ g.at = "kids" /\ g.h = h /\ g.i = 1 /\ g.at \in Going
  BY <1>1, FrameIs DEF Going
<1>3. /\ Housed(w) /\ Tells(w, t) /\ NamesOK(w, N) /\ Stacked(w, t, N, s)
      /\ \A n \in 1 .. Len(s) : PairOK(w, s[n], f)
      /\ EndsDue(t, s)
  BY <1>1, StackedUp, EndsDueDown DEF Fits
<1>4. ~Contains(t[h], "DESTROY") /\ ~Contains(t[h], "NCDESTROY")
  BY <1>1, <1>3 DEF EndsDue
<1>5. Tells(w, v) /\ Added(w, t, v, h, "DESTROY")
  <2>1. \A x \in ToSet(Life) : Contains(t[h], x) => Rank(x) < Rank("DESTROY")
    BY <1>4, LifeIs
  <2>2. "DESTROY" \in ToSet(Life)
    BY LifeIs
  <2> QED BY <1>1, <1>3, <2>1, <2>2, HearsIs
<1> HIDE DEF v, g, h
<1>6. Stacked(w, v, N, Append(s, g))
  <2>1. Stacked(w, v, N, s)
    BY <1>3, <1>5, EndToldFrames
  <2>2. FrameOK(w, v, N, g)
    BY <1>1, <1>2, <1>3, <1>5 DEF FrameOK, Tells, Added
  <2>3. \A n \in 1 .. Len(s) : PairOK(w, s[n], g)
    BY <1>1, <1>2, <1>3, SamePairs DEF h
  <2> QED BY <1>2, <2>1, <2>2, <2>3, StackedUp
<1>7. KidsDue(w, Append(s, g))
  <2>1. \A n \in 1 .. Len(s) : s[n].at = "kids" =>
          \A k \in Kin(w, s[n].h) : k < s[n].i => OnIt(s, Going, k) \/ h = k
    <3>1. KidsBut(w, s, h)
      BY KidsButFor DEF Fits, h
    <3> QED BY <3>1 DEF KidsBut
  <2>2. \A k \in Kin(w, h) : ~(k < 1)
    BY DEF Kin, Windows
  <2> QED BY <1>2, <2>1, <2>2, KidsDueUp
<1>8. EndsDue(v, Append(s, g))
  <2>1. \A A, k : OnIt(Append(s, g), A, k) <=> OnIt(s, A, k) \/ ("kids" \in A /\ h = k)
    BY <1>2, OnItUp
  <2> QED BY <1>3, <1>5, <2>1 DEF EndsDue, Added
<1> QED BY <1>3, <1>5, <1>6, <1>7, <1>8 DEF Fits, v, g, h

\* The walk goes on to the child k, and past it.
LEMMA NextKidFits ==
  ASSUME NEW w, NEW t, NEW N, NEW s \in Seq(Frame), NEW f \in Frame, f.at = "kids",
         Fits(w, t, N, Append(s, f)), NEW k \in Kin(w, f.h),
         \A x \in Kin(w, f.h) : x < k => x < f.i
  PROVE  Fits(w, t, N, Append(Append(s, [f EXCEPT !.i = k + 1]), [at |-> "destroy", h |-> k]))
<1> DEFINE g == [f EXCEPT !.i = k + 1]
           e == [at |-> "destroy", h |-> k]
           h == f.h
<1>1. /\ f.at \in Going /\ h \in Windows /\ w[h].used
      /\ \A n \in 1 .. Len(s) : s[n].at \in Going => h \notin Way(w, s[n].h)
  BY GoingOnce DEF Going
<1>2. /\ k \in Windows /\ w[k].used /\ w[k].parent = h /\ k \in Nat /\ h # None
  BY <1>1 DEF Kin, Windows, None
<1>3. /\ g \in Frame /\ g.at = "kids" /\ g.h = h /\ g.i = k + 1 /\ g.at \in Going
  <2>1. f \in [at : {"kids"}, h : Windows, i : Nat]
    BY DEF Frame, Making
  <2>2. k + 1 \in Nat
    BY <1>2
  <2>3. g \in [at : {"kids"}, h : Windows, i : Nat] /\ g.h = h /\ g.i = k + 1
    BY <2>1, <2>2
  <2> QED BY <2>3 DEF Frame, Going
<1>4. /\ e \in Frame /\ e.at = "destroy" /\ e.h = k /\ e.at \in Going
  BY <1>2, FrameIs DEF Going
<1>5. /\ Housed(w) /\ Stacked(w, t, N, s) /\ FrameOK(w, t, N, f)
      /\ \A n \in 1 .. Len(s) : PairOK(w, s[n], f)
  BY StackedUp DEF Fits
<1> HIDE DEF g, e
<1>6. Stacked(w, t, N, Append(s, g))
  <2>1. FrameOK(w, t, N, g)
    BY <1>3, <1>5 DEF FrameOK
  <2>2. \A n \in 1 .. Len(s) : PairOK(w, s[n], g)
    BY <1>1, <1>3, <1>5, SamePairs
  <2> QED BY <1>3, <1>5, <2>1, <2>2, StackedUp
<1>7. /\ k \notin Way(w, h) /\ \A x \in Windows : k \in Way(w, x) => h \in Way(w, x)
  BY <1>1, <1>5, NotInside
<1>8. Stacked(w, t, N, Append(Append(s, g), e))
  <2>1. FrameOK(w, t, N, e)
    BY <1>2, <1>4 DEF FrameOK
  <2>2. ASSUME NEW n \in 1 .. Len(s) PROVE PairOK(w, s[n], e)
    <3>1. s[n].h \in Windows
      BY FrameIs
    <3>2. s[n].at \in Going => k \notin Way(w, s[n].h)
      BY <1>1, <1>7, <3>1
    <3> QED BY <1>2, <1>4, <3>2 DEF PairOK, Making
  <2>3. PairOK(w, g, e)
    BY <1>3, <1>4, <1>7 DEF PairOK, Making
  <2>4. /\ Append(s, g) \in Seq(Frame) /\ Len(s) \in Nat /\ Len(Append(s, g)) = Len(s) + 1
        /\ \A n \in 1 .. Len(s) : Append(s, g)[n] = s[n]
        /\ Append(s, g)[Len(s) + 1] = g
    BY <1>3, Pushed
  <2>5. \A n \in 1 .. Len(Append(s, g)) : PairOK(w, Append(s, g)[n], e)
    <3>1. \A n \in 1 .. Len(s) + 1 : n \in 1 .. Len(s) \/ n = Len(s) + 1
      BY <2>4
    <3> QED BY <2>2, <2>3, <2>4, <3>1
  <2> QED BY <1>4, <1>6, <2>1, <2>4, <2>5, StackedUp
<1>9. \A A, x : OnIt(Append(Append(s, g), e), A, x) <=>
                  OnIt(s, A, x) \/ ("kids" \in A /\ h = x) \/ ("destroy" \in A /\ k = x)
  <2> TAKE A, x
  <2>1. OnIt(Append(s, g), A, x) <=> OnIt(s, A, x) \/ ("kids" \in A /\ h = x)
    BY <1>3, OnItUp
  <2>2. Append(s, g) \in Seq(Frame)
    BY <1>3, Pushed
  <2>3. OnIt(Append(Append(s, g), e), A, x) <=>
          OnIt(Append(s, g), A, x) \/ ("destroy" \in A /\ k = x)
    <3>1. PICK a \in Seq(Frame) : a = Append(s, g)
      BY <2>2
    <3>2. OnIt(Append(a, e), A, x) <=> OnIt(a, A, x) \/ (e.at \in A /\ e.h = x)
      BY <1>4, OnItUp, Zenon
    <3> QED BY <1>4, <3>1, <3>2
  <2> QED BY <2>1, <2>3
<1>10. EndsDue(t, Append(Append(s, g), e))
  <2>1. \A A, x : OnIt(Append(s, f), A, x) <=> OnIt(s, A, x) \/ ("kids" \in A /\ h = x)
    BY OnItUp
  <2>2. EndsDue(t, Append(s, f))
    BY DEF Fits
  <2> QED BY <1>9, <2>1, <2>2 DEF EndsDue
<1>11. KidsDue(w, Append(Append(s, g), e))
  <2>1. /\ \A n \in 1 .. Len(s) : s[n].at = "kids" =>
            \A x \in Kin(w, s[n].h) : x < s[n].i => OnIt(s, Going, x) \/ h = x
        /\ \A x \in Kin(w, h) : x < f.i => OnIt(s, Going, x) \/ h = x
    <3>1. KidsDue(w, Append(s, f))
      BY DEF Fits
    <3> HIDE DEF h
    <3>2. /\ \A n \in 1 .. Len(s) : s[n].at = "kids" =>
               \A x \in Kin(w, s[n].h) : x < s[n].i =>
                   OnIt(s, Going, x) \/ (f.at \in Going /\ f.h = x)
          /\ f.at = "kids" =>
               \A x \in Kin(w, f.h) : x < f.i => OnIt(s, Going, x) \/ f.h = x
      BY <3>1, KidsDueUp, Zenon
    <3> QED BY <3>2 DEF h
  <2>2. \A x \in Kin(w, h) : x < k + 1 => x < f.i \/ x = k
    <3>1. \A x \in Kin(w, h) : x \in Nat
      BY DEF Kin, Windows
    <3> QED BY <1>2, <3>1
  <2>3. \A x : OnIt(Append(s, g), Going, x) <=> OnIt(s, Going, x) \/ h = x
    BY <1>3, OnItUp
  <2>4. Append(s, g) \in Seq(Frame)
    BY <1>3, Pushed
  <2>5. \A n \in 1 .. Len(Append(s, g)) : Append(s, g)[n].at = "kids" =>
            \A x \in Kin(w, Append(s, g)[n].h) : x < Append(s, g)[n].i =>
                OnIt(Append(s, g), Going, x) \/ k = x
    <3>1. /\ Len(s) \in Nat /\ Len(Append(s, g)) = Len(s) + 1
          /\ \A n \in 1 .. Len(s) : Append(s, g)[n] = s[n]
          /\ Append(s, g)[Len(s) + 1] = g
      BY <1>3, Pushed
    <3>2. \A n \in 1 .. Len(s) + 1 : n \in 1 .. Len(s) \/ n = Len(s) + 1
      BY <3>1
    <3>3. ASSUME NEW n \in 1 .. Len(s), s[n].at = "kids", NEW x \in Kin(w, s[n].h), x < s[n].i
          PROVE  OnIt(Append(s, g), Going, x) \/ k = x
      BY <2>1, <2>3, <3>3
    <3>4. ASSUME NEW x \in Kin(w, h), x < k + 1 PROVE OnIt(Append(s, g), Going, x) \/ k = x
      BY <2>1, <2>2, <2>3, <3>4
    <3> QED BY <1>3, <3>1, <3>2, <3>3, <3>4
  <2> QED BY <1>4, <2>4, <2>5, KidsDueUp
<1> QED BY <1>8, <1>10, <1>11 DEF Fits, g, e

\* With no child left, what holds the walk is told that it is no more.
LEMMA FreeingFits ==
  ASSUME NEW w, NEW t, NEW N, NEW s \in Seq(Frame), NEW f \in Frame, f.at = "kids",
         Fits(w, t, N, Append(s, f)), \A x \in Kin(w, f.h) : x < f.i
  PROVE  Fits(w, Hears(w, t, f.h, "NCDESTROY"), N, Append(s, [at |-> "freeing", h |-> f.h]))
<1> DEFINE v == Hears(w, t, f.h, "NCDESTROY")
           g == [at |-> "freeing", h |-> f.h]
           h == f.h
<1>1. /\ f.at \in Going /\ h \in Windows /\ w[h].used
      /\ \A n \in 1 .. Len(s) : s[n].at \in Going => h \notin Way(w, s[n].h)
      /\ ~OnIt(s, Going, h) /\ ~OnIt(s, {"kids", "freeing"}, h) /\ ~OnIt(s, {"freeing"}, h)
  BY GoingOnce DEF Going
<1>2. g \in Frame /\ g.at = "freeing" /\ g.h = h /\ g.at \in Going
  BY <1>1, FrameIs DEF Going
<1>3. /\ Housed(w) /\ Tells(w, t) /\ NamesOK(w, N) /\ Stacked(w, t, N, s)
      /\ FrameOK(w, t, N, f) /\ \A n \in 1 .. Len(s) : PairOK(w, s[n], f)
      /\ KidsDue(w, Append(s, f)) /\ EndsDue(t, Append(s, f))
  BY StackedUp DEF Fits
<1>4. \A A, x : OnIt(Append(s, f), A, x) <=> OnIt(s, A, x) \/ ("kids" \in A /\ h = x)
  BY OnItUp
<1>5. ~Contains(t[h], "NCDESTROY")
  BY <1>1, <1>3, <1>4 DEF EndsDue
<1>6. Tells(w, v) /\ Added(w, t, v, h, "NCDESTROY")
  <2>1. \A x \in ToSet(Life) : Contains(t[h], x) => Rank(x) < Rank("NCDESTROY")
    BY <1>5, LifeIs
  <2>2. "NCDESTROY" \in ToSet(Life)
    BY LifeIs
  <2> QED BY <1>1, <1>3, <2>1, <2>2, HearsIs
<1> HIDE DEF v, g, h
<1>7. /\ \A n \in 1 .. Len(s) : s[n].at = "kids" =>
          \A k \in Kin(w, s[n].h) : k < s[n].i => OnIt(s, Going, k) \/ h = k
      /\ \A k \in Kin(w, h) : k < f.i => OnIt(s, Going, k) \/ h = k
  <2>1. /\ \A n \in 1 .. Len(s) : s[n].at = "kids" =>
             \A k \in Kin(w, s[n].h) : k < s[n].i =>
                 OnIt(s, Going, k) \/ (f.at \in Going /\ f.h = k)
        /\ f.at = "kids" =>
             \A k \in Kin(w, f.h) : k < f.i => OnIt(s, Going, k) \/ f.h = k
    BY <1>3, KidsDueUp, Zenon
  <2> QED BY <2>1 DEF h
<1>8. Kin(w, h) = {}
  <2> SUFFICES ASSUME NEW k \in Kin(w, h) PROVE FALSE
    OBVIOUS
  <2>1. k \notin Way(w, h) /\ \A x \in Windows : k \in Way(w, x) => h \in Way(w, x)
    BY <1>1, <1>3, NotInside
  <2>2. w \in [Windows -> Window] /\ k \in Windows
    BY <1>3 DEF Housed, Kin
  <2>3. k \in Way(w, k) /\ h \in Way(w, k)
    BY <2>1, <2>2, WayIs
  <2>4. k # h
    BY <2>1, <2>3
  <2>5. OnIt(s, Going, k)
    BY <1>7, <2>4 DEF h
  <2>6. PICK n \in 1 .. Len(s) : s[n].at \in Going /\ s[n].h = k
    BY <2>5 DEF OnIt
  <2> QED BY <1>1, <2>3, <2>6
<1>9. Stacked(w, v, N, Append(s, g))
  <2>1. Stacked(w, v, N, s)
    BY <1>3, <1>6, EndToldFrames
  <2>2. FrameOK(w, v, N, g)
    <3>1. Contains(v[h], "CREATE") => Contains(t[h], "CREATE")
      BY <1>1, <1>6 DEF Added
    <3>2. Contains(t[h], "CREATE") => Contains(t[h], "DESTROY") /\ ~w[h].sys
      BY <1>1, <1>3 DEF FrameOK, Tells, h
    <3>3. /\ Contains(t[h], "DESTROY") => Contains(v[h], "DESTROY")
          /\ ~w[h].sys => Contains(v[h], "NCDESTROY")
      BY <1>1, <1>6 DEF Added
    <3> QED BY <1>1, <1>2, <1>8, <3>1, <3>2, <3>3 DEF FrameOK
  <2>3. \A n \in 1 .. Len(s) : PairOK(w, s[n], g)
    BY <1>1, <1>2, <1>3, SamePairs DEF h
  <2> QED BY <1>2, <2>1, <2>2, <2>3, StackedUp
<1>10. KidsDue(w, Append(s, g))
  BY <1>2, <1>7, KidsDueUp
<1>11. EndsDue(v, Append(s, g))
  <2>1. \A A, k : OnIt(Append(s, g), A, k) <=> OnIt(s, A, k) \/ ("freeing" \in A /\ h = k)
    BY <1>2, OnItUp
  <2> QED BY <1>3, <1>4, <1>6, <2>1 DEF EndsDue, Added
<1> QED BY <1>3, <1>6, <1>9, <1>10, <1>11 DEF Fits, v, g, h

-----------------------------------------------------------------------------
(* A slot is free again: its window destroyed, or not made.                 *)

LEMMA GoneFits ==
  ASSUME NEW w, NEW t, NEW N, NEW s \in Seq(Frame), NEW f \in Frame,
         f.at \in {"freeing", "nccreated"}, Fits(w, t, N, Append(s, f)),
         NEW v \in [Windows -> Window], ~v[f.h].used, v[f.h].parent = w[f.h].parent,
         \A x \in Windows : x # f.h => v[x] = w[x],
         NEW M, \A x \in M : x = None \/ (x \in N /\ x # f.h)
  PROVE  Fits(v, [t EXCEPT ![f.h] = << >>], M, s)
<1> DEFINE h == f.h
           u == [t EXCEPT ![f.h] = << >>]
<1>1. /\ h \in Windows /\ None \notin Windows
      /\ Housed(w) /\ Tells(w, t) /\ NamesOK(w, N) /\ Stacked(w, t, N, s)
      /\ FrameOK(w, t, N, f) /\ \A n \in 1 .. Len(s) : PairOK(w, s[n], f)
      /\ KidsDue(w, Append(s, f)) /\ EndsDue(t, Append(s, f))
  <2>1. h \in Windows /\ None \notin Windows
    BY FrameIs DEF Windows, None
  <2> QED BY <2>1, StackedUp DEF Fits
<1>2. w \in [Windows -> Window] /\ t \in [Windows -> Seq(ToSet(Life))]
  BY <1>1 DEF Housed, Tells
<1>3. Kin(w, h) = {}
  BY <1>1 DEF FrameOK
<1>4. \A n \in 1 .. Len(s) : s[n].at \in Going => s[n].h # h
  <2>1. CASE f.at = "freeing"
    <3>1. h \in Way(w, h)
      BY <1>1, <1>2, WayIs
    <3>2. f.at \in Going
      BY <2>1 DEF Going
    <3> QED BY <3>1, <3>2, GoingOnce
  <2>2. CASE f.at = "nccreated"
    BY <1>1, <2>2 DEF PairOK, Going, Making
  <2> QED BY <2>1, <2>2
<1>5. \A n \in 1 .. Len(s) : s[n].at = "shown" /\ s[n].h = h => w[h].parent # None
  BY <1>1 DEF PairOK, Going, Making
<1>6. \A A, x : x # h => (OnIt(Append(s, f), A, x) <=> OnIt(s, A, x))
  BY OnItUp
<1>15. KidsBut(w, s, h)
  BY <1>1, KidsButFor
<1>7. /\ \A x \in Windows : v[x].parent = w[x].parent
      /\ \A x : Kin(v, x) \subseteq Kin(w, x) /\ h \notin Kin(v, x)
  BY <1>1 DEF Kin
<1>8. /\ u \in [Windows -> Seq(ToSet(Life))] /\ u[h] = << >>
      /\ \A x \in Windows : x # h => u[x] = t[x]
      /\ \A x : ~Contains(u[h], x)
  <2>1. << >> \in Seq(ToSet(Life)) /\ \A x : ~Contains(<< >>, x)
    BY DEF Contains
  <2> QED BY <1>1, <1>2, <2>1
<1> HIDE DEF u
<1>9. Housed(v)
  BY <1>1, <1>3, HouseWithout
<1>10. Tells(v, u)
  <2>1. InOrder(<< >>)
    BY DEF InOrder
  <2> QED BY <1>1, <1>8, <2>1 DEF Tells
<1>11. NamesOK(v, M)
  BY <1>1 DEF NamesOK
<1> HIDE DEF h
<1>12. Stacked(v, u, M, s)
  <2>1. ASSUME NEW n \in 1 .. Len(s) PROVE FrameOK(v, u, M, s[n])
    <3>1. s[n].h \in Windows /\ FrameOK(w, t, N, s[n])
      BY <1>1, FrameIs DEF Stacked
    <3>2. CASE s[n].h = h
      BY <1>1, <1>4, <1>5, <1>7, <1>8, <3>1, <3>2 DEF FrameOK, Going, h
    <3>3. CASE s[n].h # h
      <4>1. u[s[n].h] = t[s[n].h] /\ v[s[n].h] = w[s[n].h]
        BY <1>8, <3>1, <3>3 DEF h
      <4>2. s[n].at \in {"freeing", "nccreated"} => Kin(v, s[n].h) = {}
        BY <1>7, <3>1 DEF FrameOK
      <4>3. s[n].at = "nccreated" => s[n].h \notin M
        BY <1>1, <3>1 DEF FrameOK
      <4> QED BY <3>1, <4>1, <4>2, <4>3 DEF FrameOK
    <3> QED BY <3>2, <3>3
  <2>2. ASSUME NEW n \in 1 .. Len(s), NEW m \in 1 .. n - 1 PROVE PairOK(v, s[m], s[n])
    <3>1. m \in 1 .. Len(s) /\ s[m].h \in Windows /\ s[n].h \in Windows
      BY FrameIs
    <3>2. PairOK(w, s[m], s[n])
      BY <1>1 DEF Stacked
    <3>3. Way(v, s[m].h) \subseteq Way(w, s[m].h)
      <4>1. Way(w, s[m].h) \in SUBSET Windows
        BY <1>2, <3>1, WayIs
      <4> QED BY <1>2, <1>7, <3>1, <4>1, WayStays
    <3> QED BY <1>7, <3>1, <3>2, <3>3 DEF PairOK
  <2> QED BY <2>1, <2>2 DEF Stacked
<1>13. KidsDue(v, s)
  <2> SUFFICES ASSUME NEW n \in 1 .. Len(s), s[n].at = "kids", NEW k \in Kin(v, s[n].h), k < s[n].i
               PROVE  OnIt(s, Going, k)
    BY DEF KidsDue
  <2>1. k \in Kin(w, s[n].h) /\ k # h
    BY <1>7
  <2> QED BY <1>15, <2>1 DEF KidsBut
<1>14. EndsDue(u, s)
  BY <1>1, <1>6, <1>8 DEF EndsDue
<1> QED BY <1>9, <1>10, <1>11, <1>12, <1>13, <1>14 DEF Fits, u, h

-----------------------------------------------------------------------------
(* A window's making, step by step.                                         *)

\* A frame that destroys nothing in place of another.
LEMMA KidsDueAlike ==
  ASSUME NEW w, NEW s \in Seq(Frame), NEW f \in Frame, NEW g \in Frame,
         f.at \notin Going, g.at # "kids", KidsDue(w, Append(s, f))
  PROVE  KidsDue(w, s) /\ KidsDue(w, Append(s, g))
<1>1. \A n \in 1 .. Len(s) : s[n].at = "kids" =>
          \A k \in Kin(w, s[n].h) : k < s[n].i =>
              OnIt(s, Going, k) \/ (f.at \in Going /\ f.h = k)
  BY KidsDueUp, Zenon
<1>2. KidsDue(w, s)
  BY <1>1 DEF KidsDue
<1>3. \A n \in 1 .. Len(s) : s[n].at = "kids" =>
          \A k \in Kin(w, s[n].h) : k < s[n].i =>
              OnIt(s, Going, k) \/ (g.at \in Going /\ g.h = k)
  BY <1>2 DEF KidsDue
<1>4. KidsDue(w, Append(s, g))
  BY <1>3, KidsDueUp
<1> QED BY <1>2, <1>4

LEMMA MadeFits ==
  ASSUME NEW w, NEW t, NEW N, NEW s \in Seq(Frame), NEW f \in Frame, f.at = "nccreated",
         Fits(w, t, N, Append(s, f)), w[f.h].used
  PROVE  Fits(w, Hears(w, t, f.h, "CREATE"), N, Append(s, [f EXCEPT !.at = "created"]))
<1> DEFINE v == Hears(w, t, f.h, "CREATE")
           g == [f EXCEPT !.at = "created"]
           h == f.h
<1>1. f.at \notin Going /\ f.at \in Making /\ h \in Windows
  BY FrameIs DEF Going, Making
<1>2. /\ g \in Frame /\ g.at = "created" /\ g.h = h
      /\ g.at \notin Going /\ g.at \in Making
  <2>1. g \in Frame /\ g.at = "created" /\ g.h = h
    BY <1>1 DEF Frame, Making
  <2> QED BY <2>1 DEF Going, Making
<1>3. /\ Housed(w) /\ Tells(w, t) /\ NamesOK(w, N) /\ Stacked(w, t, N, s)
      /\ FrameOK(w, t, N, f) /\ KidsDue(w, Append(s, f)) /\ EndsDue(t, s)
      /\ \A n \in 1 .. Len(s) : PairOK(w, s[n], f)
  <2>1. Fits(w, t, N, s)
    BY <1>1, PopFits
  <2> QED BY <2>1, StackedUp DEF Fits
<1>4. \A n \in 1 .. Len(s) : s[n].at # "guest" => s[n].h # h
  BY <1>1, <1>3 DEF PairOK
<1>5. /\ ~Contains(t[h], "CREATE") /\ ~Contains(t[h], "DESTROY") /\ ~Contains(t[h], "NCDESTROY")
      /\ ~w[h].sys => Contains(t[h], "NCCREATE")
  BY <1>1, <1>3, <1>4 DEF EndsDue, OnIt, FrameOK
<1>6. Tells(w, v) /\ Added(w, t, v, h, "CREATE")
  <2>1. \A x \in ToSet(Life) : Contains(t[h], x) => Rank(x) < Rank("CREATE")
    BY <1>5, LifeIs
  <2>2. "CREATE" \in ToSet(Life)
    BY LifeIs
  <2> QED BY <1>1, <1>3, <1>5, <2>1, <2>2, HearsIs
<1> HIDE DEF v, g, h
<1>7. Stacked(w, v, N, Append(s, g))
  <2>1. ASSUME NEW n \in 1 .. Len(s) PROVE FrameOK(w, v, N, s[n])
    <3>1. s[n].h \in Windows /\ FrameOK(w, t, N, s[n])
      BY <1>3, FrameIs DEF Stacked
    <3>2. CASE s[n].at = "guest"
      BY <3>2 DEF FrameOK, Going
    <3>3. CASE s[n].at # "guest"
      <4>1. PICK k \in Windows : k = s[n].h /\ k # h
        BY <1>4, <3>1, <3>3
      <4>2. \A x : Contains(v[k], x) <=> Contains(t[k], x)
        BY <1>6, <4>1 DEF Added
      <4> QED BY <3>1, <4>1, <4>2 DEF FrameOK
    <3> QED BY <3>2, <3>3
  <2>2. Stacked(w, v, N, s)
    BY <1>3, <2>1 DEF Stacked
  <2>3. FrameOK(w, v, N, g)
    BY <1>2 DEF FrameOK
  <2>4. \A n \in 1 .. Len(s) : PairOK(w, s[n], g)
    BY <1>1, <1>2, <1>3, <1>4 DEF PairOK, h
  <2> QED BY <1>2, <2>2, <2>3, <2>4, StackedUp
<1>8. KidsDue(w, Append(s, g))
  BY <1>1, <1>2, <1>3, KidsDueAlike
<1>9. EndsDue(v, Append(s, g))
  <2>1. EndsDue(v, s)
    BY <1>3, <1>6 DEF EndsDue, Added
  <2> QED BY <1>2, <2>1, EndsDueUp
<1> QED BY <1>3, <1>6, <1>7, <1>8, <1>9 DEF Fits, v, g, h

\* What the guest did not want is destroyed.
LEMMA UndoFits ==
  ASSUME NEW w, NEW t, NEW N, NEW s \in Seq(Frame), NEW f \in Frame, f.at = "created",
         Fits(w, t, N, Append(s, f)), w[f.h].used
  PROVE  Fits(w, t, N, Append(s, [at |-> "destroy", h |-> f.h]))
<1> DEFINE g == [at |-> "destroy", h |-> f.h]
<1>1. f.at \notin Going /\ f.at \in Making
  BY DEF Going, Making
<1>2. /\ g \in Frame /\ g.at = "destroy" /\ g.h = f.h
      /\ g.at \in Going /\ g.at # "kids"
  BY FrameIs DEF Going
<1> HIDE DEF g
<1>3. Fits(w, t, N, s) /\ KidsDue(w, Append(s, f)) /\ \A n \in 1 .. Len(s) : PairOK(w, s[n], f)
  BY <1>1, PopFits, StackedUp DEF Fits
<1>4. Stacked(w, t, N, Append(s, g))
  <2>1. FrameOK(w, t, N, g)
    BY <1>2 DEF FrameOK
  <2>2. \A n \in 1 .. Len(s) : PairOK(w, s[n], g)
    BY <1>1, <1>2, <1>3 DEF PairOK
  <2> QED BY <1>2, <1>3, <2>1, <2>2, StackedUp DEF Fits
<1>5. KidsDue(w, Append(s, g))
  BY <1>1, <1>2, <1>3, KidsDueAlike
<1>6. EndsDue(t, Append(s, g))
  BY <1>2, <1>3, EndsDueUp DEF Fits
<1> QED BY <1>3, <1>4, <1>5, <1>6 DEF Fits, g

-----------------------------------------------------------------------------
(* What the guest calls for.                                                *)

LEMMA KidsDuePush ==
  ASSUME NEW w, NEW s \in Seq(Frame), NEW g \in Frame, g.at # "kids", KidsDue(w, s)
  PROVE  KidsDue(w, Append(s, g))
<1>1. \A n \in 1 .. Len(s) : s[n].at = "kids" =>
          \A k \in Kin(w, s[n].h) : k < s[n].i =>
              OnIt(s, Going, k) \/ (g.at \in Going /\ g.h = k)
  BY DEF KidsDue
<1> QED BY <1>1, KidsDueUp

\* A window to be destroyed, that nothing being destroyed is in.
LEMMA AskFits ==
  ASSUME NEW w, NEW t, NEW N, NEW s \in Seq(Frame), NEW h \in Windows, w[h].used,
         Fits(w, t, N, s), ~OnIt(s, {"shown"}, h),
         \A n \in 1 .. Len(s) : s[n].at \in Going => h \notin Way(w, s[n].h)
  PROVE  Fits(w, t, N, Append(s, [at |-> "destroy", h |-> h]))
<1> DEFINE g == [at |-> "destroy", h |-> h]
<1>1. /\ g \in Frame /\ g.at = "destroy" /\ g.h = h
      /\ g.at \in Going /\ g.at \notin Making
  BY FrameIs DEF Going, Making
<1> HIDE DEF g
<1>2. \A n \in 1 .. Len(s) : PairOK(w, s[n], g)
  BY <1>1 DEF PairOK, OnIt
<1>3. FrameOK(w, t, N, g)
  BY <1>1 DEF FrameOK
<1>4. Stacked(w, t, N, Append(s, g))
  BY <1>1, <1>2, <1>3, StackedUp DEF Fits
<1>5. KidsDue(w, Append(s, g))
  BY <1>1, KidsDuePush DEF Fits
<1>6. EndsDue(t, Append(s, g))
  BY <1>1, EndsDueUp DEF Fits
<1> QED BY <1>4, <1>5, <1>6 DEF Fits, g

\* Other names for windows whose making does not wait for its first answer.
LEMMA NamesFit ==
  ASSUME NEW w, NEW t, NEW N, NEW s \in Seq(Frame), Fits(w, t, N, s),
         NEW h \in Windows \cup {None}, h # None => w[h].used /\ ~OnIt(s, {"nccreated"}, h),
         NEW M, M \subseteq N \cup {h}
  PROVE  Fits(w, t, M, s)
<1>1. NamesOK(w, M)
  BY DEF Fits, NamesOK
<1>2. ASSUME NEW n \in 1 .. Len(s) PROVE FrameOK(w, t, M, s[n])
  <2>1. FrameOK(w, t, N, s[n]) /\ s[n].h \in Windows /\ None \notin Windows
    BY FrameIs DEF Fits, Stacked, None, Windows
  <2>2. s[n].at = "nccreated" => s[n].h # h
    BY <2>1 DEF OnIt
  <2>3. s[n].at = "nccreated" => s[n].h \notin M
    BY <2>1, <2>2 DEF FrameOK
  <2> QED BY <2>1, <2>3 DEF FrameOK
<1> QED BY <1>1, <1>2 DEF Fits, Stacked

\* A table that differs in what is shown, or in who answers for a window that
\* was told nothing yet and waits for nothing.
LEMMA AlteredFits ==
  ASSUME NEW w, NEW t, NEW N, NEW s \in Seq(Frame), Fits(w, t, N, s),
         NEW v \in [Windows -> Window],
         \A x \in Windows :
            /\ v[x].used = w[x].used /\ v[x].parent = w[x].parent
            /\ v[x].sys = w[x].sys \/ (~Contains(t[x], "NCCREATE") /\ ~OnIt(s, {"nccreated"}, x))
  PROVE  Fits(v, t, N, s)
<1>1. w \in [Windows -> Window] /\ Housed(w) /\ Tells(w, t)
  BY DEF Fits, Housed
<1>2. Housed(v)
  BY <1>1, SameHouse
<1>3. Tells(v, t)
  BY <1>1 DEF Tells
<1>4. NamesOK(v, N)
  BY DEF Fits, NamesOK
<1>5. \A x : Kin(v, x) = Kin(w, x)
  BY DEF Kin
<1>6. \A x \in Windows : Way(v, x) \subseteq Way(w, x)
  <2> TAKE x \in Windows
  <2>1. Way(w, x) \in SUBSET Windows
    BY <1>1, WayIs
  <2> QED BY <1>1, <2>1, WayStays
<1>7. ASSUME NEW n \in 1 .. Len(s) PROVE FrameOK(v, t, N, s[n])
  <2>1. FrameOK(w, t, N, s[n]) /\ s[n].h \in Windows
    BY FrameIs DEF Fits, Stacked
  <2>2. s[n].at = "nccreated" => v[s[n].h].sys = w[s[n].h].sys
    BY <2>1 DEF OnIt
  <2> QED BY <1>5, <2>1, <2>2 DEF FrameOK
<1>8. ASSUME NEW n \in 1 .. Len(s), NEW m \in 1 .. n - 1 PROVE PairOK(v, s[m], s[n])
  <2>1. s[m].h \in Windows /\ s[n].h \in Windows
    BY FrameIs
  <2>2. PairOK(w, s[m], s[n])
    BY DEF Fits, Stacked
  <2> QED BY <1>6, <2>1, <2>2 DEF PairOK
<1>9. Stacked(v, t, N, s)
  BY <1>7, <1>8 DEF Stacked
<1>10. KidsDue(v, s)
  BY <1>5 DEF Fits, KidsDue
<1> QED BY <1>2, <1>3, <1>4, <1>9, <1>10 DEF Fits

\* A new window, in a slot the host is not at work on.
LEMMA CreateFits ==
  ASSUME NEW w, NEW t, NEW N, NEW s \in Seq(Frame), Fits(w, t, N, s),
         NEW sl \in Windows, ~w[sl].used,
         \A n \in 1 .. Len(s) : s[n].at # "guest" => s[n].h # sl,
         NEW p \in Windows \cup {None},
         p # None => w[p].used /\ ~OnIt(s, Going, p) /\ ~OnIt(s, {"nccreated"}, p),
         NEW sys \in BOOLEAN, NEW show \in BOOLEAN, NEW v, NEW u,
         v = [w EXCEPT ![sl] = [used |-> TRUE, parent |-> p, sys |-> sys, shown |-> FALSE]],
         u = [t EXCEPT ![sl] = IF sys THEN << >> ELSE << "NCCREATE" >>]
  PROVE  Fits(v, u, N, Append(s, [at |-> "nccreated", h |-> sl, show |-> show]))
<1> DEFINE g == [at |-> "nccreated", h |-> sl, show |-> show]
           l == IF sys THEN << >> ELSE << "NCCREATE" >>
<1>1. /\ Housed(w) /\ Tells(w, t) /\ NamesOK(w, N) /\ Stacked(w, t, N, s)
      /\ KidsDue(w, s) /\ EndsDue(t, s)
      /\ w \in [Windows -> Window] /\ t \in [Windows -> Seq(ToSet(Life))]
      /\ None \notin Windows
  <2>1. /\ Housed(w) /\ Tells(w, t) /\ NamesOK(w, N) /\ Stacked(w, t, N, s)
        /\ KidsDue(w, s) /\ EndsDue(t, s)
    BY DEF Fits
  <2>2. None \notin Windows
    BY DEF None, Windows
  <2>3. w \in [Windows -> Window] /\ t \in [Windows -> Seq(ToSet(Life))]
    BY <2>1 DEF Housed, Tells
  <2> QED BY <2>1, <2>2, <2>3
<1>2. /\ g \in Frame /\ g.at = "nccreated" /\ g.h = sl
      /\ g.at \in Making /\ g.at \notin Going
  BY DEF Frame, Making, Going
<1>3. /\ v \in [Windows -> Window] /\ v[sl].used /\ v[sl].parent = p /\ v[sl].sys = sys
      /\ \A x \in Windows : x # sl => v[x] = w[x]
  <2>1. [used |-> TRUE, parent |-> p, sys |-> sys, shown |-> FALSE] \in Window
    BY DEF Window
  <2> QED BY <1>1, <2>1
<1>4. /\ l \in Seq(ToSet(Life)) /\ InOrder(l)
      /\ \A x : Contains(l, x) <=> x = "NCCREATE" /\ ~sys
  <2>1. << "NCCREATE" >> \in Seq(ToSet(Life)) /\ << >> \in Seq(ToSet(Life))
    BY LifeIs
  <2>2. InOrder(<< >>) /\ InOrder(<< "NCCREATE" >>)
    BY DEF InOrder
  <2>3. /\ \A x : Contains(<< >>, x) <=> FALSE
        /\ \A x : Contains(<< "NCCREATE" >>, x) <=> x = "NCCREATE"
    BY DEF Contains
  <2> QED BY <2>1, <2>2, <2>3
<1>5. u = [t EXCEPT ![sl] = l]
  OBVIOUS
<1> HIDE DEF g, l
<1>6. /\ u \in [Windows -> Seq(ToSet(Life))] /\ u[sl] = l
      /\ \A x \in Windows : x # sl => u[x] = t[x]
  BY <1>1, <1>4, <1>5
<1>7. p # sl
  BY <1>1
<1>8. Housed(v)
  BY <1>1, <1>3, <1>7, HouseWith
<1>9. Tells(v, u)
  <2>1. ASSUME NEW x \in Windows
        PROVE  /\ InOrder(u[x]) /\ (~v[x].used => u[x] = << >>)
               /\ Contains(u[x], "CREATE") => Contains(u[x], "NCCREATE")
               /\ Contains(u[x], "NCCREATE") => ~v[x].sys
    <3>1. CASE x = sl
      BY <1>3, <1>4, <1>6, <3>1
    <3>2. CASE x # sl
      BY <1>1, <1>3, <1>6, <3>2 DEF Tells
    <3> QED BY <3>1, <3>2
  <2> QED BY <1>6, <2>1 DEF Tells
<1>10. NamesOK(v, N) /\ sl \notin N
  BY <1>1, <1>3 DEF NamesOK
<1>11. Kin(w, sl) = {} /\ Kin(v, sl) = {}
  BY <1>1, <1>3, <1>7 DEF Kin, Housed
<1>12. \A x \in Windows : x # p => Kin(v, x) \subseteq Kin(w, x)
  BY <1>1, <1>3 DEF Kin
<1>13. \A n \in 1 .. Len(s) : s[n].h \in Windows /\ FrameOK(w, t, N, s[n])
  BY <1>1, FrameIs DEF Stacked
<1>14. ASSUME NEW n \in 1 .. Len(s), s[n].at \in Going
       PROVE  sl \notin Way(w, s[n].h) /\ Way(v, s[n].h) \subseteq Way(w, s[n].h)
  <2>1. s[n].h \in Windows /\ w[s[n].h].used
    BY <1>13, <1>14 DEF FrameOK
  <2>2. sl \notin Way(w, s[n].h)
    BY <1>1, <2>1, WayUp
  <2>3. Way(w, s[n].h) \in SUBSET Windows
    BY <1>1, <2>1, WayIs
  <2>4. \A x \in Way(w, s[n].h) : v[x].parent = w[x].parent
    BY <1>3, <2>2, <2>3
  <2> QED BY <1>1, <1>3, <2>1, <2>2, <2>4, WayStays
<1>15. ASSUME NEW n \in 1 .. Len(s), s[n].at \in {"nccreated"} \cup Going
       PROVE  s[n].h # p
  <2>1. s[n].h # None
    BY <1>1, <1>13
  <2> QED BY <1>15, <2>1 DEF OnIt
<1>16. ASSUME NEW n \in 1 .. Len(s) PROVE FrameOK(v, u, N, s[n])
  <2>1. CASE s[n].at = "guest"
    BY <2>1 DEF FrameOK, Going
  <2>2. CASE s[n].at # "guest"
    <3>1. s[n].h # sl /\ v[s[n].h] = w[s[n].h] /\ u[s[n].h] = t[s[n].h]
      BY <1>3, <1>6, <1>13, <2>2
    <3>2. s[n].at \in {"freeing", "nccreated"} => Kin(v, s[n].h) = {}
      <4>1. s[n].at = "freeing" => s[n].at \in Going
        BY DEF Going
      <4> QED BY <1>12, <1>13, <1>15, <4>1 DEF FrameOK
    <3> QED BY <1>13, <3>1, <3>2 DEF FrameOK
  <2> QED BY <2>1, <2>2
<1>17. ASSUME NEW n \in 1 .. Len(s), NEW m \in 1 .. n - 1 PROVE PairOK(v, s[m], s[n])
  <2>1. m \in 1 .. Len(s) /\ s[m].h \in Windows /\ s[n].h \in Windows
    BY <1>13
  <2>2. PairOK(w, s[m], s[n])
    BY <1>1 DEF Stacked
  <2>3. s[m].at \in Going => Way(v, s[m].h) \subseteq Way(w, s[m].h)
    BY <1>14, <2>1
  <2>4. s[n].at \in Going => v[s[n].h] = w[s[n].h]
    <3>1. s[n].at \in Going => w[s[n].h].used
      BY <1>13 DEF FrameOK
    <3> QED BY <1>3, <2>1, <3>1
  <2> QED BY <2>1, <2>2, <2>3, <2>4 DEF PairOK
<1>18. Stacked(v, u, N, s)
  BY <1>16, <1>17 DEF Stacked
<1>19. Stacked(v, u, N, Append(s, g))
  <2>1. FrameOK(v, u, N, g)
    <3>1. ~Contains(u[sl], "CREATE") /\ (~sys => Contains(u[sl], "NCCREATE"))
      BY <1>4, <1>6
    <3>2. g.at \notin Going /\ g.at = "nccreated" /\ g.h = sl
      BY <1>2
    <3> QED BY <1>3, <1>10, <1>11, <3>1, <3>2 DEF FrameOK
  <2>2. ASSUME NEW n \in 1 .. Len(s) PROVE PairOK(v, s[n], g)
    <3>1. s[n].at # "guest" => s[n].h # sl
      OBVIOUS
    <3>2. s[n].at \in Going => sl \notin Way(v, s[n].h)
      BY <1>14
    <3> QED BY <1>2, <3>1, <3>2 DEF PairOK
  <2> QED BY <1>2, <1>18, <2>1, <2>2, StackedUp
<1>20. KidsDue(v, Append(s, g))
  <2>1. ASSUME NEW n \in 1 .. Len(s), s[n].at = "kids" PROVE Kin(v, s[n].h) \subseteq Kin(w, s[n].h)
    <3>1. s[n].at \in Going
      BY <2>1 DEF Going
    <3> QED BY <1>12, <1>13, <1>15, <3>1
  <2>2. KidsDue(v, s)
    BY <1>1, <2>1 DEF KidsDue
  <2> QED BY <1>2, <2>2, KidsDuePush
<1>21. EndsDue(u, Append(s, g))
  <2>1. EndsDue(u, s)
    BY <1>1, <1>4, <1>6 DEF EndsDue
  <2> QED BY <1>2, <2>1, EndsDueUp
<1> QED BY <1>8, <1>9, <1>10, <1>19, <1>20, <1>21 DEF Fits, g

-----------------------------------------------------------------------------
(* What every step starts from and sends.                                   *)

LEMMA HandlersIs ==
  /\ Handlers(<< >>) = 0
  /\ \A s \in Seq(Frame), f \in Frame :
        /\ Handlers(s) \in Nat
        /\ Handlers(Append(s, f)) = Handlers(s) + (IF f.at = "guest" THEN 1 ELSE 0)
<1>1. Handlers(<< >>) = 0
  <2>1. {n \in DOMAIN << >> : << >>[n].at = "guest"} = {}
    OBVIOUS
  <2> QED BY <2>1, FS_EmptySet DEF Handlers
<1>2. ASSUME NEW s \in Seq(Frame), NEW f \in Frame
      PROVE  /\ Handlers(s) \in Nat
             /\ Handlers(Append(s, f)) = Handlers(s) + (IF f.at = "guest" THEN 1 ELSE 0)
  <2> DEFINE a == Append(s, f)
             S == {n \in DOMAIN s : s[n].at = "guest"}
  <2>1. /\ Len(s) \in Nat /\ Len(a) = Len(s) + 1 /\ a \in Seq(Frame)
        /\ \A n \in 1 .. Len(s) : a[n] = s[n]
        /\ a[Len(s) + 1] = f
    BY Pushed
  <2>2. DOMAIN s = 1 .. Len(s)
    OBVIOUS
  <2> HIDE DEF a
  <2>3. DOMAIN a = 1 .. Len(s) + 1
    BY <2>1
  <2>4. S \subseteq 1 .. Len(s)
    BY <2>2
  <2>5. IsFiniteSet(S)
    <3>1. IsFiniteSet(1 .. Len(s))
      BY <2>1, FS_Interval
    <3> QED BY <2>4, <3>1, FS_Subset
  <2>6. Cardinality(S) \in Nat
    BY <2>5, FS_CardinalityType
  <2>7. {n \in DOMAIN a : a[n].at = "guest"} = IF f.at = "guest" THEN S \cup {Len(s) + 1} ELSE S
    BY <2>1, <2>2, <2>3
  <2>8. Len(s) + 1 \notin S
    BY <2>1, <2>4
  <2> HIDE DEF S
  <2>9. Cardinality(S \cup {Len(s) + 1}) = Cardinality(S) + 1
    BY <2>5, <2>8, FS_AddElement
  <2>10. Handlers(s) = Cardinality(S)
    BY DEF Handlers, S
  <2>11. Handlers(a) = Cardinality(IF f.at = "guest" THEN S \cup {Len(s) + 1} ELSE S)
    BY <2>7 DEF Handlers
  <2> QED BY <2>6, <2>9, <2>10, <2>11 DEF a
<1> QED BY <1>1, <1>2

LEMMA TopIs ==
  ASSUME WindowsInv, stack # << >>
  PROVE  \E s \in Seq(Frame), f \in Frame :
            /\ stack = Append(s, f) /\ Below = s /\ Top = f
            /\ Handlers(s) <= MaxDepth /\ Fits(wins, told, InUse, Append(s, f))
<1>1. stack \in Seq(Frame) /\ Handlers(stack) <= MaxDepth /\ Fits(wins, told, InUse, stack)
  BY DEF WindowsInv, Fits, Stacked
<1>2. Below \in Seq(Frame) /\ Top \in Frame /\ stack = Append(Below, Top)
  BY <1>1, TopAndBelow DEF Below, Top
<1>3. Handlers(Below) <= MaxDepth
  <2>1. PICK s \in Seq(Frame), f \in Frame : s = Below /\ f = Top /\ stack = Append(s, f)
    BY <1>2
  <2>2. /\ Handlers(s) \in Nat
        /\ Handlers(stack) = Handlers(s) + (IF f.at = "guest" THEN 1 ELSE 0)
    BY <2>1, HandlersIs
  <2>3. MaxDepth \in Nat
    BY WindowConstants
  <2> QED BY <1>1, <2>1, <2>2, <2>3
<1> QED BY <1>1, <1>2, <1>3

LEMMA SendFits ==
  ASSUME NEW s \in Seq(Frame), NEW h \in Windows, NEW m, Send(s, h, m), Handlers(s) <= MaxDepth,
         NEW w, NEW N, Fits(w, Hears(wins, told, h, m), N, s)
  PROVE  Fits(w, told', N, stack') /\ Handlers(stack') <= MaxDepth /\ answer' \in {-1, 0, 1}
<1>1. h # None
  BY DEF Windows, None
<1>2. CASE /\ ~Live(h) \/ wins[h].sys
           /\ stack' = s
           /\ answer' = Heard(s, IF Live(h) THEN DefAnswer(m) ELSE 0)
           /\ UNCHANGED told
  <2>1. told' = Hears(wins, told, h, m)
    BY <1>1, <1>2 DEF Hears, Live
  <2>2. answer' \in {0, 1}
    BY <1>2 DEF Heard, DefAnswer
  <2> QED BY <1>2, <2>1, <2>2
<1>3. CASE /\ Live(h) /\ ~wins[h].sys /\ Handlers(s) < MaxDepth
           /\ stack' = Append(s, [at |-> "guest", h |-> h])
           /\ told' = IF Contains(Life, m) THEN [told EXCEPT ![h] = Append(@, m)] ELSE told
           /\ answer' = 0
  <2>1. told' = Hears(wins, told, h, m)
    BY <1>1, <1>3 DEF Hears, Live
  <2>2. Fits(w, told', N, stack')
    BY <1>3, <2>1, GuestFits
  <2>3. Handlers(stack') <= MaxDepth
    <3>1. [at |-> "guest", h |-> h] \in Frame
      BY FrameIs
    <3>2. Handlers(s) \in Nat /\ Handlers(stack') = Handlers(s) + 1
      BY <1>3, <3>1, HandlersIs
    <3>3. MaxDepth \in Nat
      BY WindowConstants
    <3> QED BY <1>3, <3>2, <3>3
  <2> QED BY <1>3, <2>2, <2>3
<1> QED BY <1>2, <1>3 DEF Send

LEMMA HearsNothing ==
  \A w, t, h : \A m \in {"SIZE", "MOVE", "SHOWWINDOW", "USER"} : Hears(w, t, h, m) = t
BY LifeIs DEF Hears

LEMMA FrameThen ==
  ASSUME NEW f \in Frame, f.at \in Making \cup {"sized", "show", "shown", "place", "hide"},
         NEW p \in {"created", "sized", "show", "shown"}
  PROVE  /\ [f EXCEPT !.at = p] \in Frame
         /\ [f EXCEPT !.at = p].at = p /\ [f EXCEPT !.at = p].h = f.h
BY DEF Frame, Making

LEMMA FreedIs ==
  ASSUME wins \in [Windows -> Window], NEW h \in Windows, wins' = Freed(h)
  PROVE  /\ wins' \in [Windows -> Window] /\ ~wins'[h].used /\ wins'[h].parent = wins[h].parent
         /\ \A x \in Windows : x # h => wins'[x] = wins[x]
<1>1. wins[h].parent \in Windows \cup {None}
  BY DEF Window
<1>2. /\ [Free EXCEPT !.parent = wins[h].parent] \in Window
      /\ ~[Free EXCEPT !.parent = wins[h].parent].used
      /\ [Free EXCEPT !.parent = wins[h].parent].parent = wins[h].parent
  BY <1>1 DEF Free, Window
<1> QED BY <1>2 DEF Freed

LEMMA SameInUse == UNCHANGED <<named, active>> => InUse' = InUse
BY DEF InUse

-----------------------------------------------------------------------------
(* The host's steps.                                                        *)

LEMMA GoesOn ==
  ASSUME WindowsInv, UNCHANGED <<named, active>>, Fits(wins', told', InUse, stack'),
         Handlers(stack') <= MaxDepth, answer' \in {-1, 0, 1}
  PROVE  WindowsInv'
BY SameInUse DEF WindowsInv

\* A message sent, on the way.
LEMMA SendGoesOn ==
  ASSUME WindowsInv, UNCHANGED <<wins, named, active>>,
         NEW s \in Seq(Frame), NEW h \in Windows, NEW m, Send(s, h, m), Handlers(s) <= MaxDepth,
         Fits(wins, Hears(wins, told, h, m), InUse, s)
  PROVE  WindowsInv'
<1>1. PICK w, N : w = wins /\ N = InUse
  OBVIOUS
<1>2. Fits(w, Hears(wins, told, h, m), N, s)
  BY <1>1
<1>3. Fits(w, told', N, stack') /\ Handlers(stack') <= MaxDepth /\ answer' \in {-1, 0, 1}
  BY <1>2, SendFits
<1> QED BY <1>1, <1>3, GoesOn

LEMMA DestroyBeginsKeeps == ASSUME WindowsInv, DestroyBegins PROVE WindowsInv'
<1>1. PICK s \in Seq(Frame), f \in Frame :
        /\ Below = s /\ Top = f
        /\ Handlers(s) <= MaxDepth /\ Fits(wins, told, InUse, Append(s, f))
  BY TopIs DEF DestroyBegins, At
<1>2. f.at = "destroy" /\ f.h \in Windows
  BY <1>1, FrameIs DEF DestroyBegins, At
<1> DEFINE g == [at |-> "kids", h |-> f.h, i |-> 1]
           a == Append(s, g)
<1>3. g \in Frame /\ g.at = "kids"
  BY <1>2, FrameIs
<1>4. a \in Seq(Frame) /\ Handlers(a) <= MaxDepth
  BY <1>1, <1>3, Pushed, HandlersIs
<1>5. Send(a, f.h, "DESTROY") /\ UNCHANGED <<wins, named, active>>
  BY <1>1 DEF DestroyBegins
<1>6. Fits(wins, Hears(wins, told, f.h, "DESTROY"), InUse, a)
  BY <1>1, <1>2, DestroyBeginsFits
<1> HIDE DEF a
<1> QED BY <1>2, <1>4, <1>5, <1>6, SendGoesOn

LEMMA DestroyKidsKeeps == ASSUME WindowsInv, DestroyKids PROVE WindowsInv'
<1>1. PICK s \in Seq(Frame), f \in Frame :
        /\ Below = s /\ Top = f
        /\ Handlers(s) <= MaxDepth /\ Fits(wins, told, InUse, Append(s, f))
  BY TopIs DEF DestroyKids, At
<1>2. f.at = "kids" /\ f.h \in Windows /\ f.i \in Nat
  BY <1>1, FrameIs DEF DestroyKids, At
<1> DEFINE K == {k \in Kin(wins, f.h) : k >= f.i}
<1>3. K = KidsFrom(Top.h, Top.i) /\ UNCHANGED <<wins, named, active>>
  BY <1>1 DEF DestroyKids, KidsFrom, Children, Kin
<1>4. CASE /\ K # {}
           /\ stack' = Below \o << [Top EXCEPT !.i = Min(K) + 1],
                                   [at |-> "destroy", h |-> Min(K)] >>
           /\ UNCHANGED <<answer, told>>
  <2> DEFINE k == Min(K)
             g == [f EXCEPT !.i = k + 1]
             e == [at |-> "destroy", h |-> k]
  <2>1. K \in SUBSET Nat
    BY DEF Kin, Windows
  <2>2. k \in K /\ \A y \in K : k <= y
    BY <1>4, <2>1, LeastIsThere
  <2> HIDE DEF k
  <2>3. k \in Kin(wins, f.h) /\ k \in Windows
    BY <2>2 DEF Kin
  <2> HIDE DEF K
  <2>4. \A x \in Kin(wins, f.h) : x < k => x < f.i
    <3>1. \A x \in Kin(wins, f.h) : x \in Int /\ k \in Int
      BY <2>3 DEF Kin, Windows
    <3>2. \A x \in Kin(wins, f.h) : x < k => x \notin K
      BY <2>2, <3>1
    <3> QED BY <1>2, <3>1, <3>2 DEF K
  <2>5. Fits(wins, told, InUse, Append(Append(s, g), e))
    BY <1>1, <1>2, <2>3, <2>4, NextKidFits
  <2>6. g \in Frame /\ g.at = "kids" /\ e \in Frame /\ e.at = "destroy"
    <3>1. f \in [at : {"kids"}, h : Windows, i : Nat]
      BY <1>2 DEF Frame, Making
    <3>2. k + 1 \in Nat
      BY <2>3 DEF Windows
    <3>3. g \in [at : {"kids"}, h : Windows, i : Nat]
      BY <3>1, <3>2
    <3> QED BY <2>3, <3>3, FrameIs DEF Frame
  <2>7. stack' = s \o << g, e >>
    BY <1>1, <1>4 DEF k
  <2> HIDE DEF g, e
  <2>8. stack' = Append(Append(s, g), e)
    BY <2>6, <2>7
  <2>9. /\ Handlers(Append(s, g)) = Handlers(s) /\ Append(s, g) \in Seq(Frame)
        /\ Handlers(s) \in Nat
    BY <2>6, HandlersIs, Pushed
  <2>10. Handlers(Append(Append(s, g), e)) = Handlers(Append(s, g)) + 0
    BY <2>6, <2>9, HandlersIs
  <2>11. Handlers(stack') <= MaxDepth
    BY <1>1, <2>8, <2>9, <2>10
  <2>12. answer' \in {-1, 0, 1} /\ wins' = wins /\ told' = told
    BY <1>3, <1>4 DEF WindowsInv
  <2> QED BY <1>3, <2>5, <2>8, <2>11, <2>12, GoesOn
<1>5. CASE /\ K = {}
           /\ Send(Append(Below, [at |-> "freeing", h |-> Top.h]), Top.h, "NCDESTROY")
  <2> DEFINE g == [at |-> "freeing", h |-> f.h]
             a == Append(s, g)
  <2>1. g \in Frame /\ g.at = "freeing"
    BY <1>2, FrameIs
  <2>2. a \in Seq(Frame) /\ Handlers(a) <= MaxDepth
    BY <1>1, <2>1, Pushed, HandlersIs
  <2>3. Send(a, f.h, "NCDESTROY")
    BY <1>1, <1>5
  <2>4. \A x \in Kin(wins, f.h) : x < f.i
    <3>1. \A x \in Kin(wins, f.h) : x \in Nat
      BY DEF Kin, Windows
    <3> QED BY <1>2, <1>5, <3>1
  <2>5. Fits(wins, Hears(wins, told, f.h, "NCDESTROY"), InUse, a)
    BY <1>1, <1>2, <2>4, FreeingFits
  <2> HIDE DEF a
  <2> QED BY <1>2, <1>3, <2>2, <2>3, <2>5, SendGoesOn
<1> HIDE DEF K
<1> QED BY <1>3, <1>4, <1>5 DEF DestroyKids

LEMMA DestroyEndsKeeps == ASSUME WindowsInv, DestroyEnds PROVE WindowsInv'
<1>1. PICK s \in Seq(Frame), f \in Frame :
        /\ Below = s /\ Top = f
        /\ Handlers(s) <= MaxDepth /\ Fits(wins, told, InUse, Append(s, f))
  BY TopIs DEF DestroyEnds, At
<1>2. f.at = "freeing" /\ f.h \in Windows /\ stack' = s /\ answer' = answer
  BY <1>1, FrameIs DEF DestroyEnds, At
<1>3. /\ wins \in [Windows -> Window]
      /\ named \in [Names -> Windows \cup {None}] /\ active \in Windows \cup {None}
      /\ answer \in {-1, 0, 1}
  BY DEF WindowsInv, Fits, Housed
<1>4. /\ wins' \in [Windows -> Window] /\ ~wins'[f.h].used /\ wins'[f.h].parent = wins[f.h].parent
      /\ \A x \in Windows : x # f.h => wins'[x] = wins[x]
  BY <1>1, <1>2, <1>3, FreedIs DEF DestroyEnds
<1>5. /\ named' = [n \in Names |-> Cleared(named[n], f.h)]
      /\ active' = Cleared(active, f.h)
      /\ told' = [told EXCEPT ![f.h] = << >>]
  BY <1>1 DEF DestroyEnds
<1>6. \A x \in InUse' : x = None \/ (x \in InUse /\ x # f.h)
  BY <1>3, <1>5 DEF InUse, Range, Cleared
<1>7. named' \in [Names -> Windows \cup {None}] /\ active' \in Windows \cup {None}
  BY <1>3, <1>5 DEF Cleared
<1>8. PICK v, M : v = wins' /\ M = InUse'
  OBVIOUS
<1>9. Fits(v, [told EXCEPT ![f.h] = << >>], M, s)
  BY <1>1, <1>2, <1>4, <1>6, <1>8, GoneFits
<1>10. Fits(wins', told', InUse', stack')
  BY <1>2, <1>5, <1>8, <1>9
<1> QED BY <1>1, <1>2, <1>3, <1>7, <1>10 DEF WindowsInv

\* What a function that is neither destroying nor making goes on with.
LEMMA NextGoesOn ==
  ASSUME WindowsInv, UNCHANGED <<wins, named, active>>,
         NEW s \in Seq(Frame), NEW f \in Frame, NEW p \in {"sized", "show"},
         NEW m \in {"SIZE", "MOVE"}, f.at \in {"created", "place", "sized"},
         Send(Append(s, [f EXCEPT !.at = p]), f.h, m),
         Handlers(s) <= MaxDepth, Fits(wins, told, InUse, Append(s, f))
  PROVE  WindowsInv'
<1> DEFINE g == [f EXCEPT !.at = p]
           a == Append(s, g)
<1>1. f.at \in Making \cup {"sized", "show", "shown", "place", "hide"}
  BY DEF Making
<1>2. g \in Frame /\ g.at = p /\ g.h = f.h /\ f.h \in Windows
  <2>1. p \in {"created", "sized", "show", "shown"}
    OBVIOUS
  <2>2. g \in Frame /\ g.at = p /\ g.h = f.h
    BY <1>1, <2>1, FrameThen
  <2> QED BY <2>2, FrameIs
<1> HIDE DEF g
<1>3. a \in Seq(Frame) /\ Handlers(a) <= MaxDepth
  BY <1>2, Pushed, HandlersIs
<1>4. f.at \notin Going \cup {"guest", "nccreated"} /\ g.at \in {"sized", "show", "shown"}
  BY <1>2 DEF Going
<1>5. FrameOK(wins, told, InUse, g)
  BY <1>2 DEF FrameOK, Going
<1>6. Fits(wins, told, InUse, a)
  BY <1>2, <1>4, <1>5, OnFits
<1>7. Fits(wins, Hears(wins, told, f.h, m), InUse, a)
  BY <1>6, HearsNothing
<1>8. Send(a, f.h, m)
  BY DEF g
<1> HIDE DEF a
<1> QED BY <1>2, <1>3, <1>7, <1>8, SendGoesOn

\* A function that is left.
LEMMA LeftGoesOn ==
  ASSUME WindowsInv, UNCHANGED <<wins, named, active, told>>,
         NEW s \in Seq(Frame), NEW f \in Frame, f.at \notin Going, stack' = s,
         Handlers(s) <= MaxDepth, Fits(wins, told, InUse, Append(s, f)), answer' \in {-1, 0, 1}
  PROVE  WindowsInv'
<1>1. Fits(wins, told, InUse, s)
  BY PopFits
<1> QED BY <1>1, GoesOn

LEMMA CreateAskedKeeps == ASSUME WindowsInv, CreateAsked PROVE WindowsInv'
<1>1. PICK s \in Seq(Frame), f \in Frame :
        /\ Below = s /\ Top = f
        /\ Handlers(s) <= MaxDepth /\ Fits(wins, told, InUse, Append(s, f))
  BY TopIs DEF CreateAsked, At
<1>2. f.at = "nccreated" /\ f.h \in Windows /\ f.h # None
  BY <1>1, FrameIs DEF CreateAsked, At, Windows, None
<1>3. UNCHANGED <<named, active>> /\ wins \in [Windows -> Window]
  BY DEF CreateAsked, WindowsInv, Fits, Housed
<1>4. CASE /\ wins' = Freed(Top.h)
           /\ told' = [told EXCEPT ![Top.h] = << >>]
           /\ stack' = Below
           /\ answer' = 0
  <2>1. /\ wins' \in [Windows -> Window] /\ ~wins'[f.h].used /\ wins'[f.h].parent = wins[f.h].parent
        /\ \A x \in Windows : x # f.h => wins'[x] = wins[x]
    BY <1>1, <1>2, <1>3, <1>4, FreedIs
  <2>2. f.h \notin InUse
    BY <1>1, <1>2, StackedUp DEF Fits, FrameOK
  <2>3. PICK v : v = wins'
    OBVIOUS
  <2>4. \A x \in InUse : x = None \/ (x \in InUse /\ x # f.h)
    BY <2>2
  <2>5. Fits(v, [told EXCEPT ![f.h] = << >>], InUse, s)
    BY <1>1, <1>2, <2>1, <2>3, <2>4, GoneFits
  <2>6. Fits(wins', told', InUse, stack')
    BY <1>1, <1>4, <2>3, <2>5
  <2> QED BY <1>1, <1>3, <1>4, <2>6, GoesOn
<1>5. CASE Live(Top.h) /\ Send(Then("created"), Top.h, "CREATE") /\ UNCHANGED wins
  <2> DEFINE g == [f EXCEPT !.at = "created"]
             a == Append(s, g)
  <2>1. f.at \in Making \cup {"sized", "show", "shown", "place", "hide"}
    BY <1>2 DEF Making
  <2>2. g \in Frame /\ g.at = "created"
    BY <2>1, FrameThen
  <2>4. wins[f.h].used
    BY <1>1, <1>5 DEF Live
  <2>5. Fits(wins, Hears(wins, told, f.h, "CREATE"), InUse, a)
    BY <1>1, <1>2, <2>4, MadeFits
  <2>3. a \in Seq(Frame) /\ Handlers(a) <= MaxDepth
    <3> HIDE DEF g
    <3>1. g.at # "guest"
      BY <2>2
    <3>2. Handlers(a) = Handlers(s) + 0 /\ Handlers(s) \in Nat
      BY <2>2, <3>1, HandlersIs
    <3> QED BY <1>1, <2>2, <3>2, Pushed
  <2>6. Send(a, f.h, "CREATE")
    BY <1>1, <1>5 DEF Then
  <2> HIDE DEF a
  <2> QED BY <1>2, <1>3, <1>5, <2>3, <2>5, <2>6, SendGoesOn
<1> QED BY <1>4, <1>5 DEF CreateAsked

LEMMA CreateToldKeeps == ASSUME WindowsInv, CreateTold PROVE WindowsInv'
<1>1. PICK s \in Seq(Frame), f \in Frame :
        /\ Below = s /\ Top = f
        /\ Handlers(s) <= MaxDepth /\ Fits(wins, told, InUse, Append(s, f))
  BY TopIs DEF CreateTold, At
<1>2. f.at = "created" /\ f.h \in Windows /\ f.at \notin Going
  BY <1>1, FrameIs DEF CreateTold, At, Going
<1>3. UNCHANGED <<named, active>>
  BY DEF CreateTold
<1>4. CASE Undo(Top.h) /\ answer' = 0
  <2>1. UNCHANGED <<wins, told>>
    BY <1>4 DEF Undo
  <2>2. CASE Live(Top.h)
    <3> DEFINE g == [at |-> "destroy", h |-> f.h]
    <3>1. stack' = Append(s, g) /\ wins[f.h].used
      BY <1>1, <1>4, <2>2 DEF Undo, Live
    <3>2. g \in Frame /\ g.at = "destroy"
      BY <1>2, FrameIs
    <3>3. Fits(wins, told, InUse, Append(s, g))
      BY <1>1, <1>2, <3>1, UndoFits
    <3> HIDE DEF g
    <3>4. Handlers(stack') <= MaxDepth
      BY <1>1, <3>1, <3>2, HandlersIs
    <3> QED BY <1>3, <1>4, <2>1, <3>1, <3>3, <3>4, GoesOn
  <2>3. CASE ~Live(Top.h)
    <3>1. stack' = s
      BY <1>1, <1>4, <2>3 DEF Undo
    <3> QED BY <1>1, <1>2, <1>3, <1>4, <2>1, <3>1, LeftGoesOn
  <2> QED BY <2>2, <2>3
<1>5. CASE stack' = Below /\ answer' = 0 /\ UNCHANGED <<wins, told>>
  BY <1>1, <1>2, <1>3, <1>5, LeftGoesOn
<1>6. CASE Send(Then("sized"), Top.h, "SIZE") /\ UNCHANGED wins
  <2>1. Send(Append(s, [f EXCEPT !.at = "sized"]), f.h, "SIZE")
    BY <1>1, <1>6 DEF Then
  <2> QED BY <1>1, <1>2, <1>3, <1>6, <2>1, NextGoesOn
<1> QED BY <1>4, <1>5, <1>6 DEF CreateTold

LEMMA PlacedKeeps == ASSUME WindowsInv, Placed PROVE WindowsInv'
<1>1. PICK s \in Seq(Frame), f \in Frame :
        /\ Below = s /\ Top = f
        /\ Handlers(s) <= MaxDepth /\ Fits(wins, told, InUse, Append(s, f))
  BY TopIs DEF Placed, At
<1>2. /\ f.at \in {"place", "sized"} /\ f.h \in Windows /\ f.at \notin Going
      /\ UNCHANGED <<wins, named, active>>
  BY <1>1, FrameIs DEF Placed, At, Going
<1>3. CASE Send(Then("sized"), Top.h, "SIZE")
  <2>1. Send(Append(s, [f EXCEPT !.at = "sized"]), f.h, "SIZE")
    BY <1>1, <1>3 DEF Then
  <2> QED BY <1>1, <1>2, <2>1, NextGoesOn
<1>4. CASE Send(Then("show"), Top.h, "MOVE")
  <2>1. Send(Append(s, [f EXCEPT !.at = "show"]), f.h, "MOVE")
    BY <1>1, <1>4 DEF Then
  <2> QED BY <1>1, <1>2, <2>1, NextGoesOn
<1>5. CASE Send(Below, Top.h, "MOVE")
  <2>1. Send(s, f.h, "MOVE")
    BY <1>1, <1>5
  <2>2. Fits(wins, Hears(wins, told, f.h, "MOVE"), InUse, s)
    <3>1. Fits(wins, told, InUse, s)
      BY <1>1, <1>2, PopFits
    <3> QED BY <3>1, HearsNothing
  <2> QED BY <1>1, <1>2, <2>1, <2>2, SendGoesOn
<1> QED BY <1>3, <1>4, <1>5 DEF Placed

LEMMA FlaggedIs ==
  ASSUME wins \in [Windows -> Window], NEW h \in Windows, NEW b \in BOOLEAN,
         wins' = [wins EXCEPT ![h].shown = b]
  PROVE  /\ wins' \in [Windows -> Window]
         /\ \A x \in Windows : /\ wins'[x].used = wins[x].used /\ wins'[x].parent = wins[x].parent
                               /\ wins'[x].sys = wins[x].sys
<1> DEFINE r == [wins[h] EXCEPT !.shown = b]
<1>1. r \in Window /\ r.used = wins[h].used /\ r.parent = wins[h].parent /\ r.sys = wins[h].sys
  BY DEF Window
<1>2. wins' = [wins EXCEPT ![h] = r]
  OBVIOUS
<1> HIDE DEF r
<1>3. wins'[h] = r /\ \A x \in Windows : x # h => wins'[x] = wins[x]
  BY <1>2
<1> QED BY <1>1, <1>2, <1>3

\* A window is shown or hidden, and told.
LEMMA FlagGoesOn ==
  ASSUME WindowsInv, UNCHANGED <<named, active>>, NEW h \in Windows, NEW b \in BOOLEAN,
         wins' = [wins EXCEPT ![h].shown = b],
         NEW s \in Seq(Frame), Send(s, h, "SHOWWINDOW"), Handlers(s) <= MaxDepth,
         Fits(wins, told, InUse, s)
  PROVE  WindowsInv'
<1>1. wins \in [Windows -> Window]
  BY DEF WindowsInv, Fits, Housed
<1>2. /\ wins' \in [Windows -> Window]
      /\ \A x \in Windows : /\ wins'[x].used = wins[x].used /\ wins'[x].parent = wins[x].parent
                            /\ wins'[x].sys = wins[x].sys
  BY <1>1, FlaggedIs
<1>3. PICK w, N : w = wins' /\ N = InUse
  OBVIOUS
<1>4. Fits(w, told, N, s)
  BY <1>2, <1>3, AlteredFits
<1>5. Fits(w, Hears(wins, told, h, "SHOWWINDOW"), N, s)
  BY <1>4, HearsNothing
<1>6. Fits(w, told', N, stack') /\ Handlers(stack') <= MaxDepth /\ answer' \in {-1, 0, 1}
  BY <1>5, SendFits
<1> QED BY <1>3, <1>6, GoesOn

LEMMA ShowKeeps == ASSUME WindowsInv, Show PROVE WindowsInv'
<1>1. PICK s \in Seq(Frame), f \in Frame :
        /\ Below = s /\ Top = f
        /\ Handlers(s) <= MaxDepth /\ Fits(wins, told, InUse, Append(s, f))
  BY TopIs DEF Show, At
<1>2. f.at = "show" /\ f.h \in Windows /\ f.at \notin Going /\ UNCHANGED <<named, active>>
  BY <1>1, FrameIs DEF Show, At, Going
<1>3. CASE stack' = Below /\ UNCHANGED <<wins, answer, told>>
  <2>1. answer' \in {-1, 0, 1}
    BY <1>3 DEF WindowsInv
  <2> QED BY <1>1, <1>2, <1>3, <2>1, LeftGoesOn
<1>4. CASE /\ Live(Top.h) /\ wins' = [wins EXCEPT ![Top.h].shown = TRUE]
           /\ Send(Then("shown"), Top.h, "SHOWWINDOW")
  <2> DEFINE g == [f EXCEPT !.at = "shown"]
             a == Append(s, g)
  <2>1. g \in Frame /\ g.at = "shown" /\ g.h = f.h
    <3>1. f.at \in Making \cup {"sized", "show", "shown", "place", "hide"}
      BY <1>2
    <3> QED BY <3>1, FrameThen
  <2> HIDE DEF g
  <2>2. FrameOK(wins, told, InUse, g)
    <3>1. wins[g.h].used
      BY <1>1, <1>4, <2>1 DEF Live
    <3> QED BY <2>1, <3>1 DEF FrameOK, Going
  <2>3. Fits(wins, told, InUse, a)
    <3>1. f.at \notin Going \cup {"guest", "nccreated"} /\ g.at \in {"sized", "show", "shown"}
      BY <1>2, <2>1
    <3> QED BY <1>1, <2>1, <2>2, <3>1, OnFits
  <2>4. a \in Seq(Frame) /\ Handlers(a) <= MaxDepth
    <3>1. g.at # "guest"
      BY <2>1
    <3>2. Handlers(a) = Handlers(s) + 0 /\ Handlers(s) \in Nat
      BY <2>1, <3>1, HandlersIs
    <3> QED BY <1>1, <2>1, <3>2, Pushed
  <2>5. Send(a, f.h, "SHOWWINDOW") /\ wins' = [wins EXCEPT ![f.h].shown = TRUE]
    BY <1>1, <1>4 DEF Then, g
  <2> HIDE DEF a
  <2> QED BY <1>2, <2>3, <2>4, <2>5, FlagGoesOn
<1> QED BY <1>3, <1>4 DEF Show

LEMMA HideKeeps == ASSUME WindowsInv, Hide PROVE WindowsInv'
<1>1. PICK s \in Seq(Frame), f \in Frame :
        /\ Below = s /\ Top = f
        /\ Handlers(s) <= MaxDepth /\ Fits(wins, told, InUse, Append(s, f))
  BY TopIs DEF Hide, At
<1>2. f.at = "hide" /\ f.h \in Windows /\ f.at \notin Going /\ UNCHANGED <<named, active>>
  BY <1>1, FrameIs DEF Hide, At, Going
<1>3. CASE stack' = Below /\ UNCHANGED <<wins, answer, told>>
  <2>1. answer' \in {-1, 0, 1}
    BY <1>3 DEF WindowsInv
  <2> QED BY <1>1, <1>2, <1>3, <2>1, LeftGoesOn
<1>4. CASE /\ wins' = [wins EXCEPT ![Top.h].shown = FALSE]
           /\ Send(Below, Top.h, "SHOWWINDOW")
  <2>1. Fits(wins, told, InUse, s)
    BY <1>1, <1>2, PopFits
  <2>2. Send(s, f.h, "SHOWWINDOW") /\ wins' = [wins EXCEPT ![f.h].shown = FALSE]
    BY <1>1, <1>4
  <2> QED BY <1>1, <1>2, <2>1, <2>2, FlagGoesOn
<1> QED BY <1>3, <1>4 DEF Hide

LEMMA ShownKeeps == ASSUME WindowsInv, Shown PROVE WindowsInv'
<1>1. PICK s \in Seq(Frame), f \in Frame :
        /\ Below = s /\ Top = f
        /\ Handlers(s) <= MaxDepth /\ Fits(wins, told, InUse, Append(s, f))
  BY TopIs DEF Shown, At
<1>2. /\ f.at = "shown" /\ f.h \in Windows /\ f.at \notin Going \cup {"guest"}
      /\ UNCHANGED <<wins, named, answer, told>> /\ stack' = s
  BY <1>1, FrameIs DEF Shown, At, Going
<1>3. Fits(wins, told, InUse, s)
  BY <1>1, <1>2, PopFits
<1>4. ~OnIt(s, {"nccreated"}, f.h)
  <2>1. \A n \in 1 .. Len(s) : PairOK(wins, s[n], f)
    BY <1>1, StackedUp DEF Fits
  <2> QED BY <1>2, <2>1 DEF PairOK, OnIt
<1>5. FrameOK(wins, told, InUse, f)
  BY <1>1, StackedUp DEF Fits
<1> DEFINE h == IF wins[f.h].parent = None THEN f.h ELSE None
<1>6. /\ h \in Windows \cup {None} /\ (h # None => wins[h].used /\ ~OnIt(s, {"nccreated"}, h))
  BY <1>2, <1>4, <1>5 DEF FrameOK
<1>7. active' = IF wins[f.h].parent = None THEN f.h ELSE active
  BY <1>1 DEF Shown
<1>8. InUse' \subseteq InUse \cup {h} /\ active' \in Windows \cup {None}
  BY <1>2, <1>7 DEF InUse, WindowsInv
<1>9. PICK M : M = InUse'
  OBVIOUS
<1> HIDE DEF h
<1>10. Fits(wins, told, M, s)
  BY <1>3, <1>6, <1>8, <1>9, NamesFit
<1> QED BY <1>1, <1>2, <1>8, <1>9, <1>10 DEF WindowsInv

-----------------------------------------------------------------------------
(* The guest's calls.                                                       *)

LEMMA FramesIs ==
  ASSUME WindowsInv, NEW A, NEW h
  PROVE  Frames(A, h) = {} <=> ~OnIt(stack, A, h)
<1>1. stack \in Seq(Frame)
  BY DEF WindowsInv, Fits, Stacked
<1>2. DOMAIN stack = 1 .. Len(stack)
  BY <1>1
<1> QED BY <1>2 DEF Frames, OnIt

LEMMA CreateWindowKeeps ==
  ASSUME WindowsInv, NEW p \in MayHouse, NEW sys \in BOOLEAN, NEW show \in BOOLEAN,
         CreateWindow(p, sys, show)
  PROVE  WindowsInv'
<1>1. /\ Fits(wins, told, InUse, stack) /\ stack \in Seq(Frame) /\ Handlers(stack) <= MaxDepth
      /\ UNCHANGED <<named, active>> /\ None \notin Windows
  BY DEF WindowsInv, Fits, Stacked, CreateWindow, None, Windows
<1> DEFINE sl == Slot
<1>2. sl \in Windows /\ ~wins[sl].used
  <2> DEFINE S == {h \in Windows : ~wins[h].used}
  <2>1. S \in SUBSET Nat /\ S # {}
    BY DEF Windows, CreateWindow
  <2>2. Min(S) \in S
    BY <2>1, LeastIsThere
  <2> QED BY <2>2 DEF Slot
<1>3. \A n \in 1 .. Len(stack) : stack[n].at # "guest" => stack[n].h # sl
  <2>1. DOMAIN stack = 1 .. Len(stack)
    BY <1>1
  <2> QED BY <2>1 DEF CreateWindow, HostNames
<1>4. /\ p \in Windows \cup {None}
      /\ p # None => wins[p].used /\ ~OnIt(stack, Going, p) /\ ~OnIt(stack, {"nccreated"}, p)
  BY FramesIs DEF MayHouse, Known, Live, BeingDestroyed, Going
<1> DEFINE g == [at |-> "nccreated", h |-> sl, show |-> show]
           e == [at |-> "guest", h |-> sl]
           v == [wins EXCEPT ![sl] = [used |-> TRUE, parent |-> p, sys |-> sys, shown |-> FALSE]]
           u == [told EXCEPT ![sl] = IF sys THEN << >> ELSE << "NCCREATE" >>]
<1>5. wins' = v
  BY DEF CreateWindow
<1>6. g \in Frame /\ g.at # "guest" /\ e \in Frame /\ e.at = "guest"
  BY <1>2, FrameIs DEF Frame, Making
<1> HIDE DEF sl
<1>7. Fits(v, u, InUse, Append(stack, g))
  BY <1>1, <1>2, <1>3, <1>4, CreateFits
<1>8. /\ Append(stack, g) \in Seq(Frame) /\ Handlers(Append(stack, g)) = Handlers(stack)
      /\ Handlers(stack) \in Nat /\ MaxDepth \in Nat
  BY <1>1, <1>6, HandlersIs, Pushed, WindowConstants
<1>9. CASE /\ sys /\ stack' = Append(stack, g) /\ answer' = 1
           /\ told' = [told EXCEPT ![sl] = << >>]
  <2>1. told' = u
    BY <1>9
  <2>2. Fits(wins', told', InUse, stack')
    BY <1>5, <1>7, <1>9, <2>1
  <2> HIDE DEF g
  <2> QED BY <1>1, <1>8, <1>9, <2>2, GoesOn
<1>10. CASE /\ ~sys /\ Handlers(stack) < MaxDepth
            /\ stack' = stack \o << g, e >>
            /\ told' = [told EXCEPT ![sl] = << "NCCREATE" >>]
            /\ answer' = 0
  <2>1. told' = u
    BY <1>10
  <2> HIDE DEF u, v
  <2>2. Fits(v, u, InUse, Append(Append(stack, g), e))
    BY <1>2, <1>7, <1>8, GuestFits
  <2> HIDE DEF g, e
  <2>3. stack' = Append(Append(stack, g), e)
    BY <1>1, <1>6, <1>10
  <2>4. Fits(wins', told', InUse, stack')
    BY <1>5, <2>1, <2>2, <2>3
  <2>5. Handlers(stack') = Handlers(Append(stack, g)) + 1
    BY <1>6, <1>8, <2>3, HandlersIs
  <2>6. Handlers(stack') <= MaxDepth
    BY <1>8, <1>10, <2>5
  <2> QED BY <1>1, <1>10, <2>4, <2>6, GoesOn
<1>11. \/ /\ sys /\ stack' = Append(stack, g) /\ answer' = 1
          /\ told' = [told EXCEPT ![sl] = << >>]
       \/ /\ ~sys /\ Handlers(stack) < MaxDepth
          /\ stack' = stack \o << g, e >>
          /\ told' = [told EXCEPT ![sl] = << "NCCREATE" >>]
          /\ answer' = 0
  BY DEF CreateWindow, sl
<1> QED BY <1>9, <1>10, <1>11

LEMMA DestroyWindowKeeps ==
  ASSUME WindowsInv, NEW h \in Windows, DestroyWindow(h) PROVE WindowsInv'
<1>1. /\ Fits(wins, told, InUse, stack) /\ stack \in Seq(Frame) /\ Handlers(stack) <= MaxDepth
      /\ wins \in [Windows -> Window]
      /\ UNCHANGED <<wins, named, active, answer, told>>
      /\ answer' \in {-1, 0, 1} /\ stack' = Append(stack, [at |-> "destroy", h |-> h])
  BY DEF WindowsInv, Fits, Stacked, Housed, DestroyWindow, Call
<1>2. wins[h].used /\ ~OnIt(stack, {"shown"}, h)
  BY FramesIs DEF DestroyWindow, MayDestroy, Known, Live
<1>3. ASSUME NEW n \in 1 .. Len(stack), stack[n].at \in Going
      PROVE  h \notin Way(wins, stack[n].h)
  <2>1. stack[n].h \in Windows
    BY <1>1, FrameIs
  <2>2. OnIt(stack, {"destroy", "kids", "freeing"}, stack[n].h)
    BY <1>3 DEF OnIt, Going
  <2>3. BeingDestroyed(stack[n].h)
    BY <2>2, FramesIs DEF BeingDestroyed
  <2>4. h \notin Around(stack[n].h)
    BY <2>1, <2>3 DEF DestroyWindow, MayDestroy
  <2> QED BY <2>4 DEF Around, Way, ClosedUp
<1> DEFINE g == [at |-> "destroy", h |-> h]
<1>4. Fits(wins, told, InUse, Append(stack, g))
  BY <1>1, <1>2, <1>3, AskFits
<1>5. g \in Frame /\ g.at # "guest"
  BY FrameIs
<1> HIDE DEF g
<1>6. Handlers(Append(stack, g)) <= MaxDepth
  BY <1>1, <1>5, HandlersIs
<1> QED BY <1>1, <1>4, <1>6, GoesOn DEF g

LEMMA ShowWindowKeeps ==
  ASSUME WindowsInv, NEW h \in Windows, NEW f \in {"show", "hide", "place"}, ShowWindow(h, f)
  PROVE  WindowsInv'
<1> DEFINE g == [at |-> f, h |-> h, show |-> FALSE]
<1>1. /\ Fits(wins, told, InUse, stack) /\ stack \in Seq(Frame) /\ Handlers(stack) <= MaxDepth
      /\ UNCHANGED <<wins, named, active, answer, told>>
      /\ answer' \in {-1, 0, 1} /\ stack' = Append(stack, g)
  BY DEF WindowsInv, Fits, Stacked, ShowWindow, Call
<1>2. ~OnIt(stack, {"nccreated"}, h)
  BY FramesIs DEF ShowWindow, Known
<1>3. g \in Frame /\ g.at = f /\ g.h = h
  BY DEF Frame
<1> HIDE DEF g
<1>4. g.at \notin Going \cup Making /\ FrameOK(wins, told, InUse, g) /\ g.at # "guest"
  BY <1>3 DEF Going, Making, FrameOK
<1>5. \A n \in 1 .. Len(stack) : stack[n].at = "nccreated" => stack[n].h # g.h
  BY <1>2, <1>3 DEF OnIt
<1>6. Fits(wins, told, InUse, Append(stack, g))
  BY <1>1, <1>3, <1>4, <1>5, PushFits
<1>7. Handlers(Append(stack, g)) <= MaxDepth
  BY <1>1, <1>3, <1>4, HandlersIs
<1> QED BY <1>1, <1>6, <1>7, GoesOn

LEMMA SendMessageKeeps ==
  ASSUME WindowsInv, NEW h \in Windows, SendMessage(h) PROVE WindowsInv'
<1>1. /\ Fits(wins, told, InUse, stack) /\ stack \in Seq(Frame) /\ Handlers(stack) <= MaxDepth
      /\ UNCHANGED <<wins, named, active>> /\ Send(stack, h, "USER")
  BY DEF WindowsInv, Fits, Stacked, SendMessage
<1>2. PICK s : s = stack
  OBVIOUS
<1>3. Send(s, h, "USER")
  BY <1>1, <1>2
<1>4. Fits(wins, Hears(wins, told, h, "USER"), InUse, s)
  BY <1>1, <1>2, HearsNothing
<1> QED BY <1>1, <1>2, <1>3, <1>4, SendGoesOn

LEMMA SetNamesKeeps ==
  ASSUME WindowsInv, NEW h \in Windows \cup {None}, SetNames(h) PROVE WindowsInv'
<1>1. /\ Fits(wins, told, InUse, stack) /\ stack \in Seq(Frame) /\ None \notin Windows
      /\ UNCHANGED <<wins, active, stack, answer, told>>
      /\ named \in [Names -> Windows \cup {None}] /\ active \in Windows \cup {None}
  BY DEF WindowsInv, Fits, Stacked, SetNames, None, Windows
<1>2. h # None => wins[h].used /\ ~OnIt(stack, {"nccreated"}, h)
  BY FramesIs DEF SetNames, Known, Live
<1>3. PICK n \in Names : named' = [named EXCEPT ![n] = h]
  BY DEF SetNames
<1>4. InUse' \subseteq InUse \cup {h} /\ named' \in [Names -> Windows \cup {None}]
  BY <1>1, <1>3 DEF InUse, Range
<1>5. PICK M : M = InUse'
  OBVIOUS
<1>6. Fits(wins, told, M, stack)
  BY <1>1, <1>2, <1>4, <1>5, NamesFit
<1>7. Handlers(stack) <= MaxDepth /\ answer \in {-1, 0, 1}
  BY DEF WindowsInv
<1> QED BY <1>1, <1>4, <1>5, <1>6, <1>7 DEF WindowsInv

LEMMA SubclassKeeps == ASSUME WindowsInv, NEW h \in Windows, Subclass(h) PROVE WindowsInv'
<1>1. /\ Fits(wins, told, InUse, stack) /\ stack \in Seq(Frame) /\ Handlers(stack) <= MaxDepth
      /\ wins \in [Windows -> Window] /\ answer \in {-1, 0, 1}
      /\ UNCHANGED <<named, active, stack, answer, told>>
      /\ wins' = [wins EXCEPT ![h].sys = ~@] /\ ~Contains(told[h], "NCCREATE")
  BY DEF WindowsInv, Fits, Stacked, Housed, Subclass
<1>2. ~OnIt(stack, {"nccreated"}, h)
  BY FramesIs DEF Subclass, Known
<1>3. /\ wins' \in [Windows -> Window]
      /\ \A x \in Windows : /\ wins'[x].used = wins[x].used /\ wins'[x].parent = wins[x].parent
                            /\ x # h => wins'[x].sys = wins[x].sys
  <2> DEFINE r == [wins[h] EXCEPT !.sys = ~wins[h].sys]
  <2>1. r \in Window /\ r.used = wins[h].used /\ r.parent = wins[h].parent
    BY <1>1 DEF Window
  <2>2. wins' = [wins EXCEPT ![h] = r]
    BY <1>1
  <2> HIDE DEF r
  <2>3. wins'[h] = r /\ \A x \in Windows : x # h => wins'[x] = wins[x]
    BY <1>1, <2>2
  <2> QED BY <1>1, <2>1, <2>2, <2>3
<1>4. PICK v : v = wins'
  OBVIOUS
<1>5. Fits(v, told, InUse, stack)
  <2>1. \A x \in Windows :
          /\ v[x].used = wins[x].used /\ v[x].parent = wins[x].parent
          /\ v[x].sys = wins[x].sys \/ (~Contains(told[x], "NCCREATE")
                                        /\ ~OnIt(stack, {"nccreated"}, x))
    <3> TAKE x \in Windows
    <3>1. v[x].used = wins[x].used /\ v[x].parent = wins[x].parent
      BY <1>3, <1>4
    <3>2. CASE x = h
      BY <1>1, <1>2, <3>1, <3>2
    <3>3. CASE x # h
      BY <1>3, <1>4, <3>1, <3>3
    <3> QED BY <3>2, <3>3
  <2>2. v \in [Windows -> Window]
    BY <1>3, <1>4
  <2> QED BY <1>1, <2>1, <2>2, AlteredFits
<1> QED BY <1>1, <1>4, <1>5, GoesOn

LEMMA HandlerAnswersKeeps ==
  ASSUME WindowsInv, NEW r \in {-1, 0, 1}, HandlerAnswers(r) PROVE WindowsInv'
<1>1. PICK s \in Seq(Frame), f \in Frame :
        /\ Below = s /\ Top = f
        /\ Handlers(s) <= MaxDepth /\ Fits(wins, told, InUse, Append(s, f))
  BY TopIs DEF HandlerAnswers, At
<1>2. /\ f.at \notin Going /\ stack' = s /\ UNCHANGED <<wins, named, active, told>>
      /\ answer' \in {-1, 0, 1}
  BY <1>1 DEF HandlerAnswers, At, Going, Heard
<1> QED BY <1>1, <1>2, LeftGoesOn

LEMMA FreshFits ==
  ASSUME NEW N, N \subseteq {None}
  PROVE  Fits([h \in Windows |-> Free], [h \in Windows |-> << >>], N, << >>)
<1> DEFINE w == [h \in Windows |-> Free]
           t == [h \in Windows |-> << >>]
<1>1. w \in [Windows -> Window] /\ \A h \in Windows : ~w[h].used
  BY DEF Free, Window
<1>2. /\ t \in [Windows -> Seq(ToSet(Life))] /\ \A h \in Windows : t[h] = << >>
      /\ InOrder(<< >>) /\ \A x : ~Contains(<< >>, x)
  BY DEF InOrder, Contains
<1> HIDE DEF w, t
<1>3. Housed(w)
  BY <1>1 DEF Housed
<1>4. Tells(w, t)
  BY <1>2 DEF Tells
<1>5. /\ Stacked(w, t, N, << >>) /\ KidsDue(w, << >>) /\ EndsDue(t, << >>)
  BY <1>2 DEF Stacked, KidsDue, EndsDue
<1>6. NamesOK(w, N)
  BY DEF NamesOK
<1> QED BY <1>3, <1>4, <1>5, <1>6 DEF Fits, w, t

LEMMA WindowsBegin == Init => WindowsInv
<1> SUFFICES ASSUME Init PROVE WindowsInv
  OBVIOUS
<1>1. InUse \subseteq {None}
  BY DEF Init, InUse, Range
<1>2. Handlers(stack) <= MaxDepth
  BY HandlersIs, WindowConstants DEF Init
<1> QED BY <1>1, <1>2, FreshFits DEF Init, WindowsInv

LEMMA GivenUpKeeps == ASSUME GivenUp PROVE WindowsInv'
<1>1. InUse' \subseteq {None}
  BY DEF GivenUp, InUse, Range
<1>2. Handlers(stack') <= MaxDepth
  BY HandlersIs, WindowConstants DEF GivenUp
<1>3. PICK M : M = InUse'
  OBVIOUS
<1>4. Fits([h \in Windows |-> Free], [h \in Windows |-> << >>], M, << >>)
  BY <1>1, <1>3, FreshFits
<1> QED BY <1>2, <1>3, <1>4 DEF GivenUp, WindowsInv

LEMMA WindowsKept == WindowsInv /\ [Next]_vars => WindowsInv'
<1> SUFFICES ASSUME WindowsInv, [Next]_vars PROVE WindowsInv'
  OBVIOUS
<1>1. CASE HostStep
  BY <1>1, DestroyBeginsKeeps, DestroyKidsKeeps, DestroyEndsKeeps, CreateAskedKeeps,
     CreateToldKeeps, PlacedKeeps, ShowKeeps, ShownKeeps, HideKeeps DEF HostStep
<1>2. CASE WindowCall
  <2>1. CASE \E p \in MayHouse, sys, show \in BOOLEAN : CreateWindow(p, sys, show)
    BY <2>1, CreateWindowKeeps
  <2>2. CASE \E h \in Windows : DestroyWindow(h) \/ SendMessage(h) \/ Subclass(h)
    BY <2>2, DestroyWindowKeeps, SendMessageKeeps, SubclassKeeps
  <2>3. CASE \E h \in Windows : \E f \in {"show", "hide", "place"} : ShowWindow(h, f)
    BY <2>3, ShowWindowKeeps
  <2>4. CASE \E h \in Windows \cup {None} : SetNames(h)
    BY <2>4, SetNamesKeeps
  <2>5. CASE \E r \in {-1, 0, 1} : HandlerAnswers(r)
    BY <2>5, HandlerAnswersKeeps
  <2>6. CASE GivenUp
    BY <2>6, GivenUpKeeps
  <2> QED BY <1>2, <2>1, <2>2, <2>3, <2>4, <2>5, <2>6 DEF WindowCall
<1>3. CASE UNCHANGED vars
  BY <1>3 DEF vars, WindowsInv, InUse
<1> QED BY <1>1, <1>2, <1>3 DEF Next

-----------------------------------------------------------------------------
(* The walk along the children.                                             *)

\* How many of C are before x; the i-th of C, or none.
RankIn(C, x) == Cardinality({y \in C : y < x})
IthOf(C, i) == Lowest({x \in C : RankIn(C, x) = i - 1})

LEMMA WindowsAre ==
  /\ MAX_WINS \in Nat /\ 1 \in Windows /\ None \notin Windows
  /\ \A x \in Windows : /\ x \in Nat /\ x \in Int /\ 1 <= x /\ x <= MAX_WINS
                        /\ (x # 1 => x - 1 \in Windows /\ x - 1 # 0)
BY WindowConstants DEF Windows, None

LEMMA LowestIs ==
  ASSUME NEW S \in SUBSET Windows
  PROVE  /\ S = {} => Lowest(S) = None
         /\ S # {} => Lowest(S) \in S /\ Lowest(S) # None /\ \A y \in S : Lowest(S) <= y
<1>1. S \in SUBSET Nat /\ None \notin Windows
  BY DEF Windows, None
<1> QED BY <1>1, LeastIsThere DEF Lowest

LEMMA RanksIn ==
  ASSUME NEW C \in SUBSET Windows
  PROVE  /\ IsFiniteSet(C)
         /\ \A x \in C : RankIn(C, x) \in Nat /\ RankIn(C, x) + 1 <= MAX_WINS
         /\ \A x, y \in C : x < y =>
               /\ RankIn(C, x) + 1 <= RankIn(C, y)
               /\ (\A z \in C : ~(x < z /\ z < y)) => RankIn(C, y) = RankIn(C, x) + 1
<1>1. MAX_WINS \in Nat /\ IsFiniteSet(Windows) /\ Cardinality(Windows) = MAX_WINS
  BY WindowConstants, FS_Interval DEF Windows
<1>2. \A S \in SUBSET Windows : /\ IsFiniteSet(S) /\ Cardinality(S) \in Nat
                                /\ Cardinality(S) <= MAX_WINS
  BY <1>1, FS_Subset, FS_CardinalityType
<1>3. \A S, T \in SUBSET Windows : S \subseteq T => Cardinality(S) <= Cardinality(T)
  BY <1>2, FS_Subset
<1> DEFINE B(x) == {y \in C : y < x}
<1>4. ASSUME NEW x \in C
      PROVE  B(x) \cup {x} \in SUBSET Windows /\ Cardinality(B(x) \cup {x}) = RankIn(C, x) + 1
  <2>1. x \notin B(x) /\ B(x) \in SUBSET Windows /\ x \in Int
    BY WindowsAre
  <2>2. IsFiniteSet(B(x))
    BY <1>2, <2>1
  <2>3. Cardinality(B(x) \cup {x}) = Cardinality(B(x)) + 1
    BY <2>1, <2>2, FS_AddElement
  <2> QED BY <2>1, <2>3 DEF RankIn
<1>5. \A x \in C : RankIn(C, x) \in Nat
  BY <1>2 DEF RankIn
<1>6. ASSUME NEW x \in C, NEW y \in C, x < y
      PROVE  /\ RankIn(C, x) + 1 <= RankIn(C, y)
             /\ (\A z \in C : ~(x < z /\ z < y)) => RankIn(C, y) = RankIn(C, x) + 1
  <2>1. \A z \in C : z \in Int
    BY DEF Windows
  <2>2. B(x) \cup {x} \subseteq B(y) /\ B(y) \in SUBSET Windows
    BY <1>6, <2>1
  <2>3. (\A z \in C : ~(x < z /\ z < y)) => B(y) = B(x) \cup {x}
    BY <1>6, <2>1, <2>2
  <2> HIDE DEF B
  <2>4. Cardinality(B(x) \cup {x}) <= Cardinality(B(y))
    BY <1>3, <1>4, <2>2
  <2>5. RankIn(C, y) = Cardinality(B(y))
    BY DEF B, RankIn
  <2> QED BY <1>4, <2>3, <2>4, <2>5
<1> HIDE DEF B
<1>7. \A x \in C : RankIn(C, x) + 1 <= MAX_WINS
  BY <1>2, <1>4
<1> QED BY <1>2, <1>5, <1>6, <1>7

LEMMA IthIs ==
  ASSUME NEW C \in SUBSET Windows, NEW i \in Windows
  PROVE  /\ \A x \in C : RankIn(C, x) = i - 1 => IthOf(C, i) = x
         /\ IthOf(C, i) # None => IthOf(C, i) \in C /\ RankIn(C, IthOf(C, i)) = i - 1
         /\ (\A x \in C : RankIn(C, x) # i - 1) => IthOf(C, i) = None
<1> DEFINE S == {x \in C : RankIn(C, x) = i - 1}
<1>1. S \in SUBSET Windows
  OBVIOUS
<1>2. /\ S = {} => IthOf(C, i) = None
      /\ S # {} => IthOf(C, i) \in S /\ IthOf(C, i) # None
  BY <1>1, LowestIs DEF IthOf
<1>3. ASSUME NEW x \in S, NEW y \in S PROVE x = y
  <2>1. /\ x \in C /\ y \in C /\ RankIn(C, x) = i - 1 /\ RankIn(C, y) = i - 1
        /\ x \in Int /\ y \in Int /\ i \in Int
    BY WindowsAre
  <2>2. \A a, b \in C : a < b => RankIn(C, a) + 1 <= RankIn(C, b)
    BY RanksIn
  <2>3. ~(i - 1 + 1 <= i - 1)
    BY <2>1
  <2>4. ~(x < y) /\ ~(y < x)
    BY <2>1, <2>2, <2>3
  <2> QED BY <2>1, <2>4
<1> QED BY <1>2, <1>3

LEMMA IthFirst ==
  ASSUME NEW C \in SUBSET Windows
  PROVE  1 \in Windows /\ IthOf(C, 1) = Lowest(C)
<1>1. 1 \in Windows
  BY WindowConstants DEF Windows
<1>2. CASE C = {}
  BY <1>1, <1>2, IthIs, LowestIs
<1>3. CASE C # {}
  <2>1. PICK m \in C : m = Lowest(C) /\ \A y \in C : m <= y
    BY <1>3, LowestIs
  <2>2. {y \in C : y < m} = {}
    BY <2>1, WindowsAre
  <2>3. RankIn(C, m) = 1 - 1
    BY <2>2, FS_EmptySet DEF RankIn
  <2> QED BY <1>1, <2>1, <2>3, IthIs
<1> QED BY <1>1, <1>2, <1>3

LEMMA IthNext ==
  ASSUME NEW C \in SUBSET Windows, NEW i \in Windows, i # 1
  PROVE  /\ i - 1 \in Windows
         /\ IthOf(C, i - 1) = None => IthOf(C, i) = None
         /\ IthOf(C, i - 1) # None => IthOf(C, i) = Lowest({k \in C : k > IthOf(C, i - 1)})
<1>1. /\ i - 1 \in Windows /\ MAX_WINS \in Nat /\ i \in Int /\ i - 1 # 0
      /\ \A x \in C : x \in Int /\ x <= MAX_WINS
  BY WindowsAre
<1>2. \A x \in C : RankIn(C, x) \in Nat
  BY RanksIn
<1>3. CASE IthOf(C, i - 1) = None
  <2> SUFFICES ASSUME NEW z \in C, RankIn(C, z) = i - 1 PROVE FALSE
    BY <1>1, <1>3, IthIs
  <2> DEFINE B == {y \in C : y < z}
             D == {MAX_WINS - y : y \in B}
  <2>1. B # {}
    <3>1. RankIn(C, z) # 0
      BY <1>1
    <3> QED BY <3>1, FS_EmptySet DEF RankIn
  <2>2. D \in SUBSET Nat /\ D # {}
    <3>1. \A y \in B : MAX_WINS - y \in Nat
      BY <1>1
    <3> QED BY <2>1, <3>1
  <2>3. PICK d \in D : \A e \in D : d <= e
    BY <2>2, LeastIsThere
  <2>4. PICK x \in B : d = MAX_WINS - x
    BY <2>3
  <2>5. \A y \in B : y <= x
    BY <1>1, <2>3, <2>4
  <2>6. x < z /\ x \in C /\ \A y \in C : ~(x < y /\ y < z)
    BY <1>1, <2>4, <2>5
  <2>7. RankIn(C, z) = RankIn(C, x) + 1
    BY <2>6, RanksIn
  <2>8. RankIn(C, x) = (i - 1) - 1
    BY <1>1, <1>2, <2>6, <2>7
  <2>9. IthOf(C, i - 1) = x
    BY <1>1, <2>6, <2>8, IthIs
  <2> QED BY <1>3, <2>6, <2>9, WindowsAre
<1>4. CASE IthOf(C, i - 1) # None
  <2>1. PICK x \in C : x = IthOf(C, i - 1) /\ RankIn(C, x) = (i - 1) - 1
    BY <1>1, <1>4, IthIs
  <2> DEFINE S == {k \in C : k > x}
  <2>2. S \in SUBSET Windows
    OBVIOUS
  <2>3. CASE S = {}
    <3>1. ASSUME NEW z \in C PROVE RankIn(C, z) # i - 1
      <4>1. z = x \/ z < x
        BY <1>1, <2>3
      <4>2. RankIn(C, z) <= RankIn(C, x)
        BY <1>2, <4>1, RanksIn
      <4> QED BY <1>1, <1>2, <2>1, <4>2
    <3>2. IthOf(C, i) = None
      BY <3>1, IthIs
    <3>3. Lowest(S) = None
      BY <2>2, <2>3, LowestIs
    <3>4. IthOf(C, i) = Lowest(S)
      BY <3>2, <3>3
    <3> HIDE DEF IthOf
    <3>5. Lowest({k \in C : k > IthOf(C, i - 1)}) = Lowest(S)
      BY <2>1
    <3> QED BY <1>1, <1>4, <3>4, <3>5
  <2>4. CASE S # {}
    <3>1. PICK m \in S : m = Lowest(S) /\ \A y \in S : m <= y
      BY <2>2, <2>4, LowestIs
    <3>2. m \in C /\ x < m /\ \A y \in C : ~(x < y /\ y < m)
      BY <1>1, <3>1
    <3>3. RankIn(C, m) = RankIn(C, x) + 1
      BY <3>2, RanksIn
    <3>4. RankIn(C, m) = i - 1
      BY <1>1, <2>1, <3>3
    <3>5. IthOf(C, i) = m
      BY <3>2, <3>4, IthIs
    <3>6. Lowest({k \in C : k > IthOf(C, i - 1)}) = Lowest(S)
      BY <2>1
    <3> QED BY <1>1, <1>4, <3>1, <3>5, <3>6
  <2> QED BY <2>3, <2>4
<1> QED BY <1>1, <1>3, <1>4

LEMMA NthIsIth ==
  ASSUME wins \in [Windows -> Window], NEW h \in Windows, NEW n \in Windows
  PROVE  NthChild(h, n) = IthOf(Children(h), n)
<1> DEFINE C == Children(h)
           Def(g) == [i \in 1 .. MAX_WINS |->
                        IF i = 1 THEN FirstChild(h)
                        ELSE IF g[i - 1] = None THEN None ELSE NextWindow(g[i - 1])]
           along == CHOOSE g : g = Def(g)
           w == [i \in 1 .. MAX_WINS |-> IthOf(C, i)]
<1>1. C \in SUBSET Windows /\ \A x \in C : wins[x].parent = h
  BY DEF Children
<1>2. \A i \in Windows : i \in Nat /\ i \in Int /\ (i # 1 => i - 1 \in Windows)
  BY WindowsAre
<1> HIDE DEF C
<1>3. ASSUME NEW i \in Windows
      PROVE  w[i] = IF i = 1 THEN FirstChild(h)
                    ELSE IF w[i - 1] = None THEN None ELSE NextWindow(w[i - 1])
  <2>1. w[i] = IthOf(C, i) /\ (i # 1 => w[i - 1] = IthOf(C, i - 1))
    BY <1>2 DEF Windows
  <2> HIDE DEF w
  <2>2. CASE i = 1
    BY <1>1, <2>1, <2>2, IthFirst DEF FirstChild, C
  <2>3. CASE i # 1 /\ w[i - 1] = None
    BY <1>1, <2>1, <2>3, IthNext
  <2>4. CASE i # 1 /\ w[i - 1] # None
    <3>1. w[i - 1] \in C
      <4>1. i - 1 \in Windows /\ w[i - 1] = IthOf(C, i - 1)
        BY <1>2, <2>1, <2>4
      <4> QED BY <1>1, <2>4, <4>1, IthIs
    <3>2. NextWindow(w[i - 1]) = Lowest({k \in C : k > w[i - 1]})
      BY <1>1, <3>1 DEF NextWindow, C
    <3> QED BY <1>1, <2>1, <2>4, <3>2, IthNext
  <2> QED BY <2>2, <2>3, <2>4
<1>4. w = Def(w)
  <2>1. \A i \in 1 .. MAX_WINS : w[i] = Def(w)[i]
    <3> HIDE DEF w
    <3> QED BY <1>3 DEF Windows
  <2> QED BY <2>1
<1>5. along = Def(along)
  <2> HIDE DEF Def, w
  <2> QED BY <1>4
<1>6. NthChild(h, n) = along[n]
  BY DEF NthChild
<1>7. \A i \in Windows : along[i] = IF i = 1 THEN FirstChild(h)
                                 ELSE IF along[i - 1] = None THEN None ELSE NextWindow(along[i - 1])
  <2> HIDE DEF along
  <2> QED BY <1>5 DEF Windows
<1> HIDE DEF along
<1>8. \A i \in Windows : along[i] = w[i]
  <2> SUFFICES ASSUME {i \in Windows : along[i] # w[i]} # {} PROVE FALSE
    OBVIOUS
  <2> DEFINE B == {i \in Windows : along[i] # w[i]}
  <2>1. B \in SUBSET Nat /\ B # {}
    BY <1>2
  <2>2. PICK x \in B : \A y \in B : x <= y
    BY <2>1, LeastIsThere
  <2>3. x \in Windows /\ along[x] # w[x] /\ x \in Int
    BY <1>2
  <2>4. x # 1 => x - 1 \in Windows /\ along[x - 1] = w[x - 1]
    <3>1. x # 1 => x - 1 \in Windows /\ ~(x <= x - 1)
      BY <1>2, <2>3
    <3>2. x # 1 => x - 1 \notin B
      BY <2>2, <3>1
    <3> QED BY <3>1, <3>2
  <2> HIDE DEF w
  <2> QED BY <1>3, <1>7, <2>3, <2>4
<1> QED BY <1>6, <1>8 DEF Windows, C

LEMMA WalkMeetsAll ==
  ASSUME wins \in [Windows -> Window], NEW h \in Windows, NEW met,
         met = [n \in 1 .. MAX_WINS |-> NthChild(h, n)]
  PROVE  /\ Range(met) \ {None} = Children(h)
         /\ Cardinality({n \in DOMAIN met : met[n] # None}) = Cardinality(Children(h))
<1> DEFINE C == Children(h)
           D == {n \in Windows : IthOf(C, n) # None}
<1>1. C \in SUBSET Windows /\ IsFiniteSet(C)
  <2>1. C \in SUBSET Windows
    BY DEF Children
  <2> HIDE DEF C
  <2> QED BY <2>1, RanksIn
<1>2. DOMAIN met = Windows /\ \A n \in Windows : met[n] = IthOf(C, n)
  BY NthIsIth DEF Windows
<1> HIDE DEF C
<1>3. ASSUME NEW x \in C
      PROVE  RankIn(C, x) + 1 \in Windows /\ IthOf(C, RankIn(C, x) + 1) = x /\ x # None
  <2>1. RankIn(C, x) \in Nat /\ RankIn(C, x) + 1 <= MAX_WINS
    BY <1>1, RanksIn
  <2>2. RankIn(C, x) + 1 \in Windows /\ RankIn(C, x) = (RankIn(C, x) + 1) - 1
    BY <2>1, WindowsAre DEF Windows
  <2>3. x # None
    BY <1>1, WindowsAre
  <2>4. PICK i \in Windows : i = RankIn(C, x) + 1 /\ RankIn(C, x) = i - 1
    BY <2>2
  <2>5. \A y \in C : RankIn(C, y) = i - 1 => IthOf(C, i) = y
    BY <1>1, IthIs
  <2>6. IthOf(C, i) = x
    BY <2>4, <2>5
  <2> QED BY <2>2, <2>3, <2>4, <2>6
<1>4. ASSUME NEW n \in D
      PROVE  IthOf(C, n) \in C /\ RankIn(C, IthOf(C, n)) + 1 = n
  <2>1. IthOf(C, n) \in C /\ RankIn(C, IthOf(C, n)) = n - 1
    BY <1>1, IthIs
  <2>2. n \in Int
    BY WindowsAre
  <2> QED BY <2>1, <2>2
<1>5. Range(met) \ {None} = C
  <2>1. ASSUME NEW x \in C PROVE x \in Range(met) \ {None}
    <3>1. PICK i \in Windows : i = RankIn(C, x) + 1 /\ IthOf(C, i) = x
      BY <1>3
    <3>2. i \in DOMAIN met /\ met[i] = x /\ x # None
      BY <1>2, <1>3, <3>1
    <3> QED BY <3>2 DEF Range
  <2>2. ASSUME NEW x \in Range(met) \ {None} PROVE x \in C
    <3>1. PICK n \in Windows : x = IthOf(C, n)
      BY <1>2 DEF Range
    <3>2. n \in D
      BY <2>2, <3>1
    <3> QED BY <1>4, <3>1, <3>2
  <2> QED BY <2>1, <2>2
<1>6. {n \in DOMAIN met : met[n] # None} = D
  BY <1>2
<1> DEFINE f == [x \in C |-> RankIn(C, x) + 1]
<1>7. \A x \in C : f[x] \in D /\ IthOf(C, f[x]) = x
  BY <1>3
<1>8. \A n \in D : IthOf(C, n) \in C /\ f[IthOf(C, n)] = n
  BY <1>4
<1>9. f \in [C -> D] /\ DOMAIN f = C
  BY <1>7
<1> HIDE DEF f, D
<1>10. f \in Bijection(C, D)
  BY <1>7, <1>8, <1>9 DEF Bijection, Injection, Surjection, IsInjective
<1>11. ExistsBijection(C, D)
  BY <1>10 DEF ExistsBijection
<1>12. Cardinality(D) = Cardinality(C)
  BY <1>1, <1>11, FS_Bijection
<1> QED BY <1>5, <1>6, <1>12 DEF C

-----------------------------------------------------------------------------
(* What the invariant says of the windows.                                  *)

LEMMA InvIsTyped == WindowsInv => TypeOK
<1> SUFFICES ASSUME WindowsInv PROVE TypeOK
  OBVIOUS
<1>1. wins \in [Windows -> Window] /\ told \in [Windows -> Seq(ToSet(Life))]
  BY DEF WindowsInv, Fits, Housed, Tells
<1>2. Range(named) \cup {active} \subseteq Windows \cup {None}
  BY DEF WindowsInv, Range
<1> QED BY <1>1, <1>2 DEF TypeOK, WindowsInv, Window

LEMMA InvIsNamed == WindowsInv => NamedAreLive
BY DEF WindowsInv, Fits, NamesOK, NamedAreLive, InUse, Live

LEMMA InvIsHoused == WindowsInv => NoOrphans
<1> SUFFICES ASSUME WindowsInv, NEW h \in Windows, Live(h)
             PROVE  /\ wins[h].parent = None \/ Live(wins[h].parent)
                    /\ \E k \in Around(h) : wins[k].parent = None
                    /\ LET met == [n \in 1 .. MAX_WINS |-> NthChild(h, n)]
                       IN  /\ Range(met) \ {None} = Children(h)
                           /\ Cardinality({n \in DOMAIN met : met[n] # None}) =
                                Cardinality(Children(h))
  BY DEF NoOrphans
<1>1. Housed(wins) /\ wins \in [Windows -> Window] /\ wins[h].used
  BY DEF WindowsInv, Fits, Housed, Live
<1>2. wins[h].parent = None \/ Live(wins[h].parent)
  BY <1>1 DEF Housed, Live
<1>3. \E k \in Around(h) : wins[k].parent = None
  <2>1. \E k \in Way(wins, h) : wins[k].parent = None
    BY <1>1, WayUp
  <2> QED BY <2>1 DEF Around, Way, ClosedUp
<1> DEFINE met == [n \in 1 .. MAX_WINS |-> NthChild(h, n)]
<1>4. /\ Range(met) \ {None} = Children(h)
      /\ Cardinality({n \in DOMAIN met : met[n] # None}) = Cardinality(Children(h))
  BY <1>1, WalkMeetsAll
<1> QED BY <1>2, <1>3, <1>4

\* Whose slot a host's step frees was told all it had to be.
LEMMA FreedWasTold ==
  ASSUME WindowsInv, HostStep, NEW h \in Windows,
         wins[h].used, ~wins'[h].used, Contains(told[h], "CREATE")
  PROVE  Contains(told[h], "DESTROY") /\ Contains(told[h], "NCDESTROY")
<1>1. wins \in [Windows -> Window]
  BY DEF WindowsInv, Fits, Housed
<1>2. wins' # wins
  OBVIOUS
<1>3. CASE Show \/ Hide
  <2>1. stack # << >>
    BY <1>3 DEF Show, Hide, At
  <2>2. PICK f \in Frame : Top = f
    BY <2>1, TopIs
  <2>3. f.h \in Windows
    BY FrameIs
  <2>4. \E b \in BOOLEAN : wins' = [wins EXCEPT ![f.h].shown = b]
    BY <1>2, <1>3, <2>2 DEF Show, Hide
  <2>5. wins'[h].used = wins[h].used
    BY <1>1, <2>3, <2>4, FlaggedIs
  <2> QED BY <2>5
<1>4. CASE CreateAsked \/ DestroyEnds
  <2>1. stack # << >>
    BY <1>4 DEF CreateAsked, DestroyEnds, At
  <2>2. PICK s \in Seq(Frame), f \in Frame : Top = f /\ Fits(wins, told, InUse, Append(s, f))
    BY <2>1, TopIs
  <2>3. f.h \in Windows /\ FrameOK(wins, told, InUse, f)
    BY <2>2, FrameIs, StackedUp DEF Fits
  <2>4. wins' = Freed(f.h)
    BY <1>2, <1>4, <2>2 DEF CreateAsked, DestroyEnds
  <2>5. f.h = h
    BY <1>1, <2>3, <2>4, FreedIs
  <2>6. f.at \in {"nccreated", "freeing"}
    BY <1>4, <2>2 DEF CreateAsked, DestroyEnds, At
  <2> QED BY <2>3, <2>5, <2>6 DEF FrameOK
<1>5. CASE DestroyBegins \/ DestroyKids \/ CreateTold \/ Placed \/ Shown
  BY <1>2, <1>5 DEF DestroyBegins, DestroyKids, CreateTold, Undo, Placed, Shown
<1> QED BY <1>3, <1>4, <1>5 DEF HostStep

LEMMA StepInOrder ==
  WindowsInv /\ WindowsInv' /\ [Next]_vars =>
    \A h \in Windows :
         /\ \A i, j \in DOMAIN told'[h] : i < j => Rank(told'[h][i]) < Rank(told'[h][j])
         /\ HostStep /\ wins[h].used /\ ~wins'[h].used /\ ~wins[h].sys
            /\ Contains(told[h], "CREATE")
              => Contains(told[h], "DESTROY") /\ Contains(told[h], "NCDESTROY")
<1> SUFFICES ASSUME WindowsInv, WindowsInv', NEW h \in Windows
             PROVE  /\ \A i, j \in DOMAIN told'[h] : i < j => Rank(told'[h][i]) < Rank(told'[h][j])
                    /\ HostStep /\ wins[h].used /\ ~wins'[h].used /\ ~wins[h].sys
                       /\ Contains(told[h], "CREATE")
                         => Contains(told[h], "DESTROY") /\ Contains(told[h], "NCDESTROY")
  OBVIOUS
<1>1. PICK v, u, M, s : v = wins' /\ u = told' /\ Fits(v, u, M, s)
  BY DEF WindowsInv
<1>2. InOrder(u[h])
  BY <1>1 DEF Fits, Tells
<1> QED BY <1>1, <1>2, FreedWasTold DEF InOrder

\* The windows of the library (headless.c) for any number of slots, of handlers
\* in handlers and of calls the guest makes: they stay a tree of what is there,
\* each told of its life in order and of its end before its slot is free, and
\* the focus, the capture and the active window are there.
THEOREM WindowsAlwaysSound == Spec => WindowsSound
<1>1. Init => WindowsInv
  BY WindowsBegin
<1>2. WindowsInv /\ [Next]_vars => WindowsInv'
  BY WindowsKept
<1>3. WindowsInv => TypeOK /\ NoOrphans /\ NamedAreLive
  BY InvIsTyped, InvIsNamed, InvIsHoused
<1>4. WindowsInv /\ WindowsInv' /\ [Next]_vars =>
        [\A h \in Windows :
           /\ \A i, j \in DOMAIN told'[h] : i < j => Rank(told'[h][i]) < Rank(told'[h][j])
           /\ HostStep /\ wins[h].used /\ ~wins'[h].used /\ ~wins[h].sys
              /\ Contains(told[h], "CREATE")
                => Contains(told[h], "DESTROY") /\ Contains(told[h], "NCDESTROY")]_vars
  BY StepInOrder
<1> QED BY <1>1, <1>2, <1>3, <1>4, PTL DEF Spec, WindowsSound, LifeInOrder

=============================================================================
