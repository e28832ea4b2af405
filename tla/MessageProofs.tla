---------------------------- MODULE MessageProofs ----------------------------
(***************************************************************************)
(* What a message says on its way, for stacks of calls of every depth and   *)
(* words, notches and tables of every size.  The wheel loses no notch; a    *)
(* paint ends as it began; a message's words and number come back; a        *)
(* procedure that hands on what it was handed gets its own message's        *)
(* parameters; and the edit scrolls as often as selections asked it to.     *)
(***************************************************************************)
EXTENDS Forwarding, MsgValues, SequenceTheorems, FiniteSetTheorems, WellFoundedInduction, TLAPS

-----------------------------------------------------------------------------
(* The wheel.                                                               *)

WheelSpecification == WheelInit /\ [][Turn]_wheelVars

\* What is carried is what was turned and has not scrolled, and is less than a
\* notch either way.
WheelInv ==
    /\ carry \in [Axes -> Int] /\ turned \in [Axes -> Int] /\ notched \in [Axes -> Int]
    /\ \A a \in Axes : /\ carry[a] = turned[a] - WHEEL_DELTA * notched[a]
                       /\ AbsOf(carry[a]) < WHEEL_DELTA

\* What is over is less than a notch, turned away and turned back.
LEMMA OverIsLess ==
    ASSUME NEW c \in Int
    PROVE  /\ NotchesIn(c) \in Int /\ Over(c) \in Int
           /\ AbsOf(Over(c)) < WHEEL_DELTA
           /\ \A t, x \in Int : c = t - WHEEL_DELTA * x => Over(c) = t - WHEEL_DELTA * (x + NotchesIn(c))
<1>1. WHEEL_DELTA \in Nat \ {0}
  BY WheelConstants
<1>2. \A k \in Nat : /\ k \div WHEEL_DELTA \in Nat
                     /\ k - (k \div WHEEL_DELTA) * WHEEL_DELTA \in 0 .. WHEEL_DELTA - 1
  BY <1>1
<1>3. NotchesIn(c) \in Int
  BY <1>2 DEF NotchesIn
<1> DEFINE n == NotchesIn(c)
<1>4. Over(c) = c - n * WHEEL_DELTA
  BY DEF Over
<1>5. AbsOf(c - n * WHEEL_DELTA) < WHEEL_DELTA
  <2>1. CASE c >= 0
    <3>1. c \in Nat /\ n = c \div WHEEL_DELTA
      BY <2>1 DEF NotchesIn
    <3>2. c - n * WHEEL_DELTA \in 0 .. WHEEL_DELTA - 1
      BY <1>2, <3>1
    <3> QED BY <3>2, <1>1 DEF AbsOf
  <2>2. CASE c < 0
    <3>1. -c \in Nat /\ n = -((-c) \div WHEEL_DELTA)
      BY <2>2 DEF NotchesIn
    <3> DEFINE m == (-c) \div WHEEL_DELTA
    <3>2. m \in Nat /\ (-c) - m * WHEEL_DELTA \in 0 .. WHEEL_DELTA - 1 /\ n = -m
      BY <1>2, <3>1
    <3> HIDE DEF m, n
    <3>3. c - n * WHEEL_DELTA = -((-c) - m * WHEEL_DELTA)
      BY <1>1, <3>2
    <3> QED BY <3>2, <3>3, <1>1 DEF AbsOf
  <2> QED BY <2>1, <2>2
<1> HIDE DEF n
<1>6. \A t, x \in Int : c = t - WHEEL_DELTA * x => c - n * WHEEL_DELTA = t - WHEEL_DELTA * (x + n)
  BY <1>1, <1>3 DEF n
<1>7. Over(c) \in Int
  BY <1>1, <1>3, <1>4 DEF n
<1> QED BY <1>3, <1>4, <1>5, <1>6, <1>7 DEF n

LEMMA WheelKeeps == WheelInv /\ [Turn]_wheelVars => WheelInv'
<1> SUFFICES ASSUME WheelInv, [Turn]_wheelVars PROVE WheelInv'
  OBVIOUS
<1>1. CASE UNCHANGED wheelVars
  BY <1>1 DEF wheelVars, WheelInv
<1>2. CASE Turn
  <2>1. Deltas \subseteq Int
    BY WheelConstants
  <2>2. PICK h \in Panes, d \in Deltas, tilt \in BOOLEAN, shift \in BOOLEAN, per \in PerNotch :
          LET axis == IF tilt \/ shift THEN "horz" ELSE "vert"
              delta == IF tilt THEN -d ELSE d
              old == IF h = lastWindow THEN carry ELSE Zero
              was(f) == IF h = lastWindow THEN f ELSE Zero
              c == old[axis] + delta
              n == NotchesIn(c)
          IN  /\ AbsOf(was(turned)[axis] + delta) <= MaxTurn
              /\ lastWindow' = h
              /\ carry' = [old EXCEPT ![axis] = Over(c)]
              /\ turned' = [was(turned) EXCEPT ![axis] = @ + delta]
              /\ notched' = [was(notched) EXCEPT ![axis] = @ + n]
              /\ sent' = IF n = 0 THEN [code |-> <<"none", "none">>, count |-> 0]
                         ELSE [code |-> CodeOf(n, per), count |-> CountOf(n, per)]
    BY <1>2 DEF Turn
  <2> DEFINE axis == IF tilt \/ shift THEN "horz" ELSE "vert"
             delta == IF tilt THEN -d ELSE d
             oldC == IF h = lastWindow THEN carry ELSE Zero
             oldT == IF h = lastWindow THEN turned ELSE Zero
             oldN == IF h = lastWindow THEN notched ELSE Zero
             c == oldC[axis] + delta
  <2>3. /\ oldC \in [Axes -> Int] /\ oldT \in [Axes -> Int] /\ oldN \in [Axes -> Int]
        /\ \A a \in Axes : /\ oldC[a] = oldT[a] - WHEEL_DELTA * oldN[a]
                           /\ AbsOf(oldC[a]) < WHEEL_DELTA
    <3>1. CASE h = lastWindow
      BY <3>1 DEF WheelInv
    <3>2. CASE h # lastWindow
      <4>1. Zero \in [Axes -> Int] /\ \A a \in Axes : Zero[a] = 0
        BY DEF Zero
      <4>2. 0 = 0 - WHEEL_DELTA * 0 /\ AbsOf(0) < WHEEL_DELTA
        BY WheelConstants DEF AbsOf
      <4> QED BY <3>2, <4>1, <4>2
    <3> QED BY <3>1, <3>2
  <2>4. axis \in Axes /\ delta \in Int
    BY <2>1 DEF Axes
  <2>5. /\ carry' = [oldC EXCEPT ![axis] = Over(c)]
        /\ turned' = [oldT EXCEPT ![axis] = @ + delta]
        /\ notched' = [oldN EXCEPT ![axis] = @ + NotchesIn(c)]
    BY <2>2
  <2> HIDE DEF oldC, oldT, oldN, axis, delta
  <2>6. c \in Int /\ c = (oldT[axis] + delta) - WHEEL_DELTA * oldN[axis]
        /\ oldT[axis] + delta \in Int /\ oldN[axis] \in Int
    BY <2>3, <2>4, WheelConstants
  <2> HIDE DEF c
  <2>7. /\ NotchesIn(c) \in Int /\ Over(c) \in Int /\ AbsOf(Over(c)) < WHEEL_DELTA
        /\ Over(c) = (oldT[axis] + delta) - WHEEL_DELTA * (oldN[axis] + NotchesIn(c))
    BY <2>6, OverIsLess
  <2>8. carry' \in [Axes -> Int] /\ turned' \in [Axes -> Int] /\ notched' \in [Axes -> Int]
    BY <2>3, <2>4, <2>5, <2>6, <2>7
  <2>9. \A a \in Axes : /\ carry'[a] = turned'[a] - WHEEL_DELTA * notched'[a]
                        /\ AbsOf(carry'[a]) < WHEEL_DELTA
    <3> SUFFICES ASSUME NEW a \in Axes
                 PROVE  /\ carry'[a] = turned'[a] - WHEEL_DELTA * notched'[a]
                        /\ AbsOf(carry'[a]) < WHEEL_DELTA
      OBVIOUS
    <3>1. CASE a = axis
      <4>1. /\ carry'[a] = Over(c) /\ turned'[a] = oldT[axis] + delta
            /\ notched'[a] = oldN[axis] + NotchesIn(c)
        BY <2>3, <2>4, <2>5, <3>1
      <4> QED BY <2>7, <4>1
    <3>2. CASE a # axis
      <4>1. carry'[a] = oldC[a] /\ turned'[a] = oldT[a] /\ notched'[a] = oldN[a]
        BY <2>3, <2>5, <3>2
      <4> QED BY <2>3, <4>1
    <3> QED BY <3>1, <3>2
  <2> QED BY <2>8, <2>9 DEF WheelInv
<1> QED BY <1>1, <1>2

LEMMA WheelBegins == WheelInit => WheelInv
<1> SUFFICES ASSUME WheelInit PROVE WheelInv
  OBVIOUS
<1>1. Zero \in [Axes -> Int] /\ \A a \in Axes : Zero[a] = 0
  BY DEF Zero
<1>2. 0 = 0 - WHEEL_DELTA * 0 /\ AbsOf(0) < WHEEL_DELTA
  BY WheelConstants DEF AbsOf
<1> QED BY <1>1, <1>2 DEF WheelInit, WheelInv

\* winproc_wheel, for a notch of any size, a wheel that reports as it likes
\* and turning of any length: no notch is lost or made up.
THEOREM NotchesAlwaysKept == WheelSpecification => []NotchesKept
<1>1. WheelInv => NotchesKept
  BY DEF WheelInv, NotchesKept
<1> QED BY <1>1, WheelBegins, WheelKeeps, PTL DEF WheelSpecification

-----------------------------------------------------------------------------
(* Paints.                                                                  *)

PaintSpecification == PaintsInit /\ [][PaintStep]_paintVars

LEMMA LeastAndGreatest ==
    /\ \A S \in SUBSET Nat : S # {} => Min(S) \in S /\ \A y \in S : Min(S) <= y
    /\ \A S \in SUBSET Int : \A m \in S : (\A y \in S : y <= m) => Max(S) = m
<1> DEFINE R == {ss \in Nat \X Nat : ss[1] < ss[2]}
<1>1. IsWellFoundedOn(R, Nat)
  BY NatLessThanWellFounded DEF OpToRel
<1>2. \A x, y \in Nat : <<y, x>> \in R <=> y < x
  OBVIOUS
<1> HIDE DEF R
<1>3. ASSUME NEW S \in SUBSET Nat, S # {} PROVE Min(S) \in S /\ \A y \in S : Min(S) <= y
  <2>1. PICK x \in S : \A y \in S : ~(<<y, x>> \in R)
    BY <1>1, <1>3, WFMin
  <2>2. \A y \in S : y \in Nat /\ x \in Nat /\ ~(y < x)
    BY <1>2, <2>1
  <2>3. \A y \in S : x <= y
    BY <2>2
  <2> QED BY <2>1, <2>3 DEF Min
<1>4. ASSUME NEW S \in SUBSET Int, NEW m \in S, \A y \in S : y <= m PROVE Max(S) = m
  <2>1. \A x \in S : (\A y \in S : x >= y) => x = m
    BY <1>4
  <2>2. m \in S /\ \A y \in S : m >= y
    BY <1>4
  <2> QED BY <2>1, <2>2 DEF Max
<1> QED BY <1>3, <1>4

\* What is left when the last is taken from a sequence, and what was last.
LEMMA LastTaken ==
    ASSUME NEW S, NEW s \in Seq(S), s # << >>
    PROVE  /\ Len(s) \in Nat \ {0} /\ Last(s) = s[Len(s)] /\ Last(s) \in S
           /\ Front(s) \in Seq(S) /\ Len(Front(s)) = Len(s) - 1
           /\ \A i \in 1 .. Len(s) - 1 : Front(s)[i] = s[i]
<1>1. Len(s) \in Nat \ {0} /\ \A i \in 1 .. Len(s) : s[i] \in S
  OBVIOUS
<1> DEFINE n == Len(s) - 1
<1>2. 1 \in Int /\ n \in Int /\ n >= 0
  BY <1>1
<1>3. \A i \in 1 .. n : s[i] \in S
  BY <1>1
<1>4. Front(s) = SubSeq(s, 1, n)
  BY DEF Front
<1>5. Last(s) = s[Len(s)] /\ Last(s) \in S
  BY <1>1 DEF Last
<1> HIDE DEF n
<1>6. /\ SubSeq(s, 1, n) \in Seq(S)
      /\ Len(SubSeq(s, 1, n)) = IF 1 <= n THEN n - 1 + 1 ELSE 0
      /\ \A i \in 1 .. n - 1 + 1 : SubSeq(s, 1, n)[i] = s[1 + i - 1]
  BY <1>2, <1>3, SubSeqProperties
<1>7. (IF 1 <= n THEN n - 1 + 1 ELSE 0) = n /\ n - 1 + 1 = n
  BY <1>2
<1>8. \A i \in 1 .. n : 1 + i - 1 = i
  BY <1>2
<1>9. Len(Front(s)) = n
  BY <1>4, <1>6, <1>7, Zenon
<1>10. \A i \in 1 .. n : Front(s)[i] = s[i]
  BY <1>4, <1>6, <1>7, <1>8, Zenon
<1>11. Front(s) \in Seq(S)
  BY <1>4, <1>6, Zenon
<1> HIDE DEF Front, Last
<1> QED BY <1>1, <1>5, <1>9, <1>10, <1>11 DEF n

Places == 1 .. MAX_PAINTS
Paint == [hwnd : PaintWindows, ps : Nat \ {0}]

PaintsOf(h) == {i \in Places : paints[i].hwnd = h}
PaintingOf(h) == {k \in 1 .. Len(painting) : painting[k].hwnd = h}

\* While every paint has found a place the table is the stack of what is being
\* painted; and when one has not, a window has no more places than paints, so
\* that the table is empty again when nothing is painted.
PaintInv ==
    /\ paints \in [Places -> Paint \cup {FreePaint}]
    /\ painting \in Seq(Paint)
    /\ begun \in Nat /\ lost \in BOOLEAN
    /\ ~lost => /\ Len(painting) <= MAX_PAINTS
                /\ \A i \in Places :
                     paints[i] = IF i <= Len(painting) THEN painting[i] ELSE FreePaint
    /\ \A h \in PaintWindows : Cardinality(PaintsOf(h)) <= Cardinality(PaintingOf(h))

LEMMA PaintFacts ==
    /\ MAX_PAINTS \in Nat \ {0}
    /\ \A p \in Paint : p # FreePaint /\ p.hwnd \in PaintWindows
    /\ FreePaint.hwnd \notin PaintWindows
BY PaintConstants DEF Paint, FreePaint

LEMMA PaintsFinite ==
    \A h : /\ IsFiniteSet(PaintsOf(h))
           /\ painting \in Seq(Paint) => IsFiniteSet(PaintingOf(h))
<1> SUFFICES ASSUME NEW h PROVE IsFiniteSet(PaintsOf(h))
                                /\ (painting \in Seq(Paint) => IsFiniteSet(PaintingOf(h)))
  OBVIOUS
<1>1. IsFiniteSet(Places)
  BY PaintFacts, FS_Interval DEF Places
<1>2. painting \in Seq(Paint) => IsFiniteSet(1 .. Len(painting))
  <2> SUFFICES ASSUME painting \in Seq(Paint) PROVE IsFiniteSet(1 .. Len(painting))
    OBVIOUS
  <2>1. Len(painting) \in Int /\ 1 \in Int
    OBVIOUS
  <2> QED BY <2>1, FS_Interval
<1>3. PaintsOf(h) \subseteq Places /\ PaintingOf(h) \subseteq 1 .. Len(painting)
  BY DEF PaintsOf, PaintingOf
<1> QED BY <1>1, <1>2, <1>3, FS_Subset

LEMMA PaintsBegin == PaintsInit => PaintInv
<1> SUFFICES ASSUME PaintsInit PROVE PaintInv
  OBVIOUS
<1>1. /\ paints = [i \in Places |-> FreePaint]
      /\ painting = << >> /\ begun = 0 /\ lost = FALSE
  BY DEF PaintsInit, Places
<1>2. \A h \in PaintWindows : PaintsOf(h) = {}
  BY <1>1, PaintFacts DEF PaintsOf
<1>3. painting \in Seq(Paint) /\ Len(painting) = 0
  BY <1>1
<1>4. \A h : PaintingOf(h) = {}
  BY <1>3 DEF PaintingOf
<1>5. \A h \in PaintWindows : Cardinality(PaintsOf(h)) <= Cardinality(PaintingOf(h))
  <2>1. Cardinality({}) <= Cardinality({})
    BY FS_EmptySet
  <2> QED BY <1>2, <1>4, <2>1
<1>6. \A i \in Places : paints[i] = FreePaint /\ ~(i <= 0)
  BY <1>1 DEF Places
<1>7. paints \in [Places -> Paint \cup {FreePaint}]
  BY <1>1
<1>8. /\ Len(painting) <= MAX_PAINTS
      /\ \A i \in Places : paints[i] = IF i <= Len(painting) THEN painting[i] ELSE FreePaint
  BY <1>3, <1>6, PaintFacts
<1>9. begun \in Nat /\ lost \in BOOLEAN
  BY <1>1
<1> QED BY <1>3, <1>5, <1>7, <1>8, <1>9, Zenon DEF PaintInv

LEMMA BeginPaintKeeps == PaintInv /\ BeginPaint => PaintInv'
<1> SUFFICES ASSUME PaintInv, BeginPaint PROVE PaintInv'
  OBVIOUS
<1> DEFINE ps == begun + 1
           free == {i \in Places : paints[i] = FreePaint}
           k == Min(free)
<1>1. PICK h \in PaintWindows :
         /\ paints' = PaintSave(h, ps)
         /\ painting' = Append(painting, [hwnd |-> h, ps |-> ps])
         /\ lost' = (lost \/ PaintSave(h, ps) = paints)
  BY DEF BeginPaint
<1> DEFINE p == [hwnd |-> h, ps |-> ps]
<1>2. /\ paints \in [Places -> Paint \cup {FreePaint}] /\ painting \in Seq(Paint)
      /\ Len(painting) \in Nat /\ begun' \in Nat /\ lost \in BOOLEAN /\ ps \in Nat \ {0}
  BY DEF PaintInv, BeginPaint
<1>3. p \in Paint /\ p.hwnd = h
  BY <1>2 DEF Paint
<1>4. PaintSave(h, ps) = IF free = {} THEN paints ELSE [paints EXCEPT ![k] = p]
  BY DEF PaintSave, Places
<1>5. free # {} => k \in free /\ \A y \in free : k <= y
  <2>1. free \in SUBSET Nat
    BY PaintFacts DEF Places
  <2> QED BY <2>1, LeastAndGreatest
<1> HIDE DEF p, k, ps
<1>6. /\ painting' \in Seq(Paint) /\ Len(painting') = Len(painting) + 1
      /\ \A i \in 1 .. Len(painting) : painting'[i] = painting[i]
      /\ painting'[Len(painting) + 1] = p
  BY <1>1, <1>2, <1>3 DEF p
<1>7. PaintingOf(h)' = PaintingOf(h) \cup {Len(painting) + 1}
      /\ \A g \in PaintWindows \ {h} : PaintingOf(g)' = PaintingOf(g)
  <2>1. 1 .. Len(painting') = (1 .. Len(painting)) \cup {Len(painting) + 1}
    BY <1>2, <1>6
  <2> QED BY <1>3, <1>6, <2>1 DEF PaintingOf
<1>8. Len(painting) + 1 \notin PaintingOf(h)
  BY <1>2 DEF PaintingOf
<1>9. Cardinality(PaintingOf(h)') = Cardinality(PaintingOf(h)) + 1
      /\ Cardinality(PaintingOf(h)) \in Nat /\ Cardinality(PaintsOf(h)) \in Nat
  <2>1. IsFiniteSet(PaintingOf(h)) /\ IsFiniteSet(PaintsOf(h))
    BY <1>2, PaintsFinite
  <2>2. Cardinality(PaintingOf(h) \cup {Len(painting) + 1}) = Cardinality(PaintingOf(h)) + 1
    BY <1>8, <2>1, FS_AddElement
  <2>3. Cardinality(PaintingOf(h)) \in Nat /\ Cardinality(PaintsOf(h)) \in Nat
    BY <2>1, FS_CardinalityType
  <2> QED BY <1>7, <2>2, <2>3
<1>10. CASE free = {}
  <2>1. paints' = paints /\ lost' = TRUE
    BY <1>1, <1>4, <1>10
  <2>2. \A g : PaintsOf(g)' = PaintsOf(g)
    BY <2>1 DEF PaintsOf
  <2>3. \A g \in PaintWindows : Cardinality(PaintsOf(g)') <= Cardinality(PaintingOf(g)')
    <3> SUFFICES ASSUME NEW g \in PaintWindows
                 PROVE Cardinality(PaintsOf(g)') <= Cardinality(PaintingOf(g)')
      OBVIOUS
    <3>1. Cardinality(PaintsOf(g)) <= Cardinality(PaintingOf(g))
      BY DEF PaintInv
    <3>2. CASE g = h
      BY <1>9, <2>2, <3>1, <3>2
    <3>3. CASE g # h
      BY <1>7, <2>2, <3>1, <3>3
    <3> QED BY <3>2, <3>3
  <2> QED BY <1>2, <1>6, <2>1, <2>3 DEF PaintInv
<1>11. CASE free # {}
  <2>1. paints' = [paints EXCEPT ![k] = p] /\ k \in Places /\ paints[k] = FreePaint
    BY <1>1, <1>4, <1>5, <1>11
  <2>2. paints' \in [Places -> Paint \cup {FreePaint}]
        /\ \A i \in Places : paints'[i] = IF i = k THEN p ELSE paints[i]
    BY <1>2, <1>3, <2>1
  <2>3. lost' = lost
    <3>1. p # FreePaint
      BY <1>3, PaintFacts
    <3>2. paints'[k] # paints[k]
      BY <2>1, <2>2, <3>1
    <3>3. PaintSave(h, ps) # paints
      BY <1>1, <3>2
    <3> QED BY <1>1, <1>2, <3>3
  <2>4. PaintsOf(h)' = PaintsOf(h) \cup {k} /\ \A g \in PaintWindows \ {h} : PaintsOf(g)' = PaintsOf(g)
    BY <1>3, <2>1, <2>2, PaintFacts DEF PaintsOf
  <2>5. k \notin PaintsOf(h)
    BY <2>1, PaintFacts DEF PaintsOf
  <2>6. Cardinality(PaintsOf(h)') = Cardinality(PaintsOf(h)) + 1
    <3>1. IsFiniteSet(PaintsOf(h))
      BY PaintsFinite
    <3> QED BY <2>4, <2>5, <3>1, FS_AddElement
  <2>7. \A g \in PaintWindows : Cardinality(PaintsOf(g)') <= Cardinality(PaintingOf(g)')
    <3> SUFFICES ASSUME NEW g \in PaintWindows
                 PROVE Cardinality(PaintsOf(g)') <= Cardinality(PaintingOf(g)')
      OBVIOUS
    <3>1. Cardinality(PaintsOf(g)) <= Cardinality(PaintingOf(g))
      BY DEF PaintInv
    <3>2. CASE g = h
      BY <1>9, <2>6, <3>1, <3>2
    <3>3. CASE g # h
      BY <1>7, <2>4, <3>1, <3>3
    <3> QED BY <3>2, <3>3
  <2>8. ~lost => /\ Len(painting') <= MAX_PAINTS
                 /\ \A i \in Places :
                      paints'[i] = IF i <= Len(painting') THEN painting'[i] ELSE FreePaint
    <3> SUFFICES ASSUME ~lost
                 PROVE /\ Len(painting') <= MAX_PAINTS
                       /\ \A i \in Places :
                            paints'[i] = IF i <= Len(painting') THEN painting'[i] ELSE FreePaint
      OBVIOUS
    <3>1. \A i \in Places : paints[i] = IF i <= Len(painting) THEN painting[i] ELSE FreePaint
      BY DEF PaintInv
    <3>2. \A i \in 1 .. Len(painting) : painting[i] # FreePaint
      BY <1>2, PaintFacts
    <3>3. free = {i \in Places : i > Len(painting)}
      BY <1>2, <3>1, <3>2 DEF Places
    <3>4. k = Len(painting) + 1
      <4>1. k \in Places /\ k > Len(painting) /\ k \in Int
        BY <1>5, <1>11, <3>3 DEF Places
      <4>2. Len(painting) + 1 \in free
        BY <1>2, <3>3, <4>1, PaintFacts DEF Places
      <4>3. k <= Len(painting) + 1
        BY <1>5, <4>2
      <4> QED BY <1>2, <4>1, <4>3
    <3>5. Len(painting') <= MAX_PAINTS
      BY <1>6, <2>1, <3>4 DEF Places
    <3>6. \A i \in Places : paints'[i] = IF i <= Len(painting') THEN painting'[i] ELSE FreePaint
      <4> SUFFICES ASSUME NEW i \in Places
                   PROVE paints'[i] = IF i <= Len(painting') THEN painting'[i] ELSE FreePaint
        OBVIOUS
      <4>1. i \in Int /\ i >= 1
        BY DEF Places
      <4>2. CASE i <= Len(painting)
        BY <1>2, <1>6, <2>2, <3>1, <3>4, <4>1, <4>2
      <4>3. CASE i = Len(painting) + 1
        BY <1>2, <1>6, <2>2, <3>4, <4>3
      <4>4. CASE i > Len(painting) + 1
        BY <1>2, <1>6, <2>2, <3>1, <3>4, <4>1, <4>4
      <4> QED BY <1>2, <4>1, <4>2, <4>3, <4>4
    <3> QED BY <3>5, <3>6
  <2> QED BY <1>2, <1>6, <2>2, <2>3, <2>7, <2>8 DEF PaintInv
<1> QED BY <1>10, <1>11

\* The end of the paint that was begun last: the window keeps no more places
\* than paints, and unless one was lost the place found is that paint's own.
LEMMA EndPaintKeeps ==
    PaintInv /\ EndPaint => PaintInv' /\ (~lost => ended'.used = ended'.meant)
<1> SUFFICES ASSUME PaintInv, EndPaint PROVE PaintInv' /\ (~lost => ended'.used = ended'.meant)
  OBVIOUS
<1> DEFINE n == Len(painting)
<1>1. /\ painting # << >> /\ painting \in Seq(Paint)
      /\ paints \in [Places -> Paint \cup {FreePaint}] /\ begun \in Nat /\ lost \in BOOLEAN
  BY DEF PaintInv, EndPaint
<1>2. /\ n \in Nat \ {0} /\ Last(painting) = painting[n] /\ Last(painting) \in Paint
      /\ Front(painting) \in Seq(Paint) /\ Len(Front(painting)) = n - 1
      /\ \A i \in 1 .. n - 1 : Front(painting)[i] = painting[i]
  BY <1>1, LastTaken
<1>3. PICK h \in PaintWindows : h = Last(painting).hwnd
  BY <1>2, PaintFacts
<1> DEFINE own == PaintsOf(h)
           t == Taken(own)
<1>4. /\ paints' = IF own = {} THEN paints ELSE [paints EXCEPT ![t] = FreePaint]
      /\ ended' = [meant |-> Last(painting).ps, used |-> IF own = {} THEN 0 ELSE paints[t].ps]
      /\ painting' = Front(painting) /\ lost' = (lost /\ painting' # << >>) /\ begun' = begun
  BY <1>3 DEF EndPaint, PaintsOf, Places
<1> HIDE DEF n
<1>5. own # {} => t \in own
  <2> SUFFICES ASSUME own # {} PROVE t \in own
    OBVIOUS
  <2>1. IsFiniteSet(own) /\ own \subseteq Places
    BY PaintsFinite DEF PaintsOf
  <2>2. \E m \in own : \A y \in own : y <= m
    <3> DEFINE Up == {MAX_PAINTS - i : i \in own}
    <3>1. Up \in SUBSET Nat /\ Up # {}
      BY <2>1, PaintFacts DEF Places
    <3>2. Min(Up) \in Up /\ \A y \in Up : Min(Up) <= y
      BY <3>1, LeastAndGreatest
    <3>3. PICK m \in own : Min(Up) = MAX_PAINTS - m
      BY <3>2
    <3>4. \A y \in own : MAX_PAINTS - m <= MAX_PAINTS - y
      BY <3>2, <3>3
    <3>5. \A y \in own : y \in Int /\ m \in Int /\ MAX_PAINTS \in Int
      BY <2>1, PaintFacts DEF Places
    <3>6. \A y \in own : y <= m
      BY <3>4, <3>5
    <3> QED BY <3>6
  <2>3. PICK m \in own : \A y \in own : y <= m
    BY <2>2
  <2>4. own \in SUBSET Int
    BY <2>1 DEF Places
  <2>5. Max(own) = m
    BY <2>3, <2>4, LeastAndGreatest
  <2> QED BY <2>3, <2>5 DEF Taken
<1>6. PaintingOf(h) = PaintingOf(h)' \cup {n} /\ n \notin PaintingOf(h)'
      /\ \A g \in PaintWindows \ {h} : PaintingOf(g)' = PaintingOf(g)
  <2>1. 1 .. n = (1 .. n - 1) \cup {n} /\ n \notin 1 .. n - 1 /\ Len(painting') = n - 1
        /\ n = Len(painting)
    BY <1>2, <1>4 DEF n
  <2>2. \A k \in 1 .. n - 1 : painting'[k] = painting[k]
    BY <1>2, <1>4
  <2>3. \A g : PaintingOf(g)' = {k \in 1 .. n - 1 : painting[k].hwnd = g}
    BY <2>1, <2>2 DEF PaintingOf
  <2>4. \A g : PaintingOf(g) = {k \in 1 .. n : painting[k].hwnd = g}
    BY <2>1 DEF PaintingOf
  <2>5. painting[n].hwnd = h
    BY <1>2, <1>3
  <2>6. \A g : {k \in 1 .. n : painting[k].hwnd = g} =
              {k \in 1 .. n - 1 : painting[k].hwnd = g} \cup {k \in {n} : painting[k].hwnd = g}
    BY <2>1
  <2>7. PaintingOf(h) = PaintingOf(h)' \cup {n}
    BY <2>3, <2>4, <2>5, <2>6
  <2>8. \A g \in PaintWindows \ {h} : PaintingOf(g)' = PaintingOf(g)
    BY <2>3, <2>4, <2>5, <2>6
  <2>9. n \notin PaintingOf(h)'
    BY <2>1, <2>3
  <2> QED BY <2>7, <2>8, <2>9
<1>7. Cardinality(PaintingOf(h)) = Cardinality(PaintingOf(h)') + 1
      /\ Cardinality(PaintingOf(h)') \in Nat
  <2>1. PaintingOf(h)' \subseteq PaintingOf(h) /\ IsFiniteSet(PaintingOf(h))
    BY <1>1, <1>6, PaintsFinite
  <2>2. IsFiniteSet(PaintingOf(h)')
    BY <2>1, FS_Subset
  <2>3. Cardinality(PaintingOf(h)' \cup {n}) = Cardinality(PaintingOf(h)') + 1
    BY <1>6, <2>2, FS_AddElement
  <2>4. Cardinality(PaintingOf(h)') \in Nat
    BY <2>2, FS_CardinalityType
  <2> QED BY <1>6, <2>3, <2>4
<1> HIDE DEF t
<1>8. /\ paints' \in [Places -> Paint \cup {FreePaint}]
      /\ \A i \in Places : paints'[i] = IF own # {} /\ i = t THEN FreePaint ELSE paints[i]
      /\ own \subseteq Places
  <2>1. own \subseteq Places
    BY DEF PaintsOf
  <2> HIDE DEF own
  <2>2. CASE own = {}
    BY <1>1, <1>4, <2>1, <2>2
  <2>3. CASE own # {}
    <3>1. t \in Places /\ paints' = [paints EXCEPT ![t] = FreePaint]
      BY <1>4, <1>5, <2>1, <2>3
    <3> QED BY <1>1, <2>1, <2>3, <3>1
  <2> QED BY <2>2, <2>3
<1>9. \A g \in PaintWindows : PaintsOf(g)' = IF g = h THEN own \ {t} ELSE PaintsOf(g)
  <2> SUFFICES ASSUME NEW g \in PaintWindows
               PROVE PaintsOf(g)' = IF g = h THEN own \ {t} ELSE PaintsOf(g)
    OBVIOUS
  <2>1. CASE own = {}
    <3>1. PaintsOf(g)' = PaintsOf(g)
      BY <1>8, <2>1 DEF PaintsOf
    <3> QED BY <2>1, <3>1
  <2>2. CASE own # {}
    <3>1. t \in Places /\ paints[t].hwnd = h
      BY <1>5, <2>2 DEF PaintsOf
    <3>2. PaintsOf(g)' = {i \in Places : i # t /\ paints[i].hwnd = g}
      BY <1>8, <2>2, PaintFacts DEF PaintsOf
    <3>3. PaintsOf(g)' = PaintsOf(g) \ {t}
      BY <3>2 DEF PaintsOf
    <3>4. g # h => t \notin PaintsOf(g)
      BY <3>1 DEF PaintsOf
    <3> QED BY <3>3, <3>4
  <2> QED BY <2>1, <2>2
<1>10. \A g \in PaintWindows : Cardinality(PaintsOf(g)') <= Cardinality(PaintingOf(g)')
  <2> SUFFICES ASSUME NEW g \in PaintWindows
               PROVE Cardinality(PaintsOf(g)') <= Cardinality(PaintingOf(g)')
    OBVIOUS
  <2>1. Cardinality(PaintsOf(g)) <= Cardinality(PaintingOf(g))
    BY DEF PaintInv
  <2>2. CASE g # h
    BY <1>6, <1>9, <2>1, <2>2
  <2>3. CASE g = h /\ own = {}
    <3>1. PaintsOf(g)' = {}
      BY <1>9, <2>3
    <3>2. Cardinality({}) = 0
      BY FS_EmptySet
    <3> QED BY <1>7, <2>3, <3>1, <3>2
  <2>4. CASE g = h /\ own # {}
    <3>1. IsFiniteSet(own) /\ t \in own
      BY <1>5, <2>4, PaintsFinite
    <3>2. Cardinality(own \ {t}) = Cardinality(own) - 1 /\ Cardinality(own) \in Nat
      BY <3>1, FS_RemoveElement, FS_CardinalityType
    <3> QED BY <1>7, <1>9, <2>1, <2>4, <3>2
  <2> QED BY <2>2, <2>3, <2>4
<1>11. ASSUME ~lost
       PROVE  /\ ended'.used = ended'.meant
              /\ n - 1 <= MAX_PAINTS
              /\ \A i \in Places : paints'[i] = IF i <= n - 1 THEN painting'[i] ELSE FreePaint
  <2>1. n <= MAX_PAINTS /\ \A i \in Places : paints[i] = IF i <= n THEN painting[i] ELSE FreePaint
    BY <1>11 DEF PaintInv, n
  <2>2. n \in own
    <3>1. n \in Places
      BY <1>2, <2>1, PaintFacts DEF Places
    <3>2. n <= n
      BY <1>2
    <3>3. paints[n] = painting[n]
      BY <2>1, <3>1, <3>2
    <3> QED BY <1>2, <1>3, <3>1, <3>3 DEF PaintsOf
  <2>3. \A i \in own : i <= n
    BY <1>3, <2>1, PaintFacts DEF PaintsOf
  <2>4. own \in SUBSET Int
    BY DEF PaintsOf, Places
  <2>5. t = n
    BY <2>2, <2>3, <2>4, LeastAndGreatest DEF t, Taken
  <2>6. ended'.used = paints[n].ps /\ ended'.meant = painting[n].ps
    BY <1>2, <1>4, <2>2, <2>5
  <2>7. n \in Places /\ paints[n] = painting[n]
    BY <1>2, <2>1, PaintFacts DEF Places
  <2>8. \A i \in Places : paints'[i] = IF i <= n - 1 THEN painting'[i] ELSE FreePaint
    <3> SUFFICES ASSUME NEW i \in Places
                 PROVE paints'[i] = IF i <= n - 1 THEN painting'[i] ELSE FreePaint
      OBVIOUS
    <3>0. i \in Int /\ i >= 1
      BY DEF Places
    <3>1. CASE i <= n - 1
      <4>1. i \in 1 .. n - 1 /\ i # n /\ i <= n
        BY <1>2, <3>0, <3>1
      <4>2. painting'[i] = painting[i]
        BY <1>2, <1>4, <4>1
      <4> QED BY <1>8, <2>1, <2>5, <3>1, <4>1, <4>2
    <3>2. CASE i = n
      BY <1>2, <1>8, <2>2, <2>5, <3>2
    <3>3. CASE i > n
      <4>1. ~(i <= n) /\ ~(i <= n - 1) /\ i # n
        BY <1>2, <3>0, <3>3
      <4> QED BY <1>8, <2>1, <2>5, <4>1
    <3> QED BY <1>2, <3>0, <3>1, <3>2, <3>3
  <2>9. n - 1 <= MAX_PAINTS
    BY <1>2, <2>1, PaintFacts
  <2> QED BY <2>6, <2>7, <2>8, <2>9
<1>12. painting' \in Seq(Paint) /\ Len(painting') = n - 1
  BY <1>2, <1>4
\* The paint that was lost is forgotten when nothing is painted any more; the
\* table is empty then.
<1>13. ASSUME lost, ~lost'
       PROVE  /\ Len(painting') <= MAX_PAINTS
              /\ \A i \in Places :
                   paints'[i] = IF i <= Len(painting') THEN painting'[i] ELSE FreePaint
  <2>1. painting' = << >>
    BY <1>4, <1>13
  <2>2. Len(painting') = 0
    BY <2>1
  <2>3. \A g \in PaintWindows : PaintsOf(g)' = {}
    <3> SUFFICES ASSUME NEW g \in PaintWindows PROVE PaintsOf(g)' = {}
      OBVIOUS
    <3>1. PaintingOf(g)' = {}
      BY <2>2 DEF PaintingOf
    <3>2. Cardinality(PaintsOf(g)') <= 0
      <4>1. Cardinality({}) = 0
        BY FS_EmptySet
      <4> QED BY <1>10, <3>1, <4>1
    <3>3. IsFiniteSet(PaintsOf(g)')
      <4>1. PaintsOf(g)' \subseteq Places /\ IsFiniteSet(Places)
        BY PaintFacts, FS_Interval DEF PaintsOf, Places
      <4> QED BY <4>1, FS_Subset
    <3>4. Cardinality(PaintsOf(g)') \in Nat
      BY <3>3, FS_CardinalityType
    <3>5. Cardinality(PaintsOf(g)') = 0
      BY <3>2, <3>4
    <3> QED BY <3>3, <3>5, FS_EmptySet
  <2>4. \A i \in Places : paints'[i] = FreePaint
    <3> SUFFICES ASSUME NEW i \in Places, paints'[i] # FreePaint PROVE FALSE
      OBVIOUS
    <3>1. paints'[i] \in Paint
      BY <1>8
    <3>2. PICK g \in PaintWindows : g = paints'[i].hwnd
      BY <3>1, PaintFacts
    <3>3. i \in PaintsOf(g)'
      BY <3>2 DEF PaintsOf
    <3> QED BY <2>3, <3>3
  <2>5. \A i \in Places : ~(i <= 0)
    BY DEF Places
  <2> QED BY <2>2, <2>4, <2>5, PaintFacts
<1>14. ~lost' => /\ Len(painting') <= MAX_PAINTS
                 /\ \A i \in Places :
                      paints'[i] = IF i <= Len(painting') THEN painting'[i] ELSE FreePaint
  BY <1>11, <1>12, <1>13
<1>15. begun' \in Nat /\ lost' \in BOOLEAN
  BY <1>1, <1>4
<1>16. PaintInv'
  BY <1>8, <1>10, <1>12, <1>14, <1>15 DEF PaintInv
<1> QED BY <1>11, <1>16

\* paint_save and paint_take, for tables of every size: EndPaint finds the
\* struct its own BeginPaint filled, unless one that is not ended yet found no
\* place; and a loss is over when nothing is painted any more.
THEOREM PaintsAlwaysEndRight == PaintSpecification => EndsWhatItBegan
<1>1. PaintInv /\ [PaintStep]_paintVars => PaintInv'
  <2> SUFFICES ASSUME PaintInv, [PaintStep]_paintVars PROVE PaintInv'
    OBVIOUS
  <2>1. CASE UNCHANGED paintVars
    BY <2>1 DEF paintVars, PaintInv, PaintsOf, PaintingOf
  <2> QED BY <2>1, BeginPaintKeeps, EndPaintKeeps DEF PaintStep
<1>2. PaintInv /\ [PaintStep]_paintVars =>
        [ended' # ended /\ ~lost => ended'.used = ended'.meant]_paintVars
  BY EndPaintKeeps DEF PaintStep, BeginPaint
<1> QED BY <1>1, <1>2, PaintsBegin, PTL DEF PaintSpecification, EndsWhatItBegan

-----------------------------------------------------------------------------
(* The words of a message.                                                  *)

\* A long is its two words, and both come out of it again.
LEMMA DivisionIsUnique ==
    ASSUME NEW n \in Nat \ {0}, NEW k \in Int, NEW r \in 0 .. n - 1
    PROVE  (k * n + r) % n = r /\ (k * n + r) \div n = k
<1> DEFINE x == k * n + r
           y == x \div n
           z == x % n
<1>1. x \in Int /\ y \in Int /\ z \in 0 .. n - 1 /\ x = n * y + z
  OBVIOUS
<1>2. x = k * n + r
  OBVIOUS
<1> HIDE DEF x, y, z
<1>3. n * (k - y) = z - r
  BY <1>1, <1>2
<1>4. z - r < n /\ r - z < n
  BY <1>1
<1>5. k - y = 0
  <2>1. CASE k - y >= 1
    <3>1. n * (k - y) >= n
      BY <1>1, <2>1
    <3> QED BY <1>1, <1>3, <1>4, <3>1
  <2>2. CASE k - y <= -1
    <3>1. n * (k - y) <= -n
      BY <1>1, <2>2
    <3> QED BY <1>1, <1>3, <1>4, <3>1
  <2> QED BY <1>1, <2>1, <2>2
<1>6. y = k /\ z = r
  BY <1>1, <1>3, <1>5
<1> QED BY <1>6 DEF x, y, z

WordFacts ==
    /\ \A lo, hi \in Word : Lo(Long(lo, hi)) = lo /\ Hi(Long(lo, hi)) = hi
    /\ \A w \in Word : Lo(w) = w /\ Lo(Signed(w)) = w
    /\ \A w \in Word : Signed(w) = -1 <=> w = W - 1
    /\ Lo(-1) = W - 1 /\ Hi(0) = 0 /\ Signed(0) = 0
    /\ Words \subseteq Word /\ 0 .. 6 \subseteq Word /\ W - 1 \in Word /\ W - 1 # 0

LEMMA WordsComeBack == WordFacts
<1>1. W \in Nat \ {0} /\ W > 6 /\ W % 2 = 0
  BY WordConstants
<1>2. \A lo, hi \in Word : Lo(Long(lo, hi)) = lo /\ Hi(Long(lo, hi)) = hi
  <2> SUFFICES ASSUME NEW lo \in Word, NEW hi \in Word
               PROVE Lo(Long(lo, hi)) = lo /\ Hi(Long(lo, hi)) = hi
    OBVIOUS
  <2>1. lo \in 0 .. W - 1 /\ hi \in Int /\ hi \in 0 .. W - 1 /\ 0 \in Int
    BY <1>1 DEF Word
  <2>2. (hi * W + lo) % W = lo /\ (hi * W + lo) \div W = hi
    BY <1>1, <2>1, DivisionIsUnique
  <2>3. hi % W = hi
    BY <1>1, <2>1
  <2> QED BY <2>2, <2>3 DEF Lo, Hi, Long
<1>3. \A w \in Word : Lo(w) = w
  BY <1>1 DEF Lo, Word
<1>4. \A w \in Word : (w - W) % W = w
  <2> SUFFICES ASSUME NEW w \in Word PROVE (w - W) % W = w
    OBVIOUS
  <2>1. w \in 0 .. W - 1 /\ -1 \in Int
    BY <1>1 DEF Word
  <2>2. ((-1) * W + w) % W = w
    BY <1>1, <2>1, DivisionIsUnique
  <2>3. (-1) * W + w = w - W
    BY <1>1, <2>1
  <2> QED BY <2>2, <2>3
<1>5. \A w \in Word : Lo(Signed(w)) = w
  BY <1>3, <1>4 DEF Lo, Signed
<1>6. W \div 2 \in 4 .. W - 1 /\ W - 1 >= W \div 2
  BY <1>1
<1>7. \A w \in Word : Signed(w) = -1 <=> w = W - 1
  BY <1>1, <1>6 DEF Signed, Word
<1>8. W - 1 \in Word /\ W - 1 # 0 /\ 0 .. 6 \subseteq Word /\ Words \subseteq Word
  BY <1>1, <1>6 DEF Word, Words
<1>9. Lo(-1) = W - 1
  BY <1>5, <1>7, <1>8
<1>10. Hi(0) = 0
  <2>1. 0 \div W = 0 /\ 0 % W = 0
    BY <1>1
  <2> QED BY <2>1 DEF Hi
<1>11. Signed(0) = 0
  BY <1>6 DEF Signed
<1> QED BY <1>2, <1>3, <1>5, <1>7, <1>8, <1>9, <1>10, <1>11 DEF WordFacts

HandleFacts ==
    /\ \A w \in Word : /\ H16(H32(w)) = Known16(w)
                       /\ H32(Known16(w)) = H32(w)
                       /\ Known16(w) \in Handles /\ Known16(w) \in Word
    /\ \A h \in Handles : h \in Word /\ Known16(h) = h
    /\ \A g, h \in Handles : H32(g) = H32(h) <=> g = h
    /\ 0 \in Handles /\ TheMenu \in Handles /\ TheSub \in Handles
    /\ H32(0) = 0

LEMMA HandlesComeBack == HandleFacts
<1>1. W \in Nat /\ W > 6 /\ MaxHandle \in 2 .. W - 1
  BY WordConstants
<1> DEFINE B == W * W
<1>2. B \in Nat
  BY <1>1
<1>3. \A w : H32(w) = IF w \in 1 .. MaxHandle THEN B + w ELSE 0
  BY DEF H32
<1>4. \A x : H16(x) = IF x > B THEN x - B ELSE 0
  BY DEF H16
<1> HIDE DEF B
<1>5. \A w \in Word : /\ H16(H32(w)) = Known16(w)
                      /\ H32(Known16(w)) = H32(w)
                      /\ Known16(w) \in Handles /\ Known16(w) \in Word
  BY <1>1, <1>2, <1>3, <1>4 DEF Known16, Handles, Word
<1>6. \A h \in Handles : h \in Word /\ Known16(h) = h
  BY <1>1 DEF Known16, Handles, Word
<1>7. \A g, h \in Handles : H32(g) = H32(h) <=> g = h
  BY <1>1, <1>2, <1>3 DEF Handles
<1>8. 0 \in Handles /\ TheMenu \in Handles /\ TheSub \in Handles /\ H32(0) = 0
  BY <1>1, <1>3 DEF Handles, TheMenu, TheSub
<1> QED BY <1>5, <1>6, <1>7, <1>8 DEF HandleFacts

\* What the guest said comes back, kind by kind.
LEMMA GuestComesBack ==
    ASSUME NEW k \in Kinds, NEW wp \in Words, NEW lp \in Longs, Sensible(k, wp, lp)
    PROVE  LET back == Packed(k, Unpacked(k, wp, lp))
           IN  Read16(k, back[1], back[2]) = Read16(k, wp, lp)
<1> DEFINE m == Unpacked(k, wp, lp)
           back == Packed(k, m)
<1>1. WordFacts /\ HandleFacts
  BY WordsComeBack, HandlesComeBack
<1>2. PICK lo \in Word, hi \in Word : lp = Long(lo, hi)
  BY <1>1 DEF Longs, WordFacts
<1>3. /\ Lo(lp) = lo /\ Hi(lp) = hi /\ wp \in Word /\ Lo(wp) = wp
  BY <1>1, <1>2 DEF WordFacts
<1>4. \A w \in Word, v \in Word : Lo(Long(w, v)) = w /\ Hi(Long(w, v)) = v
  BY <1>1 DEF WordFacts
<1> SUFFICES Read16(k, back[1], back[2]) = Read16(k, wp, lp)
  OBVIOUS
<1>5. CASE k \in HandleFirst
  <2>1. m = [w |-> Long(wp, hi), l |-> H32(lo)]
    BY <1>3, <1>5 DEF Unpacked, HandleFirst, InWParam
  <2>2. back = <<wp, Long(Known16(lo), hi)>>
    BY <1>1, <1>3, <1>4, <1>5, <2>1 DEF Packed, HandleFacts, HandleFirst, InWParam
  <2>3. back[1] = wp /\ back[2] = Long(Known16(lo), hi)
    BY <2>2
  <2>4. Known16(lo) \in Word /\ Known16(Known16(lo)) = Known16(lo)
    BY <1>1 DEF HandleFacts
  <2>5. Lo(back[2]) = Known16(lo) /\ Hi(back[2]) = hi
    BY <1>4, <2>3, <2>4
  <2> HIDE DEF back
  <2> QED BY <1>3, <1>5, <2>3, <2>4, <2>5 DEF Read16, HandleFirst, InWParam
<1>6. CASE k \in {"scroll", "menuchar"}
  <2>1. m = [w |-> Long(wp, lo), l |-> H32(hi)]
    BY <1>3, <1>6 DEF Unpacked, HandleFirst, InWParam
  <2>2. back = <<wp, Long(lo, Known16(hi))>>
    BY <1>1, <1>3, <1>4, <1>6, <2>1 DEF Packed, HandleFacts, HandleFirst, InWParam
  <2>3. back[1] = wp /\ back[2] = Long(lo, Known16(hi))
    BY <2>2
  <2>4. Known16(hi) \in Word /\ Known16(Known16(hi)) = Known16(hi)
    BY <1>1 DEF HandleFacts
  <2>5. Lo(back[2]) = lo /\ Hi(back[2]) = Known16(hi)
    BY <1>4, <2>3, <2>4
  <2> HIDE DEF back
  <2> QED BY <1>3, <1>6, <2>3, <2>4, <2>5 DEF Read16, HandleFirst, InWParam
<1>7. CASE k = "menuselect"
  <2> DEFINE pos == PositionOf(H32(hi), H32(wp))
             first == IF IsPopup(lo) /\ pos # -1 THEN pos ELSE wp
             sub == IF IsPopup(lo) THEN SubAt(H32(hi), first) ELSE 0
  <2>0. 1 \in Word
    BY <1>1 DEF WordFacts
  <2>1. first \in Word /\ m = [w |-> Long(first, lo), l |-> H32(hi)]
    BY <1>3, <1>7, <2>0 DEF Unpacked, HandleFirst, InWParam, PositionOf
  <2>2. back = <<IF sub # 0 THEN H16(sub) ELSE first, Long(lo, Known16(hi))>>
    <3>1. Lo(m.w) = first /\ Hi(m.w) = lo /\ m.l = H32(hi) /\ H16(m.l) = Known16(hi)
      BY <1>1, <1>4, <2>1 DEF HandleFacts
    <3> HIDE DEF m, first
    <3> QED BY <1>7, <3>1 DEF Packed, HandleFirst, InWParam
  <2>3. (IF sub # 0 THEN H16(sub) ELSE first) = wp
    <3>1. \A w \in Word : H32(w) = H32(TheMenu) <=> w = TheMenu
      BY <1>1 DEF HandleFacts, Known16, TheMenu
    <3>2. \A w \in Word : H32(w) = H32(TheSub) <=> w = TheSub
      BY <1>1 DEF HandleFacts, Known16, TheSub
    <3>3. H32(TheSub) # 0 /\ H16(H32(TheSub)) = TheSub
      BY <1>1 DEF HandleFacts, TheSub
    <3>4. IsPopup(lo) /\ hi = TheMenu => wp = TheSub
      BY <1>3, <1>7 DEF Sensible
    <3>5. CASE IsPopup(lo) /\ hi = TheMenu
      <4>1. pos = 1 /\ first = 1
        BY <1>3, <3>1, <3>2, <3>4, <3>5 DEF PositionOf
      <4>2. sub = H32(TheSub)
        BY <3>5, <4>1 DEF SubAt
      <4> QED BY <3>3, <3>4, <3>5, <4>2
    <3>6. CASE IsPopup(lo) /\ hi # TheMenu
      <4>1. pos = -1 /\ first = wp
        BY <3>1, <3>6 DEF PositionOf
      <4>2. sub = 0
        BY <3>1, <3>6 DEF SubAt
      <4> QED BY <4>1, <4>2
    <3>7. CASE ~IsPopup(lo)
      BY <3>7
    <3> QED BY <3>5, <3>6, <3>7
  <2> HIDE DEF sub, first
  <2>4. back[1] = wp /\ back[2] = Long(lo, Known16(hi))
    BY <2>2, <2>3
  <2>5. Known16(hi) \in Word /\ Known16(Known16(hi)) = Known16(hi)
    BY <1>1 DEF HandleFacts
  <2>6. Lo(back[2]) = lo /\ Hi(back[2]) = Known16(hi)
    BY <1>4, <2>4, <2>5
  <2> HIDE DEF back
  <2> QED BY <1>3, <1>7, <2>4, <2>5, <2>6 DEF Read16, HandleFirst, InWParam
<1>8. CASE k \in InWParam
  <2>1. m = [w |-> H32(wp), l |-> lp]
    BY <1>3, <1>8 DEF Unpacked, HandleFirst, InWParam
  <2>2. back = <<Known16(wp), lp>>
    BY <1>1, <1>2, <1>3, <1>8, <2>1 DEF Packed, HandleFacts, HandleFirst, InWParam
  <2>3. back[1] = Known16(wp) /\ back[2] = lp
    BY <2>2
  <2>4. Known16(Known16(wp)) = Known16(wp)
    BY <1>1, <1>3 DEF HandleFacts
  <2> HIDE DEF back
  <2> QED BY <1>8, <2>3, <2>4 DEF Read16, HandleFirst, InWParam
<1>9. CASE k \in {"index", "lineindex"}
  <2>1. m.l = lp /\ Lo(m.w) = wp
    BY <1>1, <1>3, <1>9 DEF Unpacked, HandleFirst, InWParam, WordFacts
  <2>2. back = <<wp, lp>>
    BY <1>2, <1>3, <1>9, <2>1 DEF Packed, HandleFirst, InWParam
  <2>3. back[1] = wp /\ back[2] = lp
    BY <2>2
  <2> HIDE DEF back
  <2> QED BY <2>3
<1>10. CASE k = "lb_setsel"
  <2>1. m = [w |-> wp, l |-> Signed(lo)]
    BY <1>3, <1>10 DEF Unpacked, HandleFirst, InWParam
  <2>2. back = <<wp, lo>>
    BY <1>1, <1>3, <1>10, <2>1 DEF Packed, HandleFirst, InWParam, WordFacts
  <2>3. back[1] = wp /\ back[2] = lo /\ Lo(lo) = lo
    BY <1>1, <2>2 DEF WordFacts
  <2> HIDE DEF back
  <2> QED BY <1>3, <1>10, <2>3 DEF Read16, HandleFirst, InWParam
<1>11. CASE k = "linescroll"
  <2>1. m = [w |-> Signed(hi), l |-> Signed(lo)]
    BY <1>3, <1>11 DEF Unpacked, HandleFirst, InWParam
  <2>2. back = <<0, lp>>
    BY <1>1, <1>2, <1>11, <2>1 DEF Packed, HandleFirst, InWParam, WordFacts
  <2>3. back[1] = 0 /\ back[2] = lp
    BY <2>2
  <2> HIDE DEF back
  <2> QED BY <1>11, <2>3 DEF Read16, HandleFirst, InWParam
<1>12. CASE k = "setsel"
  <2>1. CASE lo = W - 1
    <3>1. m = [w |-> -1, l |-> 0]
      BY <1>1, <1>3, <1>12, <2>1 DEF Unpacked, HandleFirst, InWParam, WordFacts
    <3>2. back = <<0, Long(W - 1, 0)>>
      BY <1>1, <1>12, <3>1 DEF Packed, HandleFirst, InWParam, WordFacts
    <3>3. back[1] = 0 /\ Lo(back[2]) = W - 1
      BY <1>1, <1>4, <3>2 DEF WordFacts
    <3> HIDE DEF back
    <3> QED BY <1>3, <1>12, <2>1, <3>3 DEF Read16, HandleFirst, InWParam
  <2>2. CASE lo # W - 1
    <3>1. m = [w |-> lo, l |-> Signed(hi)]
      BY <1>1, <1>3, <1>12, <2>2 DEF Unpacked, HandleFirst, InWParam, WordFacts
    <3>2. back = <<0, lp>>
      BY <1>1, <1>2, <1>12, <3>1 DEF Packed, HandleFirst, InWParam, WordFacts
    <3>3. back[1] = 0 /\ back[2] = lp
      BY <3>2
    <3> HIDE DEF back
    <3> QED BY <1>12, <3>3 DEF Read16, HandleFirst, InWParam
  <2> QED BY <2>1, <2>2
<1>13. CASE k = "enteridle"
  <2>1. m = [w |-> wp, l |-> H32(lo)]
    BY <1>3, <1>13 DEF Unpacked, HandleFirst, InWParam
  <2>2. back = <<wp, Known16(lo)>>
    BY <1>1, <1>3, <1>13, <2>1 DEF Packed, HandleFirst, InWParam, HandleFacts
  <2>3. back[1] = wp /\ back[2] = Known16(lo)
    BY <2>2
  <2>4. Lo(Known16(lo)) = Known16(lo) /\ Known16(Known16(lo)) = Known16(lo)
    BY <1>1 DEF HandleFacts, WordFacts
  <2> HIDE DEF back
  <2> QED BY <1>3, <1>13, <2>3, <2>4 DEF Read16, HandleFirst, InWParam
<1>14. CASE k = "ctlcolor"
  <2> DEFINE type == IF hi > 6 THEN 6 ELSE hi
  <2>1. m = [w |-> H32(wp), l |-> H32(lo), type |-> type]
    BY <1>3, <1>14 DEF Unpacked, HandleFirst, InWParam
  <2>2. type \in Word /\ (IF type > 6 THEN 6 ELSE type) = type
    BY WordConstants DEF Word
  <2> HIDE DEF type
  <2>3. back = <<Known16(wp), Long(Known16(lo), type)>>
    BY <1>1, <1>3, <1>14, <2>1 DEF Packed, HandleFirst, InWParam, HandleFacts
  <2>4. back[1] = Known16(wp) /\ back[2] = Long(Known16(lo), type)
    BY <2>3
  <2>5. /\ Known16(lo) \in Word /\ Known16(Known16(lo)) = Known16(lo)
        /\ Known16(Known16(wp)) = Known16(wp)
    BY <1>1, <1>3 DEF HandleFacts
  <2>6. Lo(back[2]) = Known16(lo) /\ Hi(back[2]) = type
    BY <1>4, <2>2, <2>4, <2>5
  <2> HIDE DEF back
  <2> QED BY <1>3, <1>14, <2>2, <2>4, <2>5, <2>6 DEF Read16, HandleFirst, InWParam, type
<1>15. CASE k = "getdlgcode"
  BY <1>15 DEF Read16, HandleFirst, InWParam
<1>16. CASE k = "activateapp"
  <2>1. m = [w |-> wp, l |-> lp]
    BY <1>16 DEF Unpacked, HandleFirst, InWParam
  <2>2. back = <<wp, 0>>
    BY <1>3, <1>16, <2>1 DEF Packed, HandleFirst, InWParam
  <2>3. back[1] = wp
    BY <2>2
  <2> HIDE DEF back
  <2> QED BY <1>16, <2>3 DEF Read16, HandleFirst, InWParam
<1>17. CASE k \in {"click", "plain"}
  <2>1. m = [w |-> wp, l |-> lp]
    BY <1>17 DEF Unpacked, HandleFirst, InWParam
  <2>2. back = <<wp, lp>>
    BY <1>2, <1>3, <1>17, <2>1 DEF Packed, HandleFirst, InWParam
  <2>3. back[1] = wp /\ back[2] = lp
    BY <2>2
  <2> HIDE DEF back
  <2> QED BY <2>3
<1> QED
  BY <1>5, <1>6, <1>7, <1>8, <1>9, <1>10, <1>11, <1>12, <1>13, <1>14, <1>15, <1>16, <1>17
  DEF Kinds

\* And so does what the host meant.
LEMMA HostComesBack ==
    ASSUME NEW k \in Kinds, NEW m \in HostOf(k)
    PROVE  LET p == Packed(k, m) IN Unpacked(k, p[1], p[2]) = m
<1> DEFINE p == Packed(k, m)
           hands == {H32(h) : h \in Handles}
<1> SUFFICES Unpacked(k, p[1], p[2]) = m
  OBVIOUS
<1>1. WordFacts /\ HandleFacts
  BY WordsComeBack, HandlesComeBack
<1>2. /\ \A x \in Longs : \E lo, hi \in Word : x = Long(lo, hi)
      /\ \A x \in Longs : Long(Lo(x), Hi(x)) = x
  BY <1>1 DEF Longs, WordFacts
<1>3. \A w \in Word, v \in Word : Lo(Long(w, v)) = w /\ Hi(Long(w, v)) = v
  BY <1>1 DEF WordFacts
<1>4. \A h \in Handles : h \in Word /\ H16(H32(h)) = h
  BY <1>1 DEF HandleFacts
<1>5. CASE k \in HandleFirst \cup {"scroll", "menuchar", "menuselect"}
  <2>1. m \in [w : Longs, l : hands]
        /\ (k = "menuselect" /\ IsPopup(Hi(m.w)) /\ m.l = H32(TheMenu) => Lo(m.w) = 1)
    BY <1>5 DEF HostOf, HandleFirst, InWParam, Longs
  <2>2. PICK lo \in Word, hi \in Word, h \in Handles : m.w = Long(lo, hi) /\ m.l = H32(h)
    BY <1>2, <2>1
  <2>3. m = [w |-> Long(lo, hi), l |-> H32(h)]
    BY <2>1, <2>2
  <2>4. Lo(m.w) = lo /\ Hi(m.w) = hi /\ H16(m.l) = h /\ h \in Word
    BY <1>3, <1>4, <2>2
  <2>5. CASE k \in HandleFirst
    <3>1. p = <<lo, Long(h, hi)>>
      BY <2>4, <2>5 DEF Packed, HandleFirst, InWParam
    <3>2. p[1] = lo /\ Lo(p[2]) = h /\ Hi(p[2]) = hi
      BY <1>3, <2>4, <3>1
    <3> HIDE DEF p
    <3> QED BY <2>3, <2>5, <3>2 DEF Unpacked, HandleFirst, InWParam
  <2>6. CASE k \in {"scroll", "menuchar"}
    <3>1. p = <<lo, Long(hi, h)>>
      BY <2>4, <2>6 DEF Packed, HandleFirst, InWParam
    <3>2. p[1] = lo /\ Lo(p[2]) = hi /\ Hi(p[2]) = h
      BY <1>3, <2>4, <3>1
    <3> HIDE DEF p
    <3> QED BY <2>3, <2>6, <3>2 DEF Unpacked, HandleFirst, InWParam
  <2>7. CASE k = "menuselect"
    <3> DEFINE sub == IF IsPopup(hi) THEN SubAt(H32(h), lo) ELSE 0
               back == IF sub # 0 THEN H16(sub) ELSE lo
    <3>1. p = <<back, Long(hi, h)>>
      BY <2>2, <2>4, <2>7 DEF Packed, HandleFirst, InWParam
    <3> HIDE DEF back
    <3>2. p[1] = back /\ Lo(p[2]) = hi /\ Hi(p[2]) = h
      BY <1>3, <2>4, <3>1
    <3> HIDE DEF p
    <3> DEFINE pos == PositionOf(H32(h), H32(back))
    <3>3. Unpacked(k, p[1], p[2]) =
            [w |-> Long(IF IsPopup(hi) /\ pos # -1 THEN pos ELSE back, hi), l |-> H32(h)]
      BY <2>7, <3>2 DEF Unpacked, HandleFirst, InWParam
    <3>4. (IF IsPopup(hi) /\ pos # -1 THEN pos ELSE back) = lo
      <4>1. H32(h) = H32(TheMenu) <=> h = TheMenu
        BY <1>1 DEF HandleFacts
      <4>2. H32(TheSub) # 0 /\ H16(H32(TheSub)) = TheSub
        BY <1>1 DEF HandleFacts, TheSub
      <4>3. IsPopup(hi) /\ h = TheMenu => lo = 1
        BY <2>1, <2>2, <2>4, <2>7, <4>1
      <4>4. CASE IsPopup(hi) /\ h = TheMenu
        <5>1. sub = H32(TheSub)
          BY <4>1, <4>3, <4>4 DEF SubAt
        <5>2. back = TheSub
          BY <4>2, <5>1 DEF back
        <5>3. pos = 1
          BY <4>1, <4>4, <5>2 DEF PositionOf
        <5> QED BY <4>3, <4>4, <5>3
      <4>5. CASE IsPopup(hi) /\ h # TheMenu
        <5>1. sub = 0 /\ pos = -1
          BY <4>1, <4>5 DEF SubAt, PositionOf
        <5> QED BY <5>1 DEF back
      <4>6. CASE ~IsPopup(hi)
        BY <4>6 DEF back
      <4> QED BY <4>4, <4>5, <4>6
    <3> QED BY <2>3, <3>3, <3>4
  <2> QED BY <1>5, <2>5, <2>6, <2>7
<1>6. CASE k \in InWParam
  <2>1. m \in [w : hands, l : Longs]
    BY <1>6 DEF HostOf, HandleFirst, InWParam
  <2>2. PICK h \in Handles : m.w = H32(h)
    BY <2>1
  <2>3. p = <<h, m.l>>
    BY <1>2, <1>4, <1>6, <2>1, <2>2 DEF Packed, HandleFirst, InWParam
  <2>4. p[1] = h /\ p[2] = m.l
    BY <2>3
  <2> HIDE DEF p
  <2> QED BY <1>6, <2>1, <2>2, <2>4 DEF Unpacked, HandleFirst, InWParam
<1>7. CASE k = "index"
  <2>1. m \in [w : {Signed(x) : x \in Words}, l : Longs]
    BY <1>7 DEF HostOf, HandleFirst, InWParam
  <2>2. PICK x \in Word : m.w = Signed(x)
    BY <1>1, <2>1 DEF WordFacts
  <2>3. p = <<x, m.l>>
    BY <1>1, <1>2, <1>7, <2>1, <2>2 DEF Packed, HandleFirst, InWParam, WordFacts
  <2>4. p[1] = x /\ p[2] = m.l
    BY <2>3
  <2> HIDE DEF p
  <2> QED BY <1>7, <2>1, <2>2, <2>4 DEF Unpacked, HandleFirst, InWParam
<1>8. CASE k = "lineindex"
  <2>1. m \in [w : {-1} \cup (Words \ {W - 1}), l : Longs]
    BY <1>8 DEF HostOf, HandleFirst, InWParam
  <2>2. (IF Lo(m.w) = W - 1 THEN -1 ELSE Lo(m.w)) = m.w
    BY <1>1, <2>1 DEF WordFacts
  <2>3. p = <<Lo(m.w), m.l>>
    BY <1>2, <1>8, <2>1 DEF Packed, HandleFirst, InWParam
  <2>4. p[1] = Lo(m.w) /\ p[2] = m.l
    BY <2>3
  <2> HIDE DEF p
  <2> QED BY <1>8, <2>1, <2>2, <2>4 DEF Unpacked, HandleFirst, InWParam
<1>9. CASE k = "lb_setsel"
  <2>1. m \in [w : Words, l : {Signed(x) : x \in Words}]
    BY <1>9 DEF HostOf, HandleFirst, InWParam
  <2>2. PICK x \in Word : m.l = Signed(x)
    BY <1>1, <2>1 DEF WordFacts
  <2>3. p = <<m.w, x>>
    BY <1>1, <1>9, <2>1, <2>2 DEF Packed, HandleFirst, InWParam, WordFacts
  <2>4. p[1] = m.w /\ p[2] = x /\ Lo(x) = x
    BY <1>1, <2>3 DEF WordFacts
  <2> HIDE DEF p
  <2> QED BY <1>9, <2>1, <2>2, <2>4 DEF Unpacked, HandleFirst, InWParam
<1>10. CASE k = "linescroll"
  <2>1. m \in [w : {Signed(x) : x \in Words}, l : {Signed(x) : x \in Words}]
    BY <1>10 DEF HostOf, HandleFirst, InWParam
  <2>2. PICK x \in Word, y \in Word : m.w = Signed(x) /\ m.l = Signed(y)
    BY <1>1, <2>1 DEF WordFacts
  <2>3. p = <<0, Long(y, x)>>
    BY <1>1, <1>10, <2>2 DEF Packed, HandleFirst, InWParam, WordFacts
  <2>4. Lo(p[2]) = y /\ Hi(p[2]) = x
    BY <1>3, <2>3
  <2> HIDE DEF p
  <2> QED BY <1>10, <2>1, <2>2, <2>4 DEF Unpacked, HandleFirst, InWParam
<1>11. CASE k = "setsel"
  <2>1. \/ m \in [w : Words \ {W - 1}, l : {Signed(x) : x \in Words}]
        \/ m = [w |-> -1, l |-> 0]
    BY <1>11 DEF HostOf, HandleFirst, InWParam
  <2>2. CASE m \in [w : Words \ {W - 1}, l : {Signed(x) : x \in Words}]
    <3>1. PICK y \in Word : m.l = Signed(y)
      BY <1>1, <2>2 DEF WordFacts
    <3>2. m.w \in Word /\ m.w # W - 1 /\ Lo(m.w) = m.w
      BY <1>1, <2>2 DEF WordFacts
    <3>3. p = <<0, Long(m.w, y)>>
      BY <1>1, <1>11, <3>1, <3>2 DEF Packed, HandleFirst, InWParam, WordFacts
    <3>4. Lo(p[2]) = m.w /\ Hi(p[2]) = y /\ Signed(m.w) # -1
      BY <1>1, <1>3, <3>2, <3>3 DEF WordFacts
    <3> HIDE DEF p
    <3> QED BY <1>11, <2>2, <3>1, <3>4 DEF Unpacked, HandleFirst, InWParam
  <2>3. CASE m = [w |-> -1, l |-> 0]
    <3>1. Lo(m.w) = W - 1 /\ Lo(m.l) = 0 /\ 0 \in Word
      BY <1>1, <2>3 DEF WordFacts
    <3>2. p = <<0, Long(W - 1, 0)>>
      BY <1>11, <3>1 DEF Packed, HandleFirst, InWParam
    <3>3. Lo(p[2]) = W - 1 /\ Signed(W - 1) = -1
      BY <1>1, <1>3, <3>1, <3>2 DEF WordFacts
    <3> HIDE DEF p
    <3> QED BY <1>11, <2>3, <3>3 DEF Unpacked, HandleFirst, InWParam
  <2> QED BY <2>1, <2>2, <2>3
<1>12. CASE k = "enteridle"
  <2>1. m \in [w : Words, l : hands]
    BY <1>12 DEF HostOf, HandleFirst, InWParam
  <2>2. PICK h \in Handles : m.l = H32(h)
    BY <2>1
  <2>3. p = <<m.w, h>>
    BY <1>1, <1>4, <1>12, <2>1, <2>2 DEF Packed, HandleFirst, InWParam, WordFacts
  <2>4. p[1] = m.w /\ p[2] = h /\ Lo(h) = h
    BY <1>1, <1>4, <2>3 DEF WordFacts
  <2> HIDE DEF p
  <2> QED BY <1>12, <2>1, <2>2, <2>4 DEF Unpacked, HandleFirst, InWParam
<1>13. CASE k = "ctlcolor"
  <2>1. m \in [w : hands, l : hands, type : 0 .. 6]
    BY <1>13 DEF HostOf, HandleFirst, InWParam
  <2>2. PICK g \in Handles, h \in Handles : m.w = H32(g) /\ m.l = H32(h)
    BY <2>1
  <2>3. p = <<g, Long(h, m.type)>>
    BY <1>4, <1>13, <2>2 DEF Packed, HandleFirst, InWParam
  <2>4. m.type \in Word /\ ~(m.type > 6)
    BY <1>1, <2>1 DEF WordFacts
  <2>5. p[1] = g /\ Lo(p[2]) = h /\ Hi(p[2]) = m.type
    BY <1>3, <1>4, <2>3, <2>4
  <2> HIDE DEF p
  <2> QED BY <1>13, <2>1, <2>2, <2>4, <2>5 DEF Unpacked, HandleFirst, InWParam
<1>14. CASE k = "getdlgcode"
  <2>1. m = [w |-> 0, l |-> 0]
    BY <1>14 DEF HostOf, HandleFirst, InWParam
  <2>2. p = <<0, 0>>
    BY <1>14 DEF Packed, HandleFirst, InWParam
  <2>3. p[1] = 0 /\ p[2] = 0
    BY <2>2
  <2> HIDE DEF p
  <2> QED BY <1>14, <2>1, <2>3 DEF Unpacked, HandleFirst, InWParam
<1>15. CASE k = "activateapp"
  <2>1. m \in [w : Words, l : {0}]
    BY <1>15 DEF HostOf, HandleFirst, InWParam
  <2>2. p = <<m.w, 0>>
    BY <1>1, <1>15, <2>1 DEF Packed, HandleFirst, InWParam, WordFacts
  <2>3. p[1] = m.w /\ p[2] = 0
    BY <2>2
  <2> HIDE DEF p
  <2> QED BY <1>15, <2>1, <2>3 DEF Unpacked, HandleFirst, InWParam
<1>16. CASE k \in {"click", "plain"}
  <2>1. m \in [w : Words, l : Longs]
    BY <1>16 DEF HostOf, HandleFirst, InWParam
  <2>2. p = <<m.w, m.l>>
    BY <1>1, <1>2, <1>16, <2>1 DEF Packed, HandleFirst, InWParam, WordFacts
  <2>3. p[1] = m.w /\ p[2] = m.l
    BY <2>2
  <2> HIDE DEF p
  <2> QED BY <1>16, <2>1, <2>3 DEF Unpacked, HandleFirst, InWParam
<1> QED
  BY <1>5, <1>6, <1>7, <1>8, <1>9, <1>10, <1>11, <1>12, <1>13, <1>14, <1>15, <1>16 DEF Kinds

\* The numbers of the controls' messages, as far as they matter here.
Row(b, cls, first32, first16, count) ==
    b.cls = cls /\ b.msg32 = first32 /\ b.msg16 = first16 /\ b.count = count

AnyRow(b) ==
    \/ Row(b, "Edit", 176, 1024, 35) \/ Row(b, "ScrollBar", 224, 1024, 5)
    \/ Row(b, "Button", 240, 1024, 5) \/ Row(b, "ComboBox", 320, 1024, 25)
    \/ Row(b, "Static", 368, 1024, 2) \/ Row(b, "ListBox", 384, 1025, 37)
    \/ Row(b, "ComboLBox", 384, 1025, 37)

LEMMA Rows ==
    /\ \A b \in CtlBlocks : AnyRow(b)
    /\ \A b \in CtlBlocks : b.msg32 \in Nat /\ b.msg16 \in Nat /\ b.count \in Nat
    /\ \A c \in CtlBlocks, b \in CtlBlocks : c.cls = b.cls => c = b
<1>1. \A b \in CtlBlocks : AnyRow(b)
  BY DEF CtlBlocks, Block, AnyRow, Row
<1>2. \A b \in CtlBlocks : b.msg32 \in Nat /\ b.msg16 \in Nat /\ b.count \in Nat
  BY DEF CtlBlocks, Block
<1>3. \A c \in CtlBlocks, b \in CtlBlocks : c.cls = b.cls => c = b
  BY DEF CtlBlocks, Block
<1> QED BY <1>1, <1>2, <1>3

\* A number of the host's in a block is that block's in sixteen bits, whichever
\* block with it is found; one in none stays as it is.
LEMMA To16 ==
    ASSUME NEW n \in Nat
    PROVE  /\ \A b \in CtlBlocks : In(n, b.msg32, b.count) => Msg32To16(n) = n - b.msg32 + b.msg16
           /\ (\A b \in CtlBlocks : ~In(n, b.msg32, b.count)) => Msg32To16(n) = n
           /\ n >= WM_USER => \A b \in CtlBlocks : ~In(n, b.msg32, b.count)
<1>1. ASSUME NEW b \in CtlBlocks, In(n, b.msg32, b.count)
      PROVE  Msg32To16(n) = n - b.msg32 + b.msg16
  <2> DEFINE c == CHOOSE x \in CtlBlocks : In(n, x.msg32, x.count)
  <2>1. c \in CtlBlocks /\ In(n, c.msg32, c.count)
    BY <1>1
  <2>2. Msg32To16(n) = n - c.msg32 + c.msg16
    BY <1>1 DEF Msg32To16
  <2> HIDE DEF c
  <2>3. AnyRow(b) /\ AnyRow(c)
    BY <2>1, Rows
  <2>4. n \in b.msg32 .. b.msg32 + b.count - 1 /\ n \in c.msg32 .. c.msg32 + c.count - 1
    BY <1>1, <2>1 DEF In
  <2>5. c.msg32 = b.msg32 /\ c.msg16 = b.msg16
    BY <2>3, <2>4 DEF AnyRow, Row
  <2> QED BY <2>2, <2>5
<1>2. (\A b \in CtlBlocks : ~In(n, b.msg32, b.count)) => Msg32To16(n) = n
  BY DEF Msg32To16
<1>3. ASSUME n >= WM_USER, NEW b \in CtlBlocks PROVE ~In(n, b.msg32, b.count)
  <2>1. AnyRow(b)
    BY Rows
  <2> QED BY <1>3, <2>1 DEF AnyRow, Row, In, WM_USER
<1> QED BY <1>1, <1>2, <1>3

LEMMA NumbersComeBack ==
    ASSUME NEW cls, NEW n \in 0 .. WM_USER + 128,
           n >= WM_USER \/ (Known(n) /\ Msg32To16(n) = n)
    PROVE  LET out == Msg16To32(cls, n)
           IN  /\ Msg32To16(out) = n
               /\ MsgWin16(out)
               /\ \A b \in CtlBlocks : out # n /\ In(out, b.msg32, b.count) =>
                     \E own \in CtlBlocks : own.cls = cls /\ own.msg32 = b.msg32
<1> DEFINE out == Msg16To32(cls, n)
<1>0. n \in Nat /\ n <= 1152
  BY DEF WM_USER
<1>1. CASE \E b \in CtlBlocks : b.cls = cls /\ In(n, b.msg16, b.count)
  <2> DEFINE c == CHOOSE x \in CtlBlocks : x.cls = cls
  <2>1. PICK b \in CtlBlocks : b.cls = cls /\ In(n, b.msg16, b.count)
    BY <1>1
  <2>2. c \in CtlBlocks /\ c.cls = cls
    BY <2>1
  <2>3. c = b
    BY <2>1, <2>2, Rows
  <2>4. out = n - b.msg16 + b.msg32
    BY <1>1, <2>3 DEF Msg16To32
  <2> HIDE DEF out
  <2>5. AnyRow(b) /\ n \in b.msg16 .. b.msg16 + b.count - 1
    BY <2>1, Rows DEF In
  <2>6. out \in Nat /\ out < 1024 /\ n >= 1024 /\ In(out, b.msg32, b.count)
        /\ out - b.msg32 + b.msg16 = n
    BY <1>0, <2>4, <2>5 DEF AnyRow, Row, In
  <2>7. Msg32To16(out) = n
    BY <2>6, To16
  <2>8. MsgWin16(out)
    BY <2>6, <2>7 DEF MsgWin16, WM_USER
  <2>9. ASSUME NEW a \in CtlBlocks, In(out, a.msg32, a.count) PROVE a.msg32 = b.msg32
    <3>1. AnyRow(a) /\ out \in a.msg32 .. a.msg32 + a.count - 1
          /\ out \in b.msg32 .. b.msg32 + b.count - 1
      BY <2>6, <2>9, Rows DEF In
    <3> QED BY <2>5, <3>1 DEF AnyRow, Row
  <2> QED BY <2>1, <2>7, <2>8, <2>9 DEF out
<1>2. CASE ~ \E b \in CtlBlocks : b.cls = cls /\ In(n, b.msg16, b.count)
  <2>1. out = n
    BY <1>2 DEF Msg16To32
  <2>2. Msg32To16(n) = n
    BY <1>0, To16
  <2>3. MsgWin16(n)
    BY <1>0, <2>2 DEF MsgWin16, WM_USER
  <2> QED BY <2>1, <2>2, <2>3
<1> QED BY <1>1, <1>2

\* msg16_unpack, msg_to_16_values and the ctlblocks, for words of every size
\* and every number of handles: a message's words and its number survive the
\* way to the other side and back.
THEOREM ValuesAlwaysKept == ValuesAny => ValuesKept
<1> SUFFICES ASSUME ValuesAny PROVE ValuesKept
  OBVIOUS
<1>1. ASSUME NEW k \in Kinds, NEW wp \in Words, NEW lp \in Longs, Sensible(k, wp, lp),
             q = [way |-> "guest", k |-> k, wp |-> wp, lp |-> lp]
      PROVE  ValuesKept
  <2>1. q.way = "guest" /\ q.k = k /\ q.wp = wp /\ q.lp = lp
    BY <1>1
  <2>2. GuestWordsKept
    BY <1>1, <2>1, GuestComesBack DEF GuestWordsKept
  <2> QED BY <2>1, <2>2 DEF ValuesKept, HostWordsKept, NumbersKept
<1>2. ASSUME NEW k \in Kinds, NEW m \in HostOf(k), q = [way |-> "host", k |-> k, m |-> m]
      PROVE  ValuesKept
  <2>1. q.way = "host" /\ q.k = k /\ q.m = m
    BY <1>2
  <2>2. HostWordsKept
    BY <2>1, HostComesBack DEF HostWordsKept
  <2> QED BY <2>1, <2>2 DEF ValuesKept, GuestWordsKept, NumbersKept
<1>3. ASSUME NEW cls \in Classes, NEW n \in 0 .. WM_USER + 128,
             q = [way |-> "number", cls |-> cls, n |-> n]
      PROVE  ValuesKept
  <2>1. q.way = "number" /\ q.cls = cls /\ q.n = n
    BY <1>3
  <2>2. NumbersKept
    BY <2>1, NumbersComeBack DEF NumbersKept
  <2> QED BY <2>1, <2>2 DEF ValuesKept, GuestWordsKept, HostWordsKept
<1> QED BY <1>1, <1>2, <1>3 DEF ValuesAny

-----------------------------------------------------------------------------
(* A message's way: what the frames on the stack say of each other.         *)

FwdSpecification == FwdInit /\ [][FwdStep]_fwdVars

Hows == {"send", "sent", "proc", "default"}
Flags == {0, 1}
GuestCall == [who : {"guest"}, hwnd : Edits \cup Owns, msg : Messages, wp : Flags, lp : Int,
              wide : Nat, copy : Narrowed, before : Narrowed, want : Nat, noted : BOOLEAN,
              passed : Nat, sent : {-1, 0, 1}, mixed : BOOLEAN]
HostDoing == [who : {"host"}, how : Hows, hwnd : Edits \cup Owns,
              msg : Messages, wp : Flags, lp : Int, of : Nat, after : BOOLEAN, read : Int,
              asker : Nat, same : BOOLEAN]
Frame == GuestCall \cup HostDoing
Queued == [hwnd : Edits, msg : {"setsel"}, lp : {10, 11}]
            \cup [hwnd : Edits, msg : {"caret"}, lp : {0}]

Selecting == [hwnd : Edits \cup {"none"}, ends : Int, flag : Flags]

FwdTypes ==
    /\ stack \in Seq(Frame)
    /\ inflight \in Seq(Nat)
    /\ setselOut \in Selecting
    /\ queue \in Seq(Queued)
    /\ subclassed \in SUBSET Edits
    /\ asked \in 0 .. MaxAsked /\ scrolled \in Nat /\ tampered \in BOOLEAN
    /\ kinds \in SUBSET (Messages \ {"caret"})

\* What is remembered of s are its calls that found room, in their order.
Remembers(s, inf) ==
    /\ \A k \in 1 .. Len(inf) : inf[k] \in 1 .. Len(s) /\ s[inf[k]] \in GuestCall /\ s[inf[k]].noted
    /\ \A k, m \in 1 .. Len(inf) : k < m => inf[k] < inf[m]
    /\ \A i \in 1 .. Len(s) :
         s[i] \in GuestCall /\ s[i].noted => \E k \in 1 .. Len(inf) : inf[k] = i

\* A message passed on by the call under it: the originals it hands back are its
\* own if it is remembered, and another's only if it is not, which makes that
\* one mixed; and what was last written is in the structure.
PassedOnRight(h, i, g, f) ==
    /\ i > 1 /\ h.asker = i - 1 /\ g \in GuestCall /\ g.passed > 0 /\ h.msg = g.msg
    /\ h.same /\ g.noted => h.of = i - 1
    /\ h.read > 0 => ~g.noted
    /\ h.of # 0 => h.of \in 1 .. i - 1 /\ f \in GuestCall /\ f.noted /\ f.msg = h.msg
    /\ h.of \notin {0, i - 1} => f.mixed /\ ~g.noted
    /\ h.of = i - 1 /\ h.msg = "answer" /\ ~g.mixed => g.wide = g.want

\* The copy a remembered call has of its structure says what was written last.
CopyRight(g) ==
    g.msg = "answer" /\ g.noted /\ ~g.mixed =>
        /\ g.want = Widened(g, g.copy)
        /\ g.passed = 0 => g.before = Narrow(g.wide)

Passing == {"proc", "default"}

FrameRight(s, i) ==
    /\ s[i] \in GuestCall => CopyRight(s[i])
    /\ s[i] \in HostDoing /\ s[i].how \in Passing => PassedOnRight(s[i], i, s[i - 1], s[s[i].of])
    /\ s[i] \in HostDoing /\ s[i].how \notin Passing =>
         s[i].of = 0 /\ s[i].read = 0 /\ s[i].msg # "answer"

FramesRight(s) == \A i \in 1 .. Len(s) : FrameRight(s, i)

FwdInv == FwdTypes /\ Remembers(stack, inflight) /\ FramesRight(stack)

LEMMA GuestFacts ==
    \A f \in GuestCall :
        /\ f.who = "guest" /\ f.hwnd \in Edits \cup Owns /\ f.msg \in Messages /\ f.wp \in Flags
        /\ f.lp \in Int /\ f.wide \in Nat /\ f.copy \in Narrowed /\ f.before \in Narrowed
        /\ f.want \in Nat /\ f.noted \in BOOLEAN /\ f.passed \in Nat /\ f.sent \in {-1, 0, 1}
        /\ f.mixed \in BOOLEAN
BY DEF GuestCall

LEMMA HostFacts ==
    \A f \in HostDoing :
        /\ f.who = "host" /\ f.how \in Hows
        /\ f.hwnd \in Edits \cup Owns /\ f.msg \in Messages /\ f.wp \in Flags /\ f.lp \in Int
        /\ f.of \in Nat /\ f.after \in BOOLEAN /\ f.read \in Int /\ f.asker \in Nat
        /\ f.same \in BOOLEAN
BY DEF HostDoing

LEMMA TwoKinds ==
    \A f \in Frame : /\ f.who = "guest" <=> f \in GuestCall
                     /\ f.who = "host" <=> f \in HostDoing
                     /\ f \in GuestCall <=> f \notin HostDoing
<1>1. \A f \in Frame : f \in GuestCall \/ f \in HostDoing
  BY DEF Frame
<1>2. "guest" # "host"
  OBVIOUS
<1> QED BY <1>1, <1>2, GuestFacts, HostFacts, Zenon

-----------------------------------------------------------------------------
(* The stack grows by one.                                                  *)

LEMMA Grown ==
    ASSUME NEW S, NEW s \in Seq(S), NEW x \in S
    PROVE  /\ Append(s, x) \in Seq(S) /\ Len(Append(s, x)) = Len(s) + 1
           /\ Append(s, x)[Len(s) + 1] = x
           /\ \A i \in 1 .. Len(s) : Append(s, x)[i] = s[i]
OBVIOUS

LEMMA OlderRight ==
    ASSUME NEW s \in Seq(Frame), NEW t \in Seq(Frame), NEW i \in 1 .. Len(s),
           Len(s) <= Len(t), \A j \in 1 .. Len(s) : t[j] = s[j], FrameRight(s, i)
    PROVE  FrameRight(t, i)
<1>1. t[i] = s[i] /\ s[i] \in Frame /\ Len(s) \in Nat /\ i \in Nat
  OBVIOUS
<1>2. CASE s[i] \in HostDoing /\ s[i].how \in Passing
  <2>1. PassedOnRight(s[i], i, s[i - 1], s[s[i].of])
    BY <1>2 DEF FrameRight
  <2>2. i > 1 /\ i - 1 \in 1 .. Len(s)
    BY <2>1 DEF PassedOnRight
  <2>3. t[i - 1] = s[i - 1]
    BY <2>2
  <2>4. s[i].of \in Nat
    BY <1>2, HostFacts
  <2>5. CASE s[i].of = 0
    <3>1. PassedOnRight(s[i], i, s[i - 1], t[s[i].of])
      BY <2>1, <2>5, Zenon DEF PassedOnRight
    <3> QED BY <1>1, <1>2, <2>3, <3>1, TwoKinds DEF FrameRight
  <2>6. CASE s[i].of # 0
    <3>1. s[i].of \in 1 .. Len(s)
      BY <2>1, <2>6 DEF PassedOnRight
    <3>2. t[s[i].of] = s[s[i].of]
      BY <3>1
    <3> QED BY <1>1, <1>2, <2>1, <2>3, <3>2, TwoKinds DEF FrameRight
  <2> QED BY <2>5, <2>6
<1>3. CASE ~(s[i] \in HostDoing /\ s[i].how \in Passing)
  BY <1>1, <1>3 DEF FrameRight
<1> QED BY <1>2, <1>3

LEMMA PushKeeps ==
    ASSUME NEW s \in Seq(Frame), NEW f \in Frame, FramesRight(s),
           FrameRight(Append(s, f), Len(s) + 1)
    PROVE  FramesRight(Append(s, f))
<1> DEFINE t == Append(s, f)
<1>1. /\ t \in Seq(Frame) /\ Len(t) = Len(s) + 1 /\ Len(s) \in Nat
      /\ \A i \in 1 .. Len(s) : t[i] = s[i]
  BY Grown
<1> HIDE DEF t
<1>2. \A i \in 1 .. Len(s) : FrameRight(t, i)
  <2>1. \A i \in 1 .. Len(s) : FrameRight(s, i)
    BY DEF FramesRight
  <2>2. Len(s) <= Len(t)
    BY <1>1
  <2> QED BY <1>1, <2>1, <2>2, OlderRight
<1>3. \A i \in 1 .. Len(t) : i \in 1 .. Len(s) \/ i = Len(s) + 1
  BY <1>1
<1>4. FrameRight(t, Len(s) + 1)
  BY DEF t
<1> QED BY <1>2, <1>3, <1>4 DEF FramesRight, t

\* What is remembered when the host begins to do something, and when a call
\* begins that has room to be remembered or has not.
LEMMA HostForgotten ==
    ASSUME NEW s \in Seq(Frame), NEW inf \in Seq(Nat), NEW h \in HostDoing, Remembers(s, inf)
    PROVE  Remembers(Append(s, h), inf)
<1> DEFINE t == Append(s, h)
<1>0. h \in Frame /\ h \notin GuestCall
  BY TwoKinds DEF Frame
<1>1. /\ t \in Seq(Frame) /\ Len(t) = Len(s) + 1 /\ Len(s) \in Nat
      /\ t[Len(s) + 1] = h /\ \A i \in 1 .. Len(s) : t[i] = s[i]
  BY <1>0, Grown
<1> HIDE DEF t
<1>2. \A i \in 1 .. Len(t) : i \in 1 .. Len(s) \/ i = Len(s) + 1
  BY <1>1
<1>3. \A i \in 1 .. Len(s) : i \in 1 .. Len(t)
  BY <1>1
<1>4. Remembers(t, inf)
  BY <1>0, <1>1, <1>2, <1>3 DEF Remembers
<1> QED BY <1>4 DEF t

LEMMA CallRemembered ==
    ASSUME NEW s \in Seq(Frame), NEW inf \in Seq(Nat), NEW g \in GuestCall, Remembers(s, inf)
    PROVE  /\ g.noted => Remembers(Append(s, g), Append(inf, Len(s) + 1))
           /\ ~g.noted => Remembers(Append(s, g), inf)
<1> DEFINE t == Append(s, g)
           n == Len(s) + 1
           j == Append(inf, n)
<1>0. g \in Frame
  BY DEF Frame
<1>1. /\ t \in Seq(Frame) /\ Len(t) = n /\ Len(s) \in Nat /\ n \in Nat
      /\ t[n] = g /\ \A i \in 1 .. Len(s) : t[i] = s[i]
  BY <1>0, Grown
<1>2. /\ j \in Seq(Nat) /\ Len(j) = Len(inf) + 1 /\ Len(inf) \in Nat
      /\ j[Len(inf) + 1] = n /\ \A k \in 1 .. Len(inf) : j[k] = inf[k]
  BY <1>1, Grown
<1>3. \A k \in 1 .. Len(inf) : inf[k] \in 1 .. Len(s) /\ inf[k] < n
  BY <1>1 DEF Remembers
<1>4. /\ \A i \in 1 .. n : i \in 1 .. Len(s) \/ i = n
      /\ \A i \in 1 .. Len(s) : i \in 1 .. n
  BY <1>1
<1>5. /\ \A k \in 1 .. Len(j) : k \in 1 .. Len(inf) \/ k = Len(inf) + 1
      /\ \A k \in 1 .. Len(inf) : k \in 1 .. Len(j) /\ k < Len(inf) + 1
      /\ Len(inf) + 1 \in 1 .. Len(j) /\ n \in 1 .. n
  BY <1>1, <1>2
<1> HIDE DEF t, n, j
<1>6. ASSUME g.noted PROVE Remembers(t, j)
  <2>1. \A k \in 1 .. Len(j) : j[k] \in 1 .. Len(t) /\ t[j[k]] \in GuestCall /\ t[j[k]].noted
    BY <1>1, <1>2, <1>3, <1>4, <1>5, <1>6, SMTT(60) DEF Remembers
  <2>2. \A k, m \in 1 .. Len(j) : k < m => j[k] < j[m]
    <3> SUFFICES ASSUME NEW k \in 1 .. Len(j), NEW m \in 1 .. Len(j), k < m PROVE j[k] < j[m]
      OBVIOUS
    <3>1. k \in 1 .. Len(inf)
      BY <1>2
    <3>2. CASE m \in 1 .. Len(inf)
      BY <1>2, <3>1, <3>2 DEF Remembers
    <3>3. CASE m = Len(inf) + 1
      BY <1>2, <1>3, <3>1, <3>3
    <3> QED BY <1>5, <3>2, <3>3
  <2>3. \A i \in 1 .. Len(t) : t[i] \in GuestCall /\ t[i].noted => \E k \in 1 .. Len(j) : j[k] = i
    <3> SUFFICES ASSUME NEW i \in 1 .. Len(t), t[i] \in GuestCall, t[i].noted
                 PROVE  \E k \in 1 .. Len(j) : j[k] = i
      OBVIOUS
    <3>1. CASE i = n
      BY <1>2, <1>5, <3>1
    <3>2. CASE i \in 1 .. Len(s)
      <4>1. PICK k \in 1 .. Len(inf) : inf[k] = i
        BY <1>1, <3>2 DEF Remembers
      <4> QED BY <1>2, <1>5, <4>1
    <3> QED BY <1>1, <1>4, <3>1, <3>2
  <2> QED BY <2>1, <2>2, <2>3 DEF Remembers
<1>7. ASSUME ~g.noted PROVE Remembers(t, inf)
  BY <1>1, <1>3, <1>4, <1>7 DEF Remembers
<1> QED BY <1>6, <1>7 DEF t, j, n

-----------------------------------------------------------------------------
(* The stack shrinks by one.                                                *)

LEMMA PopKeeps ==
    ASSUME NEW s \in Seq(Frame), s # << >>, FramesRight(s)
    PROVE  FramesRight(Front(s))
<1>1. /\ Len(s) \in Nat \ {0} /\ Front(s) \in Seq(Frame) /\ Len(Front(s)) = Len(s) - 1
      /\ \A i \in 1 .. Len(s) - 1 : Front(s)[i] = s[i]
  BY LastTaken
<1> DEFINE t == Front(s)
<1> HIDE DEF t
<1> SUFFICES ASSUME NEW i \in 1 .. Len(t) PROVE FrameRight(t, i)
  BY DEF FramesRight, t
<1>2. /\ t \in Seq(Frame) /\ Len(t) = Len(s) - 1 /\ i \in 1 .. Len(s) - 1
      /\ i \in 1 .. Len(s) /\ \A j \in 1 .. Len(s) - 1 : t[j] = s[j] /\ j \in 1 .. Len(s)
  BY <1>1 DEF t
<1>3. FrameRight(s, i)
  BY <1>2 DEF FramesRight
<1>4. t[i] = s[i] /\ s[i] \in Frame
  BY <1>2
<1>5. CASE s[i] \in HostDoing /\ s[i].how \in Passing
  <2>1. PassedOnRight(s[i], i, s[i - 1], s[s[i].of])
    BY <1>3, <1>5 DEF FrameRight
  <2>2. i > 1 /\ i - 1 \in 1 .. Len(s) - 1
    BY <1>1, <1>2, <2>1 DEF PassedOnRight
  <2>3. t[i - 1] = s[i - 1]
    BY <1>2, <2>2
  <2>4. CASE s[i].of = 0
    <3>1. PassedOnRight(s[i], i, s[i - 1], t[s[i].of])
      BY <2>1, <2>4, Zenon DEF PassedOnRight
    <3> QED BY <1>4, <1>5, <2>3, <3>1, TwoKinds DEF FrameRight
  <2>5. CASE s[i].of # 0
    <3>1. s[i].of \in 1 .. Len(s) - 1
      BY <1>1, <1>2, <2>1, <2>5 DEF PassedOnRight
    <3>2. t[s[i].of] = s[s[i].of]
      BY <1>2, <3>1
    <3> QED BY <1>4, <1>5, <2>1, <2>3, <3>2, TwoKinds DEF FrameRight
  <2> QED BY <2>4, <2>5
<1>6. CASE ~(s[i] \in HostDoing /\ s[i].how \in Passing)
  BY <1>3, <1>4, <1>6 DEF FrameRight
<1> QED BY <1>5, <1>6

LEMMA HostDone ==
    ASSUME NEW s \in Seq(Frame), NEW inf \in Seq(Nat), s # << >>, Remembers(s, inf),
           s[Len(s)] \notin GuestCall \/ ~s[Len(s)].noted
    PROVE  Remembers(Front(s), inf)
<1>1. /\ Len(s) \in Nat \ {0} /\ Front(s) \in Seq(Frame) /\ Len(Front(s)) = Len(s) - 1
      /\ \A i \in 1 .. Len(s) - 1 : Front(s)[i] = s[i]
  BY LastTaken
<1> DEFINE t == Front(s)
<1>2. Len(t) = Len(s) - 1 /\ \A i \in 1 .. Len(t) : t[i] = s[i] /\ i \in 1 .. Len(s)
  BY <1>1
<1> HIDE DEF t
<1>3. \A k \in 1 .. Len(inf) : inf[k] \in 1 .. Len(t)
  <2>1. \A k \in 1 .. Len(inf) : inf[k] \in 1 .. Len(s) /\ inf[k] # Len(s)
    BY DEF Remembers
  <2> QED BY <1>1, <1>2, <2>1
<1>4. Remembers(t, inf)
  BY <1>2, <1>3 DEF Remembers
<1> QED BY <1>4 DEF t

\* The innermost call, when it is remembered, is the last that is.
LEMMA LastRemembered ==
    ASSUME NEW s \in Seq(Frame), NEW inf \in Seq(Nat), s # << >>, Remembers(s, inf),
           s[Len(s)] \in GuestCall, s[Len(s)].noted
    PROVE  inf # << >> /\ inf[Len(inf)] = Len(s)
<1>1. Len(s) \in Nat \ {0} /\ Len(s) \in 1 .. Len(s)
  BY LastTaken
<1>2. PICK k \in 1 .. Len(inf) : inf[k] = Len(s)
  BY <1>1 DEF Remembers
<1>3. Len(inf) \in Nat /\ Len(inf) \in 1 .. Len(inf) /\ inf # << >>
  BY <1>2
<1>4. inf[Len(inf)] \in 1 .. Len(s)
  BY <1>3 DEF Remembers
<1>5. k < Len(inf) => inf[k] < inf[Len(inf)]
  BY <1>3 DEF Remembers
<1>6. k = Len(inf)
  BY <1>1, <1>2, <1>3, <1>4, <1>5
<1> QED BY <1>2, <1>3, <1>6

LEMMA CallDone ==
    ASSUME NEW s \in Seq(Frame), NEW inf \in Seq(Nat), s # << >>, Remembers(s, inf),
           s[Len(s)] \in GuestCall, s[Len(s)].noted
    PROVE  Remembers(Front(s), Front(inf)) /\ Front(inf) \in Seq(Nat)
<1>1. inf # << >> /\ inf[Len(inf)] = Len(s)
  BY LastRemembered
<1>2. /\ Len(s) \in Nat \ {0} /\ Front(s) \in Seq(Frame) /\ Len(Front(s)) = Len(s) - 1
      /\ \A i \in 1 .. Len(s) - 1 : Front(s)[i] = s[i]
  BY LastTaken
<1>3. /\ Len(inf) \in Nat \ {0} /\ Front(inf) \in Seq(Nat) /\ Len(Front(inf)) = Len(inf) - 1
      /\ \A i \in 1 .. Len(inf) - 1 : Front(inf)[i] = inf[i]
  BY <1>1, LastTaken, ZenonT(60)
<1> DEFINE t == Front(s)
           j == Front(inf)
<1>4. Len(t) = Len(s) - 1 /\ \A i \in 1 .. Len(t) : t[i] = s[i] /\ i \in 1 .. Len(s) /\ i # Len(s)
  BY <1>2
<1>5. /\ Len(j) = Len(inf) - 1 /\ Len(inf) \in 1 .. Len(inf)
      /\ \A k \in 1 .. Len(j) : j[k] = inf[k] /\ k \in 1 .. Len(inf) /\ k < Len(inf)
      /\ \A k \in 1 .. Len(inf) : k \in 1 .. Len(j) \/ k = Len(inf)
  BY <1>3
<1> HIDE DEF t, j
<1>6. \A k \in 1 .. Len(j) : j[k] \in 1 .. Len(t)
  <2>1. \A k \in 1 .. Len(j) : inf[k] \in 1 .. Len(s) /\ inf[k] < inf[Len(inf)]
    BY <1>5 DEF Remembers
  <2>2. \A k \in 1 .. Len(j) : inf[k] \in 1 .. Len(s) /\ inf[k] < Len(s)
    BY <1>1, <2>1
  <2>3. \A x \in 1 .. Len(s) : x < Len(s) => x \in 1 .. Len(s) - 1
    BY <1>2
  <2> QED BY <1>4, <1>5, <2>2, <2>3
<1>7. \A i \in 1 .. Len(t) : t[i] \in GuestCall /\ t[i].noted => \E k \in 1 .. Len(j) : j[k] = i
  <2> SUFFICES ASSUME NEW i \in 1 .. Len(t), t[i] \in GuestCall, t[i].noted
               PROVE  \E k \in 1 .. Len(j) : j[k] = i
    OBVIOUS
  <2>1. PICK k \in 1 .. Len(inf) : inf[k] = i
    BY <1>4 DEF Remembers
  <2>2. k # Len(inf)
    BY <1>1, <1>4, <2>1
  <2> QED BY <1>5, <2>1, <2>2
<1>8. Remembers(t, j)
  BY <1>4, <1>5, <1>6, <1>7 DEF Remembers
<1> QED BY <1>3, <1>8 DEF t, j

-----------------------------------------------------------------------------
(* Frames change and stay the frames they are.                              *)

SameCall(f, g) ==
    /\ g \in GuestCall /\ g.hwnd = f.hwnd /\ g.msg = f.msg /\ g.wp = f.wp /\ g.lp = f.lp
    /\ g.sent = f.sent /\ (g.noted <=> f.noted)

SameDoing(f, g) ==
    /\ g \in HostDoing /\ g.hwnd = f.hwnd /\ g.msg = f.msg /\ g.wp = f.wp /\ g.lp = f.lp
    /\ g.of = f.of /\ g.read = f.read /\ g.asker = f.asker /\ (g.same <=> f.same)
    /\ (g.after <=> f.after)

\* What a step may do to the call on top, and to one under it: a structure that
\* is written belongs to the call on top, or to one another was taken for.
Moves(f, g) ==
    SameCall(f, g) /\ f.passed <= g.passed /\ (f.mixed => g.mixed) /\ CopyRight(g)

Rests(f, g) ==
    Moves(f, g) /\ g.passed = f.passed /\ (g.mixed \/ (f.wide = f.want => g.wide = g.want))

AllMove(s, t) ==
    /\ Len(t) = Len(s)
    /\ \A i \in 1 .. Len(s) :
         /\ s[i] \in GuestCall => Moves(s[i], t[i])
         /\ s[i] \in GuestCall /\ i # Len(s) => Rests(s[i], t[i])
         /\ s[i] \in HostDoing =>
              /\ SameDoing(s[i], t[i])
              /\ \/ t[i].how = s[i].how
                 \/ i = Len(s) /\ s[i].how = "send" /\ t[i].how = "sent"

LEMMA MoveKeeps ==
    ASSUME NEW s \in Seq(Frame), NEW t \in Seq(Frame), AllMove(s, t), FramesRight(s)
    PROVE  FramesRight(t)
<1> SUFFICES ASSUME NEW i \in 1 .. Len(t) PROVE FrameRight(t, i)
  BY DEF FramesRight
<1>1. Len(t) = Len(s) /\ Len(s) \in Nat /\ i \in 1 .. Len(s) /\ s[i] \in Frame /\ t[i] \in Frame
  BY DEF AllMove
<1>2. FrameRight(s, i)
  BY <1>1 DEF FramesRight
<1>3. CASE s[i] \in GuestCall
  <2>1. CopyRight(t[i]) /\ t[i] \in GuestCall
    BY <1>1, <1>3 DEF AllMove, Moves, SameCall
  <2> QED BY <1>1, <2>1, TwoKinds DEF FrameRight
<1>4. CASE s[i] \in HostDoing /\ s[i].how \notin Passing
  <2>1. /\ t[i] \in HostDoing /\ t[i].how \notin Passing /\ t[i].of = s[i].of
        /\ t[i].read = s[i].read /\ t[i].msg = s[i].msg
    BY <1>1, <1>4 DEF AllMove, SameDoing, Passing
  <2> QED BY <1>1, <1>2, <1>4, <2>1, TwoKinds DEF FrameRight
<1>5. CASE s[i] \in HostDoing /\ s[i].how \in Passing
  <2> DEFINE h == s[i]
             k == t[i]
  <2>1. /\ k \in HostDoing /\ k.how \in Passing /\ k.msg = h.msg /\ k.of = h.of /\ k.read = h.read
        /\ k.asker = h.asker /\ (k.same <=> h.same)
    BY <1>1, <1>5 DEF AllMove, SameDoing, Passing
  <2>2. PassedOnRight(h, i, s[i - 1], s[h.of])
    BY <1>2, <1>5 DEF FrameRight
  <2>3. h.of \in Nat /\ i \in Nat
    BY <1>5, HostFacts
  <2>4. i > 1 /\ i - 1 \in 1 .. Len(s) /\ i - 1 # Len(s) /\ s[i - 1] \in GuestCall
    BY <1>1, <2>2 DEF PassedOnRight
  <2>5. Rests(s[i - 1], t[i - 1])
    BY <2>4, Zenon DEF AllMove
  <2>6. h.of # 0 => /\ h.of \in 1 .. Len(s) /\ s[h.of] \in GuestCall
                    /\ Moves(s[h.of], t[h.of])
    <3> SUFFICES ASSUME h.of # 0 PROVE /\ h.of \in 1 .. Len(s) /\ s[h.of] \in GuestCall
                                       /\ Moves(s[h.of], t[h.of])
      OBVIOUS
    <3>1. h.of \in 1 .. i - 1 /\ s[h.of] \in GuestCall
      BY <2>2 DEF PassedOnRight
    <3>2. h.of \in 1 .. Len(s)
      BY <1>1, <3>1
    <3> QED BY <3>1, <3>2, Zenon DEF AllMove
  <2>7. /\ s[i - 1].passed \in Nat /\ t[i - 1].passed \in Nat
    BY <2>4, <2>5, GuestFacts DEF Rests, Moves, SameCall
  <2> DEFINE g == s[i - 1]
             f == s[h.of]
             u == t[i - 1]
             v == t[h.of]
  <2> HIDE DEF h, k, g, f, u, v
  <2>8. /\ u \in GuestCall /\ u.msg = g.msg /\ (u.noted <=> g.noted) /\ g.passed <= u.passed
        /\ g.mixed => u.mixed
        /\ u.mixed \/ (g.wide = g.want => u.wide = u.want)
    BY <2>5 DEF Rests, Moves, SameCall, g, u
  <2>9. h.of # 0 => v \in GuestCall /\ v.msg = f.msg /\ (v.noted <=> f.noted) /\ (f.mixed => v.mixed)
    BY <2>6 DEF Moves, SameCall, f, v
  <2>10. PassedOnRight(h, i, g, f)
    BY <2>2 DEF f, g
  <2>11. u.passed > 0
    BY <2>7, <2>8, <2>10 DEF PassedOnRight, g, u
  <2>12. PassedOnRight(k, i, u, v)
    <3>1. i > 1 /\ k.asker = i - 1 /\ u \in GuestCall /\ u.passed > 0 /\ k.msg = u.msg
      BY <2>1, <2>8, <2>10, <2>11 DEF PassedOnRight
    <3>2. (k.same /\ u.noted => k.of = i - 1) /\ (k.read > 0 => ~u.noted)
      BY <2>1, <2>8, <2>10 DEF PassedOnRight
    <3>3. k.of # 0 => k.of \in 1 .. i - 1 /\ v \in GuestCall /\ v.noted /\ v.msg = k.msg
      BY <2>1, <2>9, <2>10 DEF PassedOnRight
    <3>4. k.of \notin {0, i - 1} => v.mixed /\ ~u.noted
      BY <2>1, <2>8, <2>9, <2>10 DEF PassedOnRight
    <3>5. k.of = i - 1 /\ k.msg = "answer" /\ ~u.mixed => u.wide = u.want
      BY <2>1, <2>8, <2>10 DEF PassedOnRight
    <3> QED BY <3>1, <3>2, <3>3, <3>4, <3>5 DEF PassedOnRight
  <2>13. PassedOnRight(t[i], i, t[i - 1], t[t[i].of])
    BY <2>1, <2>12 DEF k, u, v
  <2> QED BY <1>1, <2>1, <2>13, TwoKinds DEF FrameRight, k
<1> QED BY <1>1, <1>3, <1>4, <1>5, TwoKinds

LEMMA MoveRemembered ==
    ASSUME NEW s \in Seq(Frame), NEW t \in Seq(Frame), NEW inf \in Seq(Nat),
           AllMove(s, t), Remembers(s, inf)
    PROVE  Remembers(t, inf)
<1>1. \A i \in 1 .. Len(s) : /\ t[i] \in GuestCall <=> s[i] \in GuestCall
                             /\ s[i] \in GuestCall => (t[i].noted <=> s[i].noted)
  <2>1. \A i \in 1 .. Len(s) : s[i] \in Frame
    OBVIOUS
  <2> QED BY <2>1, TwoKinds DEF AllMove, Moves, SameCall, SameDoing, Frame
<1>2. Len(t) = Len(s)
  BY DEF AllMove
<1> QED BY <1>1, <1>2 DEF Remembers

-----------------------------------------------------------------------------
(* Which call a message that is passed on is taken for.                     *)

LEMMA GreatestOf ==
    ASSUME NEW N \in Nat, NEW S \in SUBSET (1 .. N), S # {}
    PROVE  \E m \in S : \A j \in S : m >= j
<1> DEFINE D == {N - i : i \in S}
<1>1. D \in SUBSET Nat /\ D # {}
  <2>1. \A i \in S : N - i \in Nat
    OBVIOUS
  <2>2. PICK i \in S : TRUE
    OBVIOUS
  <2>3. N - i \in D
    BY <2>2, Zenon
  <2> QED BY <2>1, <2>3
<1>2. PICK d \in D : \A y \in D : d <= y
  BY <1>1, LeastAndGreatest
<1>3. PICK m \in S : d = N - m
  BY <1>2
<1>4. \A j \in S : d <= N - j
  BY <1>2
<1>5. \A j \in S : m >= j
  BY <1>3, <1>4
<1> QED BY <1>5

LEMMA FoundRight ==
    ASSUME FwdInv, NEW hwnd, NEW msg
    PROVE  \/ Found(hwnd, msg) = 0
           \/ /\ Found(hwnd, msg) \in 1 .. Depth /\ stack[Found(hwnd, msg)] \in GuestCall
              /\ stack[Found(hwnd, msg)].noted /\ stack[Found(hwnd, msg)].msg = msg
<1> DEFINE S == {i \in DOMAIN inflight : /\ inflight[i] \in DOMAIN stack
                                         /\ stack[inflight[i]].hwnd = hwnd
                                         /\ stack[inflight[i]].msg = msg}
           c == CHOOSE i \in S : \A j \in S : i >= j
<1>1. Found(hwnd, msg) = IF S = {} THEN 0 ELSE inflight[c]
  BY Zenon DEF Found
<1>2. CASE S = {}
  BY <1>1, <1>2
<1>3. CASE S # {}
  <2>1. inflight \in Seq(Nat) /\ stack \in Seq(Frame)
    BY DEF FwdInv, FwdTypes
  <2>2. Len(inflight) \in Nat /\ S \in SUBSET (1 .. Len(inflight))
    BY <2>1
  <2>3. \E m \in S : \A j \in S : m >= j
    BY <1>3, <2>2, GreatestOf
  <2>4. c \in S
    BY <2>3, Zenon
  <2>5. c \in 1 .. Len(inflight) /\ stack[inflight[c]].msg = msg
    BY <2>2, <2>4
  <2>6. inflight[c] \in 1 .. Depth /\ stack[inflight[c]] \in GuestCall /\ stack[inflight[c]].noted
    BY <2>5 DEF FwdInv, Remembers, Depth
  <2> QED BY <1>1, <1>3, <2>5, <2>6, Zenon
<1> QED BY <1>2, <1>3

\* A call that is remembered is the one its own message is taken for.
LEMMA FoundItself ==
    ASSUME FwdInv, stack # << >>, Top \in GuestCall, Top.noted
    PROVE  Found(Top.hwnd, Top.msg) = Depth
<1> DEFINE S == {i \in DOMAIN inflight : /\ inflight[i] \in DOMAIN stack
                                         /\ stack[inflight[i]].hwnd = Top.hwnd
                                         /\ stack[inflight[i]].msg = Top.msg}
           c == CHOOSE i \in S : \A j \in S : i >= j
<1>1. Found(Top.hwnd, Top.msg) = IF S = {} THEN 0 ELSE inflight[c]
  BY Zenon DEF Found
<1>2. inflight \in Seq(Nat) /\ stack \in Seq(Frame) /\ Remembers(stack, inflight)
  BY DEF FwdInv, FwdTypes
<1>3. inflight # << >> /\ inflight[Len(inflight)] = Len(stack)
  BY <1>2, LastRemembered DEF Top, Depth
<1>4. Len(inflight) \in DOMAIN inflight /\ Depth \in DOMAIN stack /\ Len(inflight) \in Nat
  BY <1>2, <1>3 DEF Depth
<1>5. Len(inflight) \in S
  BY <1>3, <1>4 DEF Top, Depth
<1>6. \A i \in S : i \in Nat /\ i <= Len(inflight)
  BY <1>2, <1>4
<1>7. c = Len(inflight)
  <2>1. \A j \in S : Len(inflight) >= j
    BY <1>4, <1>6
  <2>2. c \in S /\ \A j \in S : c >= j
    BY <1>5, <2>1, Zenon
  <2>3. c \in Nat /\ c <= Len(inflight)
    BY <1>6, <2>2, Zenon
  <2>4. c >= Len(inflight)
    BY <1>5, <2>2, Zenon
  <2> HIDE DEF c
  <2> QED BY <1>4, <2>3, <2>4
<1> QED BY <1>1, <1>3, <1>5, <1>7, Zenon DEF Depth

-----------------------------------------------------------------------------
(* A call passes its message on.                                            *)

Rewrote(f, w, m) == [f EXCEPT !.wide = w, !.mixed = m]

LEMMA Rewritten ==
    \A f \in GuestCall, w \in Nat, m \in BOOLEAN :
        LET x == Rewrote(f, w, m)
        IN  /\ x \in GuestCall /\ x.wide = w /\ (x.mixed <=> m)
            /\ SameCall(f, x) /\ x.passed = f.passed
            /\ x.copy = f.copy /\ x.before = f.before /\ x.want = f.want
<1> SUFFICES
      ASSUME NEW f \in GuestCall, NEW w \in Nat, NEW m \in BOOLEAN
      PROVE  LET x == Rewrote(f, w, m)
             IN  /\ x \in GuestCall /\ x.wide = w /\ (x.mixed <=> m)
                 /\ SameCall(f, x) /\ x.passed = f.passed
                 /\ x.copy = f.copy /\ x.before = f.before /\ x.want = f.want
  OBVIOUS
<1> DEFINE e == [f EXCEPT !.wide = w]
           g == [e EXCEPT !.mixed = m]
<1>1. /\ e \in GuestCall /\ e.wide = w
      /\ SameCall(f, e) /\ e.passed = f.passed
      /\ e.copy = f.copy /\ e.before = f.before /\ e.want = f.want
  BY DEF GuestCall, SameCall
<1>2. Rewrote(f, w, m) = g
  BY DEF GuestCall, Rewrote
<1> HIDE DEF e
<1>3. /\ g \in GuestCall /\ g.wide = e.wide /\ (g.mixed <=> m)
      /\ SameCall(e, g) /\ g.passed = e.passed
      /\ g.copy = e.copy /\ g.before = e.before /\ g.want = e.want
  BY <1>1 DEF GuestCall, SameCall
<1> HIDE DEF g
<1> QED BY <1>1, <1>2, <1>3 DEF SameCall

LEMMA PassedOnce ==
    \A f \in GuestCall :
        LET g == [f EXCEPT !.passed = @ + 1]
        IN  /\ g \in GuestCall /\ g.passed = f.passed + 1 /\ g.passed > 0 /\ g.wide = f.wide
            /\ (g.mixed <=> f.mixed) /\ SameCall(f, g)
            /\ g.copy = f.copy /\ g.before = f.before /\ g.want = f.want
<1>1. \A f \in GuestCall : f.passed \in Nat
  BY GuestFacts
<1>2. \A f \in GuestCall, n \in Nat :
        LET g == [f EXCEPT !.passed = n]
        IN  /\ g \in GuestCall /\ g.passed = n /\ g.wide = f.wide
            /\ (g.mixed <=> f.mixed) /\ SameCall(f, g)
            /\ g.copy = f.copy /\ g.before = f.before /\ g.want = f.want
  BY DEF GuestCall, SameCall
<1>3. \A n \in Nat : n + 1 \in Nat /\ n + 1 > 0
  OBVIOUS
<1> QED
  <2> SUFFICES ASSUME NEW f \in GuestCall
               PROVE  LET g == [f EXCEPT !.passed = @ + 1]
                      IN  /\ g \in GuestCall /\ g.passed = f.passed + 1 /\ g.passed > 0
                          /\ g.wide = f.wide /\ (g.mixed <=> f.mixed) /\ SameCall(f, g)
                          /\ g.copy = f.copy /\ g.before = f.before /\ g.want = f.want
    OBVIOUS
  <2>1. f.passed + 1 \in Nat /\ f.passed + 1 > 0
    BY <1>1, <1>3
  <2> DEFINE n == f.passed + 1
  <2>2. n \in Nat /\ n > 0
    BY <2>1
  <2> HIDE DEF n
  <2>3. LET g == [f EXCEPT !.passed = n]
        IN  /\ g \in GuestCall /\ g.passed = n /\ g.wide = f.wide
            /\ (g.mixed <=> f.mixed) /\ SameCall(f, g)
            /\ g.copy = f.copy /\ g.before = f.before /\ g.want = f.want
    BY <1>2, <2>2, Zenon
  <2> QED BY <2>2, <2>3 DEF n

LEMMA WidenedAgain ==
    \A f \in GuestCall, c \in Narrowed :
        /\ Widened(f, c) \in Nat
        /\ f.msg = "answer" =>
             Widened(f, c) = IF c # Narrow(Widened(f, c)) THEN c ELSE Widened(f, c)
<1>1. \A c \in Narrowed : c \in Nat /\ Narrow(c) = c
  BY DEF Narrowed, Narrow
<1> QED BY <1>1, GuestFacts DEF Widened

LEMMA StaysPut ==
    ASSUME NEW s \in Seq(Frame), NEW i \in 1 .. Len(s), FramesRight(s), s[i] \in GuestCall
    PROVE  Moves(s[i], s[i]) /\ Rests(s[i], s[i])
<1>1. CopyRight(s[i])
  BY DEF FramesRight, FrameRight
<1>2. s[i].passed \in Nat
  BY GuestFacts
<1> QED BY <1>1, <1>2 DEF Moves, Rests, SameCall

\* What does not move stays where it is.
With(s, i, x) == [s EXCEPT ![i] = x]

LEMMA OnlyTopMoves ==
    ASSUME NEW s \in Seq(Frame), s # << >>, NEW x \in Frame, FramesRight(s),
           s[Len(s)] \in GuestCall => Moves(s[Len(s)], x),
           s[Len(s)] \in HostDoing => /\ SameDoing(s[Len(s)], x)
                                      /\ \/ x.how = s[Len(s)].how
                                         \/ s[Len(s)].how = "send" /\ x.how = "sent"
    PROVE  LET t == With(s, Len(s), x)
           IN  /\ t \in Seq(Frame) /\ Len(t) = Len(s) /\ t[Len(s)] = x /\ AllMove(s, t)
               /\ \A j \in 1 .. Len(s) - 1 : t[j] = s[j]
<1>0. PICK t : t = With(s, Len(s), x)
  OBVIOUS
<1>1. Len(s) \in Nat \ {0} /\ Len(s) \in 1 .. Len(s)
  BY LastTaken
<1>2. t \in Seq(Frame) /\ Len(t) = Len(s)
  BY <1>0 DEF With
<1>3. t[Len(s)] = x /\ \A j \in 1 .. Len(s) : j # Len(s) => t[j] = s[j]
  BY <1>0, <1>1 DEF With
<1>4. \A j \in 1 .. Len(s) - 1 : j \in 1 .. Len(s) /\ j # Len(s)
  BY <1>1
<1>5. ASSUME NEW i \in 1 .. Len(s), s[i] \in GuestCall
      PROVE  Moves(s[i], t[i]) /\ (i # Len(s) => Rests(s[i], t[i]))
  <2>1. CASE i = Len(s)
    BY <1>3, <1>5, <2>1
  <2>2. CASE i # Len(s)
    <3>1. t[i] = s[i]
      BY <1>3, <2>2
    <3> QED BY <1>5, <3>1, StaysPut
  <2> QED BY <2>1, <2>2
<1>6. ASSUME NEW i \in 1 .. Len(s), s[i] \in HostDoing
      PROVE  /\ SameDoing(s[i], t[i])
             /\ t[i].how = s[i].how \/ (i = Len(s) /\ s[i].how = "send" /\ t[i].how = "sent")
  <2>1. CASE i = Len(s)
    BY <1>3, <1>6, <2>1
  <2>2. CASE i # Len(s)
    <3>1. t[i] = s[i]
      BY <1>3, <2>2
    <3> QED BY <1>6, <3>1 DEF SameDoing
  <2> QED BY <2>1, <2>2
<1>7. AllMove(s, t)
  BY <1>2, <1>5, <1>6, Zenon DEF AllMove
<1> QED BY <1>0, <1>2, <1>3, <1>4, <1>7

\* A call that is taken for another's message leaves that one mixed.
LEMMA OneIsMixed ==
    ASSUME NEW s \in Seq(Frame), NEW t \in Seq(Frame), AllMove(s, t),
           NEW i \in 1 .. Len(s), i # Len(s), s[i] \in GuestCall,
           NEW x \in GuestCall, SameCall(t[i], x), x.passed = t[i].passed, x.mixed
    PROVE  LET u == With(t, i, x)
           IN  /\ u \in Seq(Frame) /\ Len(u) = Len(s) /\ u[i] = x /\ AllMove(s, u)
               /\ \A j \in 1 .. Len(s) : j # i => u[j] = t[j]
<1>0. PICK u : u = With(t, i, x)
  OBVIOUS
<1>1. Len(t) = Len(s) /\ Rests(s[i], t[i])
  BY Zenon DEF AllMove
<1>2. x \in GuestCall /\ x \in Frame
  BY DEF SameCall, Frame
<1>3. u \in Seq(Frame) /\ Len(u) = Len(s) /\ u[i] = x
  BY <1>0, <1>1, <1>2 DEF With
<1>4. \A j \in 1 .. Len(s) : j # i => u[j] = t[j]
  BY <1>0, <1>1 DEF With
<1>5. CopyRight(x)
  BY DEF CopyRight
<1>6. Moves(s[i], x) /\ Rests(s[i], x)
  BY <1>1, <1>5 DEF Moves, Rests, SameCall
<1>7. s[i] \notin HostDoing
  BY TwoKinds
<1>8. AllMove(s, u)
  <2>1. ASSUME NEW j \in 1 .. Len(s), s[j] \in GuestCall
        PROVE  Moves(s[j], u[j]) /\ (j # Len(s) => Rests(s[j], u[j]))
    <3>1. CASE j = i
      BY <1>3, <1>6, <3>1
    <3>2. CASE j # i
      BY <1>4, <2>1, <3>2, Zenon DEF AllMove
    <3> QED BY <3>1, <3>2
  <2>2. ASSUME NEW j \in 1 .. Len(s), s[j] \in HostDoing
        PROVE  /\ SameDoing(s[j], u[j])
               /\ u[j].how = s[j].how \/ (j = Len(s) /\ s[j].how = "send" /\ u[j].how = "sent")
    BY <1>4, <1>7, <2>2 DEF AllMove
  <2> QED BY <1>3, <2>1, <2>2, Zenon DEF AllMove
<1> QED BY <1>0, <1>3, <1>4, <1>8

LEMMA HostMade ==
    FwdTypes =>
    \A how \in Hows, hwnd \in Edits \cup Owns, msg \in Messages, wp \in Flags, lp \in Int,
       of \in Nat, after \in BOOLEAN, read \in Int :
        LET h == HostFrame(how, hwnd, msg, wp, lp, of, after, read)
        IN  /\ h \in HostDoing /\ h.how = how /\ h.hwnd = hwnd /\ h.msg = msg /\ h.wp = wp
            /\ h.lp = lp /\ h.of = of /\ (h.after <=> after) /\ h.read = read /\ h.asker = Depth
            /\ stack # << >> =>
                 (h.same <=> msg = Top.msg /\ wp = Top.wp /\ lp = Top.lp /\ hwnd = Top.hwnd)
<1> SUFFICES
      ASSUME FwdTypes,
             NEW how \in Hows, NEW hwnd \in Edits \cup Owns,
             NEW msg \in Messages, NEW wp \in Flags, NEW lp \in Int, NEW of \in Nat,
             NEW after \in BOOLEAN, NEW read \in Int
      PROVE  LET h == HostFrame(how, hwnd, msg, wp, lp, of, after, read)
             IN  /\ h \in HostDoing /\ h.how = how /\ h.hwnd = hwnd /\ h.msg = msg /\ h.wp = wp
                 /\ h.lp = lp /\ h.of = of /\ (h.after <=> after) /\ h.read = read
                 /\ h.asker = Depth
                 /\ stack # << >> =>
                      (h.same <=> msg = Top.msg /\ wp = Top.wp /\ lp = Top.lp /\ hwnd = Top.hwnd)
  OBVIOUS
<1>1. Depth \in Nat
  BY DEF FwdTypes, Depth
<1> DEFINE same == IF stack = << >> THEN FALSE
                   ELSE msg = Top.msg /\ wp = Top.wp /\ lp = Top.lp /\ hwnd = Top.hwnd
<1>2. same \in BOOLEAN
  OBVIOUS
<1>3. stack # << >> =>
        (same <=> msg = Top.msg /\ wp = Top.wp /\ lp = Top.lp /\ hwnd = Top.hwnd)
  OBVIOUS
<1> HIDE DEF same
<1> DEFINE h == HostFrame(how, hwnd, msg, wp, lp, of, after, read)
<1>4. h = [who |-> "host", how |-> how, hwnd |-> hwnd, msg |-> msg, wp |-> wp, lp |-> lp,
           of |-> of, after |-> after, read |-> read, asker |-> Depth, same |-> same]
  BY Zenon DEF HostFrame, same
<1> HIDE DEF h
<1>5. /\ h \in HostDoing /\ h.how = how /\ h.hwnd = hwnd /\ h.msg = msg /\ h.wp = wp
      /\ h.lp = lp /\ h.of = of /\ (h.after <=> after) /\ h.read = read /\ h.asker = Depth
      /\ h.same = same
  BY <1>1, <1>2, <1>4 DEF HostDoing
<1> QED BY <1>3, <1>5 DEF h

\* What passing a message on does to the stack.
LEMMA PassShape ==
    ASSUME FwdInv, stack # << >>, Top \in GuestCall,
           NEW how \in Passing, NEW wp \in Flags, NEW lp \in Int, PassOn(how, wp, lp),
           Top.msg \in Pointers => lp \in {Top.lp, -1}
    PROVE  \E t \in Seq(Frame), h \in HostDoing :
              /\ stack' = Append(t, h) /\ AllMove(stack, t)
              /\ PassedOnRight(h, Depth + 1, t[Depth], t[h.of])
              /\ h.how = how /\ h.hwnd = Top.hwnd /\ h.msg = Top.msg /\ h.wp = wp /\ h.lp = lp
              /\ h.after <=> Top.msg = "setsel" /\ how = "proc" /\ ScrollAfter(Top.hwnd, wp)
              /\ t[Depth].passed = Top.passed + 1
<1>1. /\ stack \in Seq(Frame) /\ FramesRight(stack) /\ Depth = Len(stack) /\ Top = stack[Depth]
      /\ FwdTypes
  BY DEF FwdInv, FwdTypes, Depth, Top
<1>2. PICK g \in GuestCall : g = Top
  OBVIOUS
<1>3. PICK D \in Nat \ {0} : D = Depth /\ D \in 1 .. Len(stack) /\ stack[D] = g
  BY <1>1, <1>2, LastTaken
<1>4. PICK i \in Nat : /\ i = Found(g.hwnd, g.msg)
                       /\ i # 0 => /\ i \in 1 .. D /\ stack[i] \in GuestCall
                                   /\ stack[i].noted /\ stack[i].msg = g.msg
  <2>1. \/ Found(g.hwnd, g.msg) = 0
        \/ /\ Found(g.hwnd, g.msg) \in 1 .. Depth /\ stack[Found(g.hwnd, g.msg)] \in GuestCall
           /\ stack[Found(g.hwnd, g.msg)].noted /\ stack[Found(g.hwnd, g.msg)].msg = g.msg
    BY FoundRight
  <2>2. \A n \in 1 .. D : n \in Nat
    BY <1>3
  <2> QED BY <1>3, <2>1, <2>2, Zenon
<1>5. g.noted => i = D
  BY <1>2, <1>3, <1>4, FoundItself
<1> DEFINE f == stack[i]
           handedLp == i # 0 /\ lp = f.lp
           original == /\ i # 0
                       /\ \/ g.msg \in Structs
                          \/ (handedLp /\ (wp = f.wp \/ g.msg \in Pointers))
           passer == [g EXCEPT !.passed = @ + 1]
           base == [stack EXCEPT ![D] = passer]
           widened == [base EXCEPT ![i].wide = Widened(f, g.copy), ![i].mixed = @ \/ i # D]
           read1 == IF handedLp /\ wp = f.wp THEN 0 ELSE ReadFor(g.msg, handedLp, lp)
           read2 == ReadFor(g.msg, handedLp, lp)
<1> DEFINE scrolls == g.msg = "setsel" /\ how = "proc" /\ ScrollAfter(g.hwnd, wp)
<1>13. PICK after \in BOOLEAN : after = scrolls
  OBVIOUS
<1>6. /\ original => stack' = Append(widened, HostFrame(how, g.hwnd, g.msg, wp, lp, i, after, read1))
      /\ ~original => /\ g.msg \notin Structs
                      /\ stack' = Append(base, HostFrame(how, g.hwnd, g.msg, wp, lp, 0, after, read2))
  BY <1>2, <1>3, <1>4, <1>13, Zenon DEF PassOn, WithTop
<1>7. /\ SameCall(g, passer) /\ passer.passed = g.passed + 1 /\ passer.passed > 0
      /\ passer.wide = g.wide /\ (passer.mixed <=> g.mixed) /\ passer \in GuestCall
      /\ passer.copy = g.copy /\ passer.before = g.before /\ passer.want = g.want
  BY PassedOnce
<1> HIDE DEF passer
<1>8. CopyRight(g)
  BY <1>1, <1>3 DEF FramesRight, FrameRight
<1>9. CopyRight(passer)
  BY <1>7, <1>8 DEF CopyRight, SameCall, Widened
<1>10. g.passed \in Nat /\ g.copy \in Narrowed /\ g.hwnd \in Edits \cup Owns /\ g.msg \in Messages
  BY GuestFacts
<1>11. Moves(g, passer)
  BY <1>7, <1>9, <1>10 DEF Moves
<1>12. /\ base \in Seq(Frame) /\ Len(base) = Len(stack) /\ base[D] = passer
       /\ AllMove(stack, base) /\ FramesRight(base) /\ \A j \in 1 .. D - 1 : base[j] = stack[j]
  <2>1. stack[Len(stack)] = g /\ D = Len(stack) /\ g \notin HostDoing /\ passer \in Frame
    BY <1>1, <1>3, <1>7, TwoKinds DEF Frame
  <2>2. base = With(stack, Len(stack), passer)
    BY <2>1 DEF With
  <2> HIDE DEF base
  <2>3. /\ base \in Seq(Frame) /\ Len(base) = Len(stack) /\ base[D] = passer
        /\ AllMove(stack, base) /\ \A j \in 1 .. D - 1 : base[j] = stack[j]
    <3>1. stack[Len(stack)] \in GuestCall => Moves(stack[Len(stack)], passer)
      BY <1>11, <2>1, Zenon
    <3>2. stack[Len(stack)] \notin HostDoing /\ passer \in Frame
      BY <2>1, Zenon
    <3>3. /\ base \in Seq(Frame) /\ Len(base) = Len(stack) /\ base[Len(stack)] = passer
          /\ AllMove(stack, base) /\ \A j \in 1 .. Len(stack) - 1 : base[j] = stack[j]
      BY <1>1, <2>2, <3>1, <3>2, OnlyTopMoves
    <3> QED BY <2>1, <3>3, Zenon
  <2> QED BY <1>1, <2>3, MoveKeeps
<1> HIDE DEF base
<1>14. /\ read1 \in Int /\ read2 \in Int
       /\ g.noted => ~(read1 > 0) /\ ~(read2 > 0)
  <2>1. g.msg \in Pointers => lp \in {g.lp, -1}
    BY <1>2
  <2>2. g.noted => (handedLp <=> lp = g.lp)
    BY <1>3, <1>4, <1>5
  <2> HIDE DEF handedLp
  <2>3. read2 \in Int /\ (g.noted => ~(read2 > 0))
    BY <2>1, <2>2 DEF ReadFor
  <2> HIDE DEF read2
  <2>4. read1 = 0 \/ read1 = read2
    BY Zenon DEF read2
  <2> HIDE DEF read1
  <2> QED BY <2>3, <2>4
<1>15. g.noted /\ wp = g.wp /\ lp = g.lp => original
  <2>1. g.noted => i # 0 /\ f = g
    BY <1>3, <1>4, <1>5
  <2> QED BY <2>1, Zenon
<1>16. CASE ~original
  <2>0. PICK h : h = HostFrame(how, g.hwnd, g.msg, wp, lp, 0, after, read2)
    OBVIOUS
  <2>1. stack' = Append(base, h) /\ g.msg \notin Structs
    BY <1>6, <1>16, <2>0
  <2> HIDE DEF original, read2
  <2>2. /\ h \in HostDoing /\ h.how = how /\ h.hwnd = g.hwnd /\ h.msg = g.msg /\ h.wp = wp
        /\ h.lp = lp /\ h.of = 0 /\ (h.after <=> after) /\ h.read = read2 /\ h.asker = D
        /\ h.same <=> wp = g.wp /\ lp = g.lp
    <3>1. 0 \in Nat /\ how \in Hows
      BY DEF Passing, Hows
    <3>3. /\ FwdTypes /\ g.hwnd \in Edits \cup Owns /\ g.msg \in Messages /\ wp \in Flags
          /\ lp \in Int /\ after \in BOOLEAN /\ read2 \in Int
      BY <1>1, <1>10, <1>13, <1>14
    <3>2. LET k == HostFrame(how, g.hwnd, g.msg, wp, lp, 0, after, read2)
          IN  /\ k \in HostDoing /\ k.how = how /\ k.hwnd = g.hwnd /\ k.msg = g.msg /\ k.wp = wp
              /\ k.lp = lp /\ k.of = 0 /\ (k.after <=> after) /\ k.read = read2
              /\ k.asker = Depth
              /\ stack # << >> =>
                   (k.same <=> g.msg = Top.msg /\ wp = Top.wp /\ lp = Top.lp /\ g.hwnd = Top.hwnd)
      BY <3>1, <3>3, HostMade, SMTT(60)
    <3> QED BY <1>2, <1>3, <2>0, <3>2, Zenon
  <2>3. h.same => ~g.noted
    BY <1>15, <1>16, <2>2
  <2>4. PassedOnRight(h, D + 1, passer, base[h.of])
    <3>1. D + 1 > 1 /\ D + 1 - 1 = D /\ D # 0
      BY <1>3
    <3> QED BY <1>7, <1>14, <2>2, <2>3, <3>1 DEF PassedOnRight, SameCall
  <2>5. base[Depth].passed = Top.passed + 1
    BY <1>2, <1>3, <1>7, <1>12
  <2>6. PassedOnRight(h, Depth + 1, base[Depth], base[h.of])
    BY <1>3, <1>12, <2>4
  <2>7. h.after <=> Top.msg = "setsel" /\ how = "proc" /\ ScrollAfter(Top.hwnd, wp)
    BY <1>2, <1>13, <2>2
  <2> QED BY <1>2, <1>12, <2>1, <2>2, <2>5, <2>6, <2>7, Zenon
<1>17. CASE original
  <2>0. PICK h : h = HostFrame(how, g.hwnd, g.msg, wp, lp, i, after, read1)
    OBVIOUS
  <2>1. stack' = Append(widened, h) /\ i # 0
    BY <1>6, <1>17, <2>0
  <2> HIDE DEF original, read1
  <2>2. /\ h \in HostDoing /\ h.how = how /\ h.hwnd = g.hwnd /\ h.msg = g.msg /\ h.wp = wp
        /\ h.lp = lp /\ h.of = i /\ (h.after <=> after) /\ h.read = read1 /\ h.asker = D
        /\ h.same <=> wp = g.wp /\ lp = g.lp
    <3>1. how \in Hows /\ i \in Nat
      BY <1>4 DEF Passing, Hows
    <3>3. /\ FwdTypes /\ g.hwnd \in Edits \cup Owns /\ g.msg \in Messages /\ wp \in Flags
          /\ lp \in Int /\ after \in BOOLEAN /\ read1 \in Int
      BY <1>1, <1>10, <1>13, <1>14
    <3>2. LET k == HostFrame(how, g.hwnd, g.msg, wp, lp, i, after, read1)
          IN  /\ k \in HostDoing /\ k.how = how /\ k.hwnd = g.hwnd /\ k.msg = g.msg /\ k.wp = wp
              /\ k.lp = lp /\ k.of = i /\ (k.after <=> after) /\ k.read = read1
              /\ k.asker = Depth
              /\ stack # << >> =>
                   (k.same <=> g.msg = Top.msg /\ wp = Top.wp /\ lp = Top.lp /\ g.hwnd = Top.hwnd)
      BY <3>1, <3>3, HostMade, SMT
    <3> QED BY <1>2, <1>3, <2>0, <3>2, Zenon
  <2>3. i \in 1 .. D /\ f \in GuestCall /\ f.noted /\ f.msg = g.msg
    BY <1>4, <2>1
  <2>4. PICK wide \in Nat : wide = Widened(f, g.copy)
    BY <1>10, <2>3, WidenedAgain
  <2>5. base[i] \in GuestCall /\ i \in 1 .. Len(base) /\ D = Len(stack)
    <3>1. CASE i = D
      BY <1>3, <1>1, <1>7, <1>12, <3>1
    <3>2. CASE i # D
      <4>1. i \in 1 .. D - 1 /\ D = Len(stack)
        BY <1>1, <1>3, <2>3, <3>2
      <4> QED BY <1>12, <2>3, <4>1
    <3> QED BY <3>1, <3>2
  <2>6. PICK m \in BOOLEAN : m = (base[i].mixed \/ i # D)
    OBVIOUS
  <2>14. PICK x : x = Rewrote(base[i], wide, m)
    OBVIOUS
  <2>7. /\ x \in GuestCall /\ x.wide = wide /\ (x.mixed <=> m)
        /\ SameCall(base[i], x) /\ x.passed = base[i].passed
        /\ x.copy = base[i].copy /\ x.before = base[i].before /\ x.want = base[i].want
    <3>1. PICK b \in GuestCall : b = base[i]
      BY <2>5
    <3>2. x = Rewrote(b, wide, m)
      BY <2>14, <3>1
    <3>3. /\ x \in GuestCall /\ x.wide = wide /\ (x.mixed <=> m)
          /\ SameCall(b, x) /\ x.passed = b.passed
          /\ x.copy = b.copy /\ x.before = b.before /\ x.want = b.want
      BY <3>2, Rewritten, SMT
    <3> QED BY <3>1, <3>3
  <2>8. widened = With(base, i, x)
    BY <1>12, <2>4, <2>5, <2>6, <2>14 DEF Rewrote, With
  <2>9. /\ widened \in Seq(Frame) /\ AllMove(stack, widened) /\ FramesRight(widened)
        /\ widened[D] \in GuestCall /\ widened[D].passed = g.passed + 1 /\ widened[D].passed > 0
        /\ widened[D].msg = g.msg /\ (widened[D].noted <=> g.noted)
        /\ widened[i] = x /\ (i = D \/ x.mixed)
        /\ i = D /\ g.msg = "answer" /\ ~x.mixed => x.wide = x.want
    <3>1. CASE i = D
      <4>1. f = g /\ base[i] = passer /\ wide = Widened(g, g.copy) /\ (m <=> passer.mixed) /\ g.noted
        BY <1>3, <1>12, <2>3, <2>4, <2>6, <3>1
      <4>2. g.msg = "answer" /\ ~g.mixed => g.want = wide
        BY <1>8, <4>1 DEF CopyRight
      <4>3. g.msg = "answer" => wide = IF g.copy # Narrow(wide) THEN g.copy ELSE wide
        BY <1>10, <4>1, WidenedAgain
      <4>4. /\ SameCall(g, x) /\ x.passed = g.passed + 1 /\ x.passed > 0 /\ (x.mixed <=> g.mixed)
            /\ x.copy = g.copy /\ x.want = g.want /\ x.wide = wide /\ x.msg = g.msg
        BY <1>7, <2>7, <4>1 DEF SameCall
      <4>5. CopyRight(x)
        <5>1. CASE g.msg = "answer" /\ ~g.mixed
          <6>1. x.want = wide /\ x.passed # 0
            BY <1>10, <4>2, <4>4, <5>1
          <6>2. Widened(x, x.copy) = wide
            BY <4>3, <4>4, <5>1 DEF Widened
          <6> QED BY <6>1, <6>2 DEF CopyRight
        <5>2. CASE ~(g.msg = "answer" /\ ~g.mixed)
          BY <4>4, <5>2 DEF CopyRight
        <5> QED BY <5>1, <5>2
      <4>6. Moves(g, x)
        BY <1>10, <4>4, <4>5 DEF Moves
      <4>7. x \in Frame /\ widened = With(stack, Len(stack), x) /\ stack[Len(stack)] = g
        <5>1. widened = [stack EXCEPT ![D] = x]
          BY <1>1, <1>3, <2>8, <3>1 DEF base, With
        <5> QED BY <1>1, <1>3, <2>5, <2>7, <5>1 DEF Frame, With
      <4>8. /\ widened \in Seq(Frame) /\ widened[Len(stack)] = x /\ AllMove(stack, widened)
        <5>1. stack[Len(stack)] \in GuestCall => Moves(stack[Len(stack)], x)
          BY <4>6, <4>7, Zenon
        <5>2. stack[Len(stack)] \notin HostDoing
          BY <4>7, TwoKinds DEF Frame
        <5> QED BY <1>1, <4>7, <5>1, <5>2, OnlyTopMoves, ZenonT(60)
      <4>9. FramesRight(widened)
        BY <1>1, <4>8, MoveKeeps
      <4>10. widened[D] = x /\ widened[i] = x /\ x \in GuestCall
        BY <2>5, <2>7, <3>1, <4>8
      <4>11. x.passed > 0 /\ (x.noted <=> g.noted) /\ x.msg = g.msg
        BY <4>4 DEF SameCall
      <4> QED BY <3>1, <4>2, <4>4, <4>8, <4>9, <4>10, <4>11
    <3>2. CASE i # D
      <4>1. ~g.noted /\ x.mixed
        BY <1>5, <2>6, <2>7, <3>2
      <4>2. i # Len(stack) /\ i \in 1 .. Len(stack) /\ stack[i] \in GuestCall
        BY <1>12, <2>3, <2>5, <3>2
      <4> HIDE DEF widened
      <4>3. /\ widened \in Seq(Frame) /\ Len(widened) = Len(stack) /\ widened[i] = x
            /\ AllMove(stack, widened) /\ \A j \in 1 .. Len(stack) : j # i => widened[j] = base[j]
        BY <1>1, <1>12, <2>7, <2>8, <4>1, <4>2, OneIsMixed
      <4>4. widened[D] = passer
        BY <1>3, <1>12, <3>2, <4>3
      <4>5. FramesRight(widened)
        BY <1>1, <4>3, MoveKeeps
      <4> QED BY <1>7, <3>2, <4>1, <4>3, <4>4, <4>5 DEF SameCall
    <3> QED BY <3>1, <3>2
  <2> HIDE DEF widened
  <2>10. PassedOnRight(h, D + 1, widened[D], widened[h.of])
    <3>1. D + 1 > 1 /\ D + 1 - 1 = D
      BY <1>3
    <3>2. h.same /\ widened[D].noted => h.of = D
      BY <1>5, <2>2, <2>9
    <3>3. h.read > 0 => ~widened[D].noted
      BY <1>14, <2>2, <2>9
    <3>4. x \in GuestCall /\ x.noted /\ x.msg = h.msg
      <4>1. base[i].msg = g.msg /\ base[i].noted
        <5>1. i = D => base[i] = passer /\ g.noted
          BY <1>3, <1>12, <2>3
        <5>2. i # D => base[i] = f
          BY <1>3, <1>12, <2>3
        <5> QED BY <1>7, <2>3, <5>1, <5>2 DEF SameCall
      <4> QED BY <2>2, <2>7, <4>1 DEF SameCall
    <3>5. widened[h.of] = x /\ h.of = i
      BY <2>2, <2>9
    <3>6. i # D => ~widened[D].noted
      BY <1>5, <2>9
    <3>7. h.of = D /\ h.msg = "answer" /\ ~widened[D].mixed => widened[D].wide = widened[D].want
      BY <2>2, <2>9, <3>5
    <3> HIDE DEF f
    <3> QED BY <2>2, <2>3, <2>9, <3>1, <3>2, <3>3, <3>4, <3>5, <3>6, <3>7 DEF PassedOnRight
  <2>11. PassedOnRight(h, Depth + 1, widened[Depth], widened[h.of])
    BY <1>3, <2>10
  <2>12. widened[Depth].passed = Top.passed + 1
    BY <1>2, <1>3, <2>9
  <2>13. h.after <=> Top.msg = "setsel" /\ how = "proc" /\ ScrollAfter(Top.hwnd, wp)
    BY <1>2, <1>13, <2>2
  <2> QED BY <1>2, <2>1, <2>2, <2>9, <2>11, <2>12, <2>13, Zenon
<1> QED BY <1>16, <1>17

-----------------------------------------------------------------------------
(* Calls and doings begin.                                                  *)

LEMMA CallMade ==
    FwdTypes =>
    \A hwnd \in Edits \cup Owns, msg \in Messages, wp \in Flags, lp \in Int,
       wide \in Nat, flag \in {-1, 0, 1} :
        LET g == Call(hwnd, msg, wp, lp, wide, flag)
        IN  g \in GuestCall /\ CopyRight(g) /\ (g.noted <=> Len(inflight) < MAX_INFLIGHT)
<1> SUFFICES
      ASSUME FwdTypes, NEW hwnd \in Edits \cup Owns, NEW msg \in Messages, NEW wp \in Flags,
             NEW lp \in Int, NEW wide \in Nat, NEW flag \in {-1, 0, 1}
      PROVE  LET g == Call(hwnd, msg, wp, lp, wide, flag)
             IN  g \in GuestCall /\ CopyRight(g) /\ (g.noted <=> Len(inflight) < MAX_INFLIGHT)
  OBVIOUS
<1>1. PICK at \in Int : at = IF msg \in Pointers \cup Structs THEN Depth + 1 ELSE lp
  <2>1. Depth + 1 \in Int
    BY DEF FwdTypes, Depth
  <2> QED BY <2>1
<1>2. PICK c \in Narrowed : c = Narrow(wide)
  BY DEF Narrowed, Narrow
<1>3. PICK room \in BOOLEAN : room = (Len(inflight) < MAX_INFLIGHT)
  <2>1. (Len(inflight) < MAX_INFLIGHT) \in BOOLEAN
    OBVIOUS
  <2> QED BY <2>1, Zenon
<1>4. PICK g : g = [who |-> "guest", hwnd |-> hwnd, msg |-> msg, wp |-> wp, lp |-> at,
                    wide |-> wide, copy |-> c, before |-> c, want |-> wide,
                    noted |-> room, passed |-> 0, sent |-> flag, mixed |-> FALSE]
  OBVIOUS
<1>5. g = Call(hwnd, msg, wp, lp, wide, flag)
  BY <1>1, <1>2, <1>3, <1>4, Zenon DEF Call
<1>6. /\ g \in GuestCall /\ g.wide = wide /\ g.copy = c /\ g.before = c /\ g.want = wide
      /\ (g.noted <=> room)
  BY <1>4 DEF GuestCall
<1>7. CopyRight(g)
  BY <1>2, <1>6 DEF CopyRight, Widened
<1> QED BY <1>3, <1>5, <1>6, <1>7

LEMMA EnterKeeps ==
    ASSUME FwdTypes, NEW s \in Seq(Frame), Len(s) = Depth, FramesRight(s), Remembers(s, inflight),
           NEW g \in GuestCall, CopyRight(g), g.noted <=> Len(inflight) < MAX_INFLIGHT
    PROVE  /\ Append(s, g) \in Seq(Frame) /\ FramesRight(Append(s, g))
           /\ Pushed(inflight, Depth + 1) \in Seq(Nat)
           /\ Remembers(Append(s, g), Pushed(inflight, Depth + 1))
<1>0. g \in Frame /\ g \notin HostDoing
  BY TwoKinds DEF Frame
<1>1. /\ Append(s, g) \in Seq(Frame) /\ Append(s, g)[Len(s) + 1] = g
  BY <1>0, Grown
<1>2. FrameRight(Append(s, g), Len(s) + 1)
  BY <1>0, <1>1, Zenon DEF FrameRight
<1>3. FramesRight(Append(s, g))
  BY <1>0, <1>2, PushKeeps
<1>4. inflight \in Seq(Nat) /\ Depth + 1 \in Nat
  BY DEF FwdTypes, Depth
<1>5. Append(inflight, Depth + 1) \in Seq(Nat)
  BY <1>4
<1>6. Pushed(inflight, Depth + 1) = IF g.noted THEN Append(inflight, Len(s) + 1) ELSE inflight
  BY DEF Pushed
<1>7. /\ g.noted => Remembers(Append(s, g), Append(inflight, Len(s) + 1))
      /\ ~g.noted => Remembers(Append(s, g), inflight)
  BY <1>4, CallRemembered
<1> QED BY <1>1, <1>3, <1>4, <1>5, <1>6, <1>7, Zenon

\* What the host begins for the guest: it passes a message on, or it does not.
LEMMA BeginKeeps ==
    ASSUME NEW s \in Seq(Frame), NEW inf \in Seq(Nat), FramesRight(s), Remembers(s, inf),
           NEW h \in HostDoing,
           h.how \in Passing => PassedOnRight(h, Len(s) + 1, s[Len(s)], s[h.of]),
           h.how \notin Passing => h.of = 0 /\ h.read = 0 /\ h.msg # "answer"
    PROVE  /\ Append(s, h) \in Seq(Frame) /\ FramesRight(Append(s, h))
           /\ Remembers(Append(s, h), inf)
<1>0. h \in Frame /\ h \notin GuestCall /\ h.of \in Nat
  BY TwoKinds, HostFacts DEF Frame
<1> DEFINE t == Append(s, h)
<1>1. /\ t \in Seq(Frame) /\ t[Len(s) + 1] = h /\ \A i \in 1 .. Len(s) : t[i] = s[i]
  BY <1>0, Grown
<1>2. Len(s) \in Nat /\ Len(s) + 1 - 1 = Len(s)
  OBVIOUS
<1> HIDE DEF t
<1>3. FrameRight(t, Len(s) + 1)
  <2>1. CASE h.how \in Passing
    <3>1. PassedOnRight(h, Len(s) + 1, s[Len(s)], s[h.of])
      BY <2>1
    <3>2. Len(s) \in 1 .. Len(s) /\ (h.of # 0 => h.of \in 1 .. Len(s))
      BY <1>2, <3>1 DEF PassedOnRight
    <3>3. t[Len(s)] = s[Len(s)] /\ (h.of # 0 => t[h.of] = s[h.of])
      BY <1>1, <3>2
    <3>4. PassedOnRight(h, Len(s) + 1, t[Len(s)], t[h.of])
      <4>1. CASE h.of = 0
        BY <3>1, <3>3, <4>1, Zenon DEF PassedOnRight
      <4>2. CASE h.of # 0
        BY <3>1, <3>3, <4>2, Zenon
      <4> QED BY <4>1, <4>2
    <3> QED BY <1>0, <1>1, <1>2, <2>1, <3>4 DEF FrameRight
  <2>2. CASE h.how \notin Passing
    BY <1>0, <1>1, <2>2, Zenon DEF FrameRight
  <2> QED BY <2>1, <2>2
<1> QED BY <1>0, <1>1, <1>3, PushKeeps, HostForgotten DEF t

LEMMA FlagTypes ==
    FwdTypes => \A hwnd \in Edits \cup Owns, ends \in Int :
                  FlagFor(hwnd, ends) \in Flags /\ AfterTaking(hwnd, ends) \in Selecting
<1>1. FwdTypes => \A hwnd \in Edits \cup Owns, ends \in Int : FlagFor(hwnd, ends) \in Flags
  BY DEF FwdTypes, FlagFor, Flags, Selecting
<1>2. NoSetsel \in Selecting
  BY DEF NoSetsel, Selecting, Flags
<1> QED BY <1>1, <1>2 DEF FwdTypes, AfterTaking

\* The stack, and what is remembered of it, is what a step is about.
LEMMA InvFrom ==
    /\ stack' \in Seq(Frame) /\ inflight' \in Seq(Nat)
    /\ setselOut' \in Selecting /\ queue' \in Seq(Queued) /\ subclassed' \in SUBSET Edits
    /\ asked' \in 0 .. MaxAsked /\ scrolled' \in Nat /\ tampered' \in BOOLEAN
    /\ kinds' \in SUBSET (Messages \ {"caret"})
    /\ FramesRight(stack') /\ Remembers(stack', inflight')
    => FwdInv'
BY DEF FwdInv, FwdTypes

LEMMA TopIsLast ==
    FwdInv => /\ FwdTypes /\ stack \in Seq(Frame) /\ inflight \in Seq(Nat)
              /\ FramesRight(stack) /\ Remembers(stack, inflight)
              /\ Depth = Len(stack) /\ Depth \in Nat /\ Top = stack[Len(stack)]
              /\ stack # << >> => Top \in Frame /\ Depth \in 1 .. Len(stack)
<1> SUFFICES ASSUME FwdInv
             PROVE  /\ FwdTypes /\ stack \in Seq(Frame) /\ inflight \in Seq(Nat)
                    /\ FramesRight(stack) /\ Remembers(stack, inflight)
                    /\ Depth = Len(stack) /\ Depth \in Nat /\ Top = stack[Len(stack)]
                    /\ stack # << >> => Top \in Frame /\ Depth \in 1 .. Len(stack)
  OBVIOUS
<1>1. /\ FwdTypes /\ stack \in Seq(Frame) /\ inflight \in Seq(Nat)
      /\ FramesRight(stack) /\ Remembers(stack, inflight)
      /\ Depth = Len(stack) /\ Top = stack[Len(stack)]
  BY DEF FwdInv, FwdTypes, Depth, Top
<1>2. Len(stack) \in Nat
  BY <1>1
<1>3. stack # << >> => Len(stack) \in 1 .. Len(stack) /\ stack[Len(stack)] \in Frame
  BY <1>1
<1> QED BY <1>1, <1>2, <1>3, Zenon

\* What a message of the host's own brings.
HostSent(hwnd, msg, wp, lp, wide) ==
    /\ Enter(hwnd, msg, wp, lp, wide, -1)
    /\ msg # "caret"
    /\ msg = "setsel" => hwnd \in Edits /\ lp \in {10, 11} /\ wp = FlagFor(hwnd, lp)

LEMMA HostSendsShape ==
    FwdInv /\ HostSends =>
      \E hwnd \in Edits \cup Owns, msg \in Messages, wp \in Flags, lp \in Int, wide \in Nat :
         HostSent(hwnd, msg, wp, lp, wide)
<1> SUFFICES ASSUME FwdInv, HostSends
             PROVE  \E hwnd \in Edits \cup Owns, msg \in Messages, wp \in Flags, lp \in Int,
                       wide \in Nat : HostSent(hwnd, msg, wp, lp, wide)
  OBVIOUS
<1>1. PICK hwnd \in Edits \cup Owns : \E msg \in MessagesOf(hwnd) :
       /\ HasGuestProc(hwnd)
       /\ IF msg = "setsel"
          THEN \E ends \in {10, 11} : Enter(hwnd, msg, FlagFor(hwnd, ends), ends, 0, -1)
          ELSE \E wp \in {0, 1} :
               \E wide \in (IF msg \in Structs THEN {0, 2} ELSE {0}) :
                  Enter(hwnd, msg, wp, 0, wide, -1)
  BY DEF HostSends
<1>2. PICK msg \in MessagesOf(hwnd) :
       IF msg = "setsel"
          THEN \E ends \in {10, 11} : Enter(hwnd, msg, FlagFor(hwnd, ends), ends, 0, -1)
          ELSE \E wp \in {0, 1} :
               \E wide \in (IF msg \in Structs THEN {0, 2} ELSE {0}) :
                  Enter(hwnd, msg, wp, 0, wide, -1)
  BY <1>1
<1>3. msg \in Messages /\ msg # "caret" /\ (msg = "setsel" => hwnd \in Edits)
  BY DEF MessagesOf, Messages, Structs, Pointers
<1>4. FwdTypes
  BY DEF FwdInv
<1>5. CASE msg = "setsel"
  <2>1. PICK ends \in {10, 11} : Enter(hwnd, msg, FlagFor(hwnd, ends), ends, 0, -1)
    BY <1>2, <1>5
  <2>2. ends \in Int /\ 0 \in Nat
    OBVIOUS
  <2>3. FlagFor(hwnd, ends) \in Flags
    BY <1>4, <2>2, FlagTypes
  <2>4. HostSent(hwnd, msg, FlagFor(hwnd, ends), ends, 0)
    BY <1>3, <2>1, Zenon DEF HostSent
  <2> QED BY <1>3, <2>2, <2>3, <2>4, Zenon
<1>6. CASE msg # "setsel"
  <2>1. PICK wp \in {0, 1}, wide \in (IF msg \in Structs THEN {0, 2} ELSE {0}) :
           Enter(hwnd, msg, wp, 0, wide, -1)
    BY <1>2, <1>6
  <2>2. wp \in Flags /\ 0 \in Int /\ wide \in Nat
    BY DEF Flags
  <2>3. HostSent(hwnd, msg, wp, 0, wide)
    BY <1>3, <1>6, <2>1, Zenon DEF HostSent
  <2> QED BY <1>3, <2>2, <2>3, Zenon
<1> QED BY <1>5, <1>6

LEMMA HostSendsKeeps == FwdInv /\ HostSends => FwdInv'
<1> SUFFICES ASSUME FwdInv, HostSends PROVE FwdInv'
  OBVIOUS
<1>1. PICK hwnd \in Edits \cup Owns, msg \in Messages, wp \in Flags, lp \in Int, wide \in Nat :
         Enter(hwnd, msg, wp, lp, wide, -1)
  BY HostSendsShape, Zenon DEF HostSent
<1>2. PICK g : g = Call(hwnd, msg, wp, lp, wide, -1)
  OBVIOUS
<1>3. g \in GuestCall /\ CopyRight(g) /\ (g.noted <=> Len(inflight) < MAX_INFLIGHT)
  <2>1. -1 \in {-1, 0, 1}
    OBVIOUS
  <2> QED BY <1>2, <2>1, TopIsLast, CallMade
<1>4. /\ stack' = Append(stack, g) /\ inflight' = Pushed(inflight, Depth + 1)
      /\ setselOut' = IF msg = "setsel" THEN AfterTaking(hwnd, lp) ELSE setselOut
  BY <1>1, <1>2, Zenon DEF Enter
<1>5. /\ stack' \in Seq(Frame) /\ FramesRight(stack') /\ inflight' \in Seq(Nat)
      /\ Remembers(stack', inflight')
  BY <1>3, <1>4, TopIsLast, EnterKeeps
<1>6. setselOut' \in Selecting
  BY <1>4, TopIsLast, FlagTypes DEF FwdTypes
<1>7. UNCHANGED <<queue, subclassed, asked, scrolled, tampered, kinds>>
  BY DEF HostSends
<1> QED BY <1>5, <1>6, <1>7, InvFrom DEF FwdInv, FwdTypes

\* What the guest sends, itself or by dispatching it: the host's frame on top.
LEMMA SentKeeps ==
    ASSUME FwdInv, NEW hwnd \in Edits, NEW msg \in Messages, NEW wp \in Flags, NEW lp \in Int,
           NEW after \in BOOLEAN, msg # "answer",
           stack' = Append(stack, HostFrame("send", hwnd, msg, wp, lp, 0, after, 0)),
           inflight' = inflight
    PROVE  stack' \in Seq(Frame) /\ FramesRight(stack') /\ Remembers(stack', inflight')
<1>1. PICK h : h = HostFrame("send", hwnd, msg, wp, lp, 0, after, 0)
  OBVIOUS
<1>2. "send" \in Hows /\ hwnd \in Edits \cup Owns /\ 0 \in Nat /\ 0 \in Int /\ "send" \notin Passing
  BY DEF Hows, Passing
<1>3. h \in HostDoing /\ h.how = "send" /\ h.of = 0 /\ h.read = 0 /\ h.msg = msg
  <2>1. FwdTypes
    BY DEF FwdInv
  <2> QED BY <1>1, <1>2, <2>1, HostMade
<1>4. stack' = Append(stack, h)
  BY <1>1
<1> QED BY <1>2, <1>3, <1>4, TopIsLast, BeginKeeps

LEMMA SendKeeps == FwdInv /\ Send => FwdInv'
<1> SUFFICES ASSUME FwdInv, Send PROVE FwdInv'
  OBVIOUS
<1>1. PICK hwnd \in Edits, msg \in kinds \cap {"setsel", "text"}, flag \in {0, 1} :
       \E lp \in IF msg = "setsel" THEN {10, 11} ELSE {-1} :
          /\ stack' = Append(stack, HostFrame("send", hwnd, msg, flag, lp, 0,
                                               Follows(hwnd, msg, flag), 0))
          /\ setselOut' = IF Carries(hwnd, msg) THEN [hwnd |-> hwnd, ends |-> lp, flag |-> flag]
                                                ELSE setselOut
          /\ asked' = IF msg = "setsel" /\ ScrollAfter(hwnd, flag) THEN asked + 1 ELSE asked
  BY DEF Send
<1>2. PICK lp \in IF msg = "setsel" THEN {10, 11} ELSE {-1} :
          /\ stack' = Append(stack, HostFrame("send", hwnd, msg, flag, lp, 0,
                                               Follows(hwnd, msg, flag), 0))
          /\ setselOut' = IF Carries(hwnd, msg) THEN [hwnd |-> hwnd, ends |-> lp, flag |-> flag]
                                                ELSE setselOut
          /\ asked' = IF msg = "setsel" /\ ScrollAfter(hwnd, flag) THEN asked + 1 ELSE asked
  BY <1>1
<1>3. /\ asked < MaxAsked /\ UNCHANGED <<inflight, queue, subclassed, scrolled, tampered, kinds>>
  BY DEF Send
<1>4. msg \in Messages /\ msg # "answer" /\ flag \in Flags /\ lp \in Int
  BY DEF Messages, Structs, Pointers, Flags
<1>5. PICK after \in BOOLEAN : after = Follows(hwnd, msg, flag)
  <2>1. Follows(hwnd, msg, flag) \in BOOLEAN
    BY Zenon DEF Follows
  <2> QED BY <2>1, Zenon
<1>6. stack' = Append(stack, HostFrame("send", hwnd, msg, flag, lp, 0, after, 0))
  BY <1>2, <1>5, Zenon
<1>7. stack' \in Seq(Frame) /\ FramesRight(stack') /\ Remembers(stack', inflight')
  BY <1>3, <1>4, <1>6, SentKeeps
<1>8. setselOut' \in Selecting
  BY <1>2, <1>4 DEF FwdInv, FwdTypes, Selecting
<1>9. asked' \in 0 .. MaxAsked
  BY <1>2, <1>3, ForwardingConstants DEF FwdInv, FwdTypes
<1> QED BY <1>3, <1>7, <1>8, <1>9, InvFrom DEF FwdInv, FwdTypes

LEMMA PostKeeps == FwdInv /\ Post => FwdInv'
<1> SUFFICES ASSUME FwdInv, Post PROVE FwdInv'
  OBVIOUS
<1>1. PICK hwnd \in Edits, flag \in {0, 1}, ends \in {10, 11} :
       /\ queue' = queue \o << [hwnd |-> hwnd, msg |-> "setsel", lp |-> ends] >>
                   \o (IF ScrollAfter(hwnd, flag)
                       THEN << [hwnd |-> hwnd, msg |-> "caret", lp |-> 0] >> ELSE << >>)
       /\ asked' = IF ScrollAfter(hwnd, flag) THEN asked + 1 ELSE asked
  BY DEF Post
<1>2. asked < MaxAsked /\ UNCHANGED <<stack, inflight, setselOut, subclassed, scrolled, tampered, kinds>>
  BY DEF Post
<1> DEFINE first == [hwnd |-> hwnd, msg |-> "setsel", lp |-> ends]
           second == [hwnd |-> hwnd, msg |-> "caret", lp |-> 0]
<1>3. first \in Queued /\ second \in Queued
  BY DEF Queued
<1> HIDE DEF first, second
<1>4. queue \in Seq(Queued) /\ << first >> \in Seq(Queued) /\ << second >> \in Seq(Queued)
      /\ << >> \in Seq(Queued)
  BY <1>3 DEF FwdInv, FwdTypes
<1>5. queue \o << first >> \in Seq(Queued)
  BY <1>4
<1>6. /\ (queue \o << first >>) \o << second >> \in Seq(Queued)
      /\ (queue \o << first >>) \o << >> \in Seq(Queued)
  BY <1>4, <1>5
<1>7. \/ queue' = (queue \o << first >>) \o << second >>
      \/ queue' = (queue \o << first >>) \o << >>
  BY <1>1, Zenon DEF first, second
<1>8. queue' \in Seq(Queued)
  BY <1>6, <1>7, Zenon
<1>9. asked' \in 0 .. MaxAsked
  BY <1>1, <1>2, ForwardingConstants DEF FwdInv, FwdTypes
<1> QED BY <1>2, <1>8, <1>9, InvFrom DEF FwdInv, FwdTypes

LEMMA LoopKeeps == FwdInv /\ LoopDispatches => FwdInv'
<1> SUFFICES ASSUME FwdInv, LoopDispatches PROVE FwdInv'
  OBVIOUS
<1>1. PICK m : m = Head(queue)
  OBVIOUS
<1>2. m \in Queued /\ Tail(queue) \in Seq(Queued)
  <2>1. queue \in Seq(Queued) /\ queue # << >>
    BY DEF LoopDispatches, FwdInv, FwdTypes
  <2> QED BY <1>1, <2>1
<1>3. m.hwnd \in Edits /\ m.msg \in Messages /\ m.msg # "answer" /\ m.lp \in Int
  BY <1>2 DEF Queued, Messages, Structs, Pointers
<1>4. PICK packed : packed = IF m.msg = "setsel" THEN FlagFor(m.hwnd, m.lp) ELSE 0
  OBVIOUS
<1>5. PICK flag \in (IF m.msg = "setsel" THEN {0, 1} ELSE {0}) :
              /\ stack' = Append(stack, HostFrame("send", m.hwnd, m.msg, flag, m.lp, 0,
                                                   Follows(m.hwnd, m.msg, flag), 0))
              /\ setselOut' = IF Carries(m.hwnd, m.msg)
                              THEN [hwnd |-> m.hwnd, ends |-> m.lp, flag |-> flag] ELSE setselOut
              /\ tampered' = (tampered \/ flag # packed)
  BY <1>1, <1>4, Zenon DEF LoopDispatches
<1>6. queue' = Tail(queue) /\ UNCHANGED <<inflight, subclassed, asked, scrolled, kinds>>
  BY DEF LoopDispatches
<1>7. flag \in Flags
  BY DEF Flags
<1>8. PICK after \in BOOLEAN : after = Follows(m.hwnd, m.msg, flag)
  <2>1. Follows(m.hwnd, m.msg, flag) \in BOOLEAN
    BY Zenon DEF Follows
  <2> QED BY <2>1, Zenon
<1>9. stack' = Append(stack, HostFrame("send", m.hwnd, m.msg, flag, m.lp, 0, after, 0))
  BY <1>5, <1>8, Zenon
<1>10. stack' \in Seq(Frame) /\ FramesRight(stack') /\ Remembers(stack', inflight')
  BY <1>3, <1>6, <1>7, <1>9, SentKeeps
<1>11. setselOut' \in Selecting
  <2>1. [hwnd |-> m.hwnd, ends |-> m.lp, flag |-> flag] \in Selecting
    BY <1>3, <1>7 DEF Selecting
  <2>2. setselOut \in Selecting
    BY DEF FwdInv, FwdTypes
  <2> QED BY <1>5, <2>1, <2>2, Zenon
<1>12. tampered' \in BOOLEAN
  BY <1>5, Zenon
<1> QED BY <1>2, <1>6, <1>10, <1>11, <1>12, InvFrom DEF FwdInv, FwdTypes

LEMMA ArrivesKeeps == FwdInv /\ SendArrives => FwdInv'
<1> SUFFICES ASSUME FwdInv, SendArrives PROVE FwdInv'
  OBVIOUS
<1>1. PICK f :
        /\ f = [Top EXCEPT !.how = "sent"]
        /\ stack' = Append(WithTop(f),
                         Call(f.hwnd, f.msg,
                              IF f.msg = "setsel" THEN FlagFor(f.hwnd, f.lp) ELSE f.wp,
                              f.lp, 0, IF f.msg = "setsel" THEN f.wp ELSE -1))
        /\ inflight' = Pushed(inflight, Depth + 1)
        /\ setselOut' = IF f.msg = "setsel" THEN AfterTaking(f.hwnd, f.lp) ELSE setselOut
  <2>1. LET f == [Top EXCEPT !.how = "sent"]
        IN  /\ stack' = Append(WithTop(f),
                         Call(f.hwnd, f.msg,
                              IF f.msg = "setsel" THEN FlagFor(f.hwnd, f.lp) ELSE f.wp,
                              f.lp, 0, IF f.msg = "setsel" THEN f.wp ELSE -1))
            /\ inflight' = Pushed(inflight, Depth + 1)
            /\ setselOut' = IF f.msg = "setsel" THEN AfterTaking(f.hwnd, f.lp) ELSE setselOut
    BY DEF SendArrives
  <2> QED BY <2>1, Zenon
<1>2. PICK t : t = WithTop(f)
  OBVIOUS
<1>3. /\ stack' = Append(t, Call(f.hwnd, f.msg,
                              IF f.msg = "setsel" THEN FlagFor(f.hwnd, f.lp) ELSE f.wp,
                              f.lp, 0, IF f.msg = "setsel" THEN f.wp ELSE -1))
      /\ inflight' = Pushed(inflight, Depth + 1)
      /\ setselOut' = IF f.msg = "setsel" THEN AfterTaking(f.hwnd, f.lp) ELSE setselOut
      /\ UNCHANGED <<queue, subclassed, asked, scrolled, tampered, kinds>>
      /\ OnItsWay
  <2>1. OnItsWay /\ UNCHANGED <<queue, subclassed, asked, scrolled, tampered, kinds>>
    BY DEF SendArrives
  <2> QED BY <1>1, <1>2, <2>1, Zenon
<1>4. /\ FwdTypes /\ stack \in Seq(Frame) /\ inflight \in Seq(Nat) /\ FramesRight(stack)
      /\ Remembers(stack, inflight) /\ Depth = Len(stack) /\ Top = stack[Len(stack)]
      /\ stack # << >> /\ Top \in Frame
  BY <1>3, TopIsLast DEF OnItsWay
<1>5. Top \in HostDoing /\ Top.how = "send"
  BY <1>3, <1>4, TwoKinds DEF OnItsWay
<1>6. f \in HostDoing /\ SameDoing(Top, f) /\ f.how = "sent" /\ f \in Frame
  <2>1. f \in HostDoing /\ f.how = "sent"
    BY <1>1, <1>5 DEF HostDoing, Hows
  <2>2. SameDoing(Top, f)
    BY <1>1, <1>5, <2>1 DEF SameDoing, HostDoing
  <2> QED BY <2>1, <2>2 DEF Frame
<1>7. t \in Seq(Frame) /\ Len(t) = Len(stack) /\ AllMove(stack, t)
  <2>1. t = With(stack, Len(stack), f)
    BY <1>2, <1>4 DEF WithTop, With
  <2>2. stack[Len(stack)] \notin GuestCall
    BY <1>4, <1>5, TwoKinds
  <2> QED BY <1>4, <1>5, <1>6, <2>1, <2>2, OnlyTopMoves
<1>8. FramesRight(t) /\ Remembers(t, inflight)
  BY <1>4, <1>7, MoveKeeps, MoveRemembered
<1>9. /\ f.hwnd \in Edits \cup Owns /\ f.msg \in Messages /\ f.wp \in Flags /\ f.lp \in Int
  BY <1>6, HostFacts
<1>10. PICK wp \in Flags : wp = IF f.msg = "setsel" THEN FlagFor(f.hwnd, f.lp) ELSE f.wp
  BY <1>4, <1>9, FlagTypes
<1>11. PICK flag \in {-1, 0, 1} : flag = IF f.msg = "setsel" THEN f.wp ELSE -1
  BY <1>9 DEF Flags
<1>12. PICK g : g = Call(f.hwnd, f.msg, wp, f.lp, 0, flag)
  OBVIOUS
<1>13. g \in GuestCall /\ CopyRight(g) /\ (g.noted <=> Len(inflight) < MAX_INFLIGHT)
  <2>1. 0 \in Nat
    OBVIOUS
  <2> QED BY <1>4, <1>9, <1>12, <2>1, CallMade
<1>14. stack' = Append(t, g)
  BY <1>3, <1>10, <1>11, <1>12, Zenon
<1>15. /\ stack' \in Seq(Frame) /\ FramesRight(stack') /\ inflight' \in Seq(Nat)
       /\ Remembers(stack', inflight')
  BY <1>3, <1>4, <1>7, <1>8, <1>13, <1>14, EnterKeeps
<1>16. setselOut' \in Selecting
  BY <1>3, <1>4, <1>9, FlagTypes DEF FwdTypes
<1> QED BY <1>3, <1>15, <1>16, InvFrom DEF FwdInv, FwdTypes

LEMMA PassesOnKeeps == FwdInv /\ PassesOn => FwdInv'
<1> SUFFICES ASSUME FwdInv, PassesOn PROVE FwdInv'
  OBVIOUS
<1>1. stack # << >> /\ Top.who = "guest" /\ UNCHANGED <<inflight, setselOut, queue, subclassed, asked, scrolled, kinds>>
  BY DEF PassesOn
<1>2. PICK how \in {"proc", "default"}, wp \in {0, 1} :
       \E lp \in {Top.lp} \cup (CASE Top.msg \in Pointers -> {-1}
                                 [] Top.msg = "setsel" -> {10, 11} [] OTHER -> {}) :
          /\ (Top.hwnd \in Owns => how = "default")
          /\ PassOn(how, wp, lp)
          /\ tampered' = (tampered \/ ( /\ Top.msg \in {"setsel", "caret"}
                                        /\ \/ how = "default" \/ Top.passed > 0
                                           \/ wp # Top.wp \/ lp # Top.lp))
  BY DEF PassesOn
<1>3. PICK lp \in {Top.lp} \cup (CASE Top.msg \in Pointers -> {-1}
                                 [] Top.msg = "setsel" -> {10, 11} [] OTHER -> {}) :
          /\ PassOn(how, wp, lp)
          /\ tampered' = (tampered \/ ( /\ Top.msg \in {"setsel", "caret"}
                                        /\ \/ how = "default" \/ Top.passed > 0
                                           \/ wp # Top.wp \/ lp # Top.lp))
  BY <1>2
<1>4. /\ stack \in Seq(Frame) /\ inflight \in Seq(Nat) /\ FramesRight(stack)
      /\ Remembers(stack, inflight) /\ Depth = Len(stack) /\ Top \in Frame
  BY <1>1, TopIsLast
<1>5. Top \in GuestCall
  BY <1>1, <1>4, TwoKinds
<1>6. Top.lp \in Int
  BY <1>5, GuestFacts
<1>7. /\ Top.msg \in Pointers => lp \in {Top.lp, -1}
      /\ lp \in {Top.lp, -1, 10, 11}
  <2>1. CASE Top.msg \in Pointers
    BY <2>1 DEF Pointers
  <2>2. CASE Top.msg \notin Pointers /\ Top.msg = "setsel"
    BY <2>2 DEF Pointers
  <2>3. CASE Top.msg \notin Pointers /\ Top.msg # "setsel"
    BY <2>3
  <2> QED BY <2>1, <2>2, <2>3
<1>8. lp \in Int /\ how \in Passing /\ wp \in Flags
  BY <1>6, <1>7 DEF Passing, Flags
<1>9. PICK t \in Seq(Frame), h \in HostDoing :
              /\ stack' = Append(t, h) /\ AllMove(stack, t)
              /\ PassedOnRight(h, Depth + 1, t[Depth], t[h.of])
              /\ h.how = how
  BY <1>1, <1>3, <1>5, <1>7, <1>8, PassShape
<1>10. Len(t) = Depth
  BY <1>4, <1>9 DEF AllMove
<1>11. FramesRight(t) /\ Remembers(t, inflight)
  BY <1>4, <1>9, MoveKeeps, MoveRemembered
<1>12. /\ h.how \in Passing => PassedOnRight(h, Len(t) + 1, t[Len(t)], t[h.of])
       /\ h.how \notin Passing => h.of = 0 /\ h.read = 0 /\ h.msg # "answer"
  BY <1>8, <1>9, <1>10
<1>13. stack' \in Seq(Frame) /\ FramesRight(stack') /\ Remembers(stack', inflight')
  BY <1>1, <1>4, <1>9, <1>11, <1>12, BeginKeeps
<1>14. tampered' \in BOOLEAN
  BY <1>3, Zenon
<1> QED BY <1>1, <1>13, <1>14, InvFrom DEF FwdInv, FwdTypes

LEMMA WritesShape ==
    FwdInv /\ Writes =>
      /\ stack # << >> /\ Top \in GuestCall /\ Top.msg = "answer"
      /\ stack' \in Seq(Frame) /\ AllMove(stack, stack')
<1> SUFFICES ASSUME FwdInv, Writes
             PROVE  /\ stack # << >> /\ Top \in GuestCall /\ Top.msg = "answer"
                    /\ stack' \in Seq(Frame) /\ AllMove(stack, stack')
  OBVIOUS
<1>1. /\ stack # << >> /\ Top.who = "guest" /\ Top.msg = "answer"
      /\ UNCHANGED <<inflight, setselOut, queue, subclassed, asked, scrolled, tampered, kinds>>
  BY DEF Writes
<1>2. PICK c \in Narrowed :
          stack' = WithTop([Top EXCEPT !.copy = c,
                                       !.want = IF c = Narrow(Top.wide) THEN Top.wide ELSE c])
  BY DEF Writes
<1>3. /\ stack \in Seq(Frame) /\ inflight \in Seq(Nat) /\ FramesRight(stack)
      /\ Remembers(stack, inflight) /\ Depth = Len(stack) /\ Top \in Frame
      /\ Top = stack[Len(stack)] /\ Depth \in 1 .. Len(stack)
  BY <1>1, TopIsLast
<1>4. Top \in GuestCall /\ Top \notin HostDoing
  BY <1>1, <1>3, TwoKinds
<1>5. PICK w \in Nat : w = IF c = Narrow(Top.wide) THEN Top.wide ELSE c
  <2>1. c \in Nat /\ Top.wide \in Nat
    BY <1>4, GuestFacts DEF Narrowed
  <2> QED BY <2>1
<1>6. PICK x : x = [Top EXCEPT !.copy = c, !.want = w]
  OBVIOUS
<1>7. /\ x \in GuestCall /\ SameCall(Top, x) /\ x.passed = Top.passed /\ (x.mixed <=> Top.mixed)
      /\ x.wide = Top.wide /\ x.copy = c /\ x.want = w /\ x.before = Top.before
  BY <1>4, <1>6 DEF GuestCall, SameCall
<1>8. CopyRight(Top) /\ Top.passed \in Nat
  BY <1>3, <1>4, GuestFacts DEF FramesRight, FrameRight
<1>9. CopyRight(x)
  BY <1>1, <1>5, <1>7, <1>8 DEF CopyRight, Widened, SameCall
<1>10. Moves(Top, x)
  BY <1>7, <1>8, <1>9 DEF Moves
<1>11. stack' = With(stack, Len(stack), x)
  BY <1>2, <1>3, <1>5, <1>6 DEF WithTop, With
<1>12. stack' \in Seq(Frame) /\ AllMove(stack, stack')
  <2>1. x \in Frame
    BY <1>7 DEF Frame
  <2> QED BY <1>1, <1>3, <1>4, <1>10, <1>11, <2>1, OnlyTopMoves
<1> QED BY <1>1, <1>4, <1>12

LEMMA WritesKeeps == FwdInv /\ Writes => FwdInv'
<1> SUFFICES ASSUME FwdInv, Writes PROVE FwdInv'
  OBVIOUS
<1>1. UNCHANGED <<inflight, setselOut, queue, subclassed, asked, scrolled, tampered, kinds>>
  BY DEF Writes
<1>2. /\ stack \in Seq(Frame) /\ inflight \in Seq(Nat) /\ FramesRight(stack)
      /\ Remembers(stack, inflight)
  BY TopIsLast
<1>3. stack' \in Seq(Frame) /\ AllMove(stack, stack')
  BY WritesShape
<1>4. FramesRight(stack') /\ Remembers(stack', inflight')
  BY <1>1, <1>2, <1>3, MoveKeeps, MoveRemembered
<1> QED BY <1>1, <1>3, <1>4, InvFrom DEF FwdInv, FwdTypes

LEMMA ReturnsKeeps == FwdInv /\ Returns => FwdInv'
<1> SUFFICES ASSUME FwdInv, Returns PROVE FwdInv'
  OBVIOUS
<1>1. /\ stack # << >> /\ Top.who = "guest" /\ inflight' = Popped(Top) /\ stack' = Front(stack)
      /\ tampered' = (tampered \/ (Top.msg \in {"setsel", "caret"} /\ Top.passed = 0))
      /\ UNCHANGED <<setselOut, queue, subclassed, asked, scrolled, kinds>>
  BY DEF Returns
<1>2. /\ stack \in Seq(Frame) /\ inflight \in Seq(Nat) /\ FramesRight(stack)
      /\ Remembers(stack, inflight) /\ Top \in Frame /\ Top = stack[Len(stack)]
  BY <1>1, TopIsLast
<1>3. Top \in GuestCall
  BY <1>1, <1>2, TwoKinds
<1>4. stack' \in Seq(Frame) /\ FramesRight(stack')
  BY <1>1, <1>2, LastTaken, PopKeeps
<1>5. inflight' \in Seq(Nat) /\ Remembers(stack', inflight')
  <2>1. CASE Top.noted
    BY <1>1, <1>2, <1>3, <2>1, CallDone DEF Popped
  <2>2. CASE ~Top.noted
    BY <1>1, <1>2, <1>3, <2>2, HostDone DEF Popped
  <2> QED BY <2>1, <2>2
<1>6. tampered' \in BOOLEAN
  BY <1>1, Zenon
<1> QED BY <1>1, <1>4, <1>5, <1>6, InvFrom DEF FwdInv, FwdTypes

-----------------------------------------------------------------------------
(* The host answers.                                                        *)

Answered(f, v) == [f EXCEPT !.wide = v, !.want = v]
Copied(f, c) == [f EXCEPT !.copy = c]

LEMMA AnswerMade ==
    \A f \in GuestCall, v \in Nat :
        LET x == Answered(f, v)
        IN  /\ x \in GuestCall /\ SameCall(f, x) /\ x.passed = f.passed
            /\ (x.mixed <=> f.mixed) /\ x.wide = v /\ x.want = v
<1> SUFFICES
      ASSUME NEW f \in GuestCall, NEW v \in Nat
      PROVE  LET x == Answered(f, v)
             IN  /\ x \in GuestCall /\ SameCall(f, x) /\ x.passed = f.passed
                 /\ (x.mixed <=> f.mixed) /\ x.wide = v /\ x.want = v
  OBVIOUS
<1> DEFINE e == [f EXCEPT !.wide = v]
           g == [e EXCEPT !.want = v]
<1>1. /\ e \in GuestCall /\ e.wide = v /\ SameCall(f, e) /\ e.passed = f.passed
      /\ (e.mixed <=> f.mixed)
  BY DEF GuestCall, SameCall
<1>2. Answered(f, v) = g
  BY DEF GuestCall, Answered
<1> HIDE DEF e
<1>3. /\ g \in GuestCall /\ g.wide = e.wide /\ g.want = v /\ SameCall(e, g)
      /\ g.passed = e.passed /\ (g.mixed <=> e.mixed)
  BY <1>1 DEF GuestCall, SameCall
<1> HIDE DEF g
<1> QED BY <1>1, <1>2, <1>3 DEF SameCall

LEMMA CopyMade ==
    \A f \in GuestCall, c \in Narrowed :
        LET y == Copied(f, c)
        IN  /\ y \in GuestCall /\ SameCall(f, y) /\ y.passed = f.passed
            /\ (y.mixed <=> f.mixed) /\ y.wide = f.wide /\ y.want = f.want /\ y.copy = c
BY DEF Copied, GuestCall, SameCall

LEMMA InAnyOrder ==
    ASSUME NEW b \in Seq(Frame), NEW i \in 1 .. Len(b), NEW j \in 1 .. Len(b), i # j,
           NEW x, NEW y
    PROVE  With(With(b, i, x), j, y) = With(With(b, j, y), i, x)
BY DEF With

\* What an answer does to the calls under the host's frame: n is the one that
\* passed its message on, and f the one whose message it was taken for.
LEMMA AnswerMoves ==
    ASSUME NEW b \in Seq(Frame), b # << >>, FramesRight(b), NEW n \in 1 .. Len(b), n = Len(b),
           NEW of \in 1 .. n, NEW v \in Nat,
           b[n] \in GuestCall, b[n].passed > 0, b[n].msg = "answer",
           b[of] \in GuestCall, of # n => b[of].mixed /\ ~b[n].noted
    PROVE  LET t == [b EXCEPT ![of].wide = v, ![of].want = v, ![n].copy = Narrow(v)]
           IN  t \in Seq(Frame) /\ AllMove(b, t)
<1>1. PICK c \in Narrowed : c = Narrow(v)
  BY DEF Narrowed, Narrow
<1>2. PICK g \in GuestCall : g = b[n]
  OBVIOUS
<1>3. PICK f \in GuestCall : f = b[of]
  OBVIOUS
<1>4. PICK t : t = [b EXCEPT ![of].wide = v, ![of].want = v, ![n].copy = c]
  OBVIOUS
<1>5. g \notin HostDoing /\ f \notin HostDoing /\ g.passed \in Nat /\ f.passed \in Nat /\ g.passed > 0
  BY <1>2, TwoKinds, GuestFacts DEF Frame
<1>6. CASE of = n
  <2>1. PICK x : x = Answered(g, v)
    OBVIOUS
  <2>2. PICK y : y = Copied(x, c)
    OBVIOUS
  <2>3. /\ x \in GuestCall /\ SameCall(g, x) /\ x.passed = g.passed
        /\ (x.mixed <=> g.mixed) /\ x.wide = v /\ x.want = v
    BY <2>1, AnswerMade
  <2>4. /\ y \in GuestCall /\ SameCall(x, y) /\ y.passed = x.passed
        /\ (y.mixed <=> x.mixed) /\ y.wide = x.wide /\ y.want = x.want /\ y.copy = c
    BY <2>2, <2>3, CopyMade, SMT
  <2>5. CopyRight(y)
    BY <1>1, <1>5, <2>3, <2>4 DEF CopyRight, Widened
  <2>6. Moves(g, y) /\ y \in Frame
    BY <1>5, <2>3, <2>4, <2>5 DEF Moves, SameCall, Frame
  <2>7. t = With(b, Len(b), y)
    BY <1>2, <1>4, <1>6, <2>1, <2>2 DEF With, Answered, Copied
  <2>8. b[Len(b)] \notin HostDoing /\ (b[Len(b)] \in GuestCall => Moves(b[Len(b)], y))
    BY <1>2, <1>5, <2>6, Zenon
  <2>9. t \in Seq(Frame) /\ AllMove(b, t)
    BY <2>6, <2>7, <2>8, OnlyTopMoves
  <2> QED BY <1>1, <1>4, <2>9
<1>7. CASE of # n
  <2>1. PICK y : y = Copied(g, c)
    OBVIOUS
  <2>2. PICK x : x = Answered(f, v)
    OBVIOUS
  <2>3. /\ y \in GuestCall /\ SameCall(g, y) /\ y.passed = g.passed /\ (y.mixed <=> g.mixed)
        /\ ~y.noted
    <3>1. /\ y \in GuestCall /\ SameCall(g, y) /\ y.passed = g.passed /\ (y.mixed <=> g.mixed)
      BY <2>1, CopyMade
    <3> QED BY <1>2, <1>7, <3>1 DEF SameCall
  <2>4. Moves(g, y) /\ y \in Frame
    BY <1>5, <2>3 DEF Moves, CopyRight, Frame
  <2>5. PICK m : m = With(b, Len(b), y)
    OBVIOUS
  <2>6. b[Len(b)] \notin HostDoing /\ (b[Len(b)] \in GuestCall => Moves(b[Len(b)], y))
    BY <1>2, <1>5, <2>4, Zenon
  <2>7. /\ m \in Seq(Frame) /\ Len(m) = Len(b) /\ AllMove(b, m)
        /\ \A j \in 1 .. Len(b) - 1 : m[j] = b[j]
    BY <2>4, <2>5, <2>6, OnlyTopMoves
  <2>8. /\ x \in GuestCall /\ SameCall(f, x) /\ x.passed = f.passed
        /\ (x.mixed <=> f.mixed)
    BY <2>2, AnswerMade
  <2>9. m[of] = f /\ of \in 1 .. Len(b) /\ of # Len(b) /\ f.mixed
    BY <1>3, <1>7, <2>7
  <2>10. /\ With(m, of, x) \in Seq(Frame) /\ AllMove(b, With(m, of, x))
    BY <1>3, <2>7, <2>8, <2>9, OneIsMixed
  <2>11. t = With(m, of, x)
    <3>1. PICK u : u = With(b, of, x)
      OBVIOUS
    <3>2. u[n] = g /\ of \in 1 .. Len(b)
      BY <1>2, <1>7, <3>1 DEF With
    <3>3. u = [b EXCEPT ![of].wide = v, ![of].want = v]
      BY <1>3, <2>2, <3>1, <3>2 DEF With, Answered
    <3>4. t = [u EXCEPT ![n].copy = c]
      BY <1>4, <3>3
    <3>5. t = With(u, n, y)
      BY <2>1, <3>2, <3>4 DEF With, Copied
    <3>6. m = With(b, n, y)
      BY <2>5
    <3> QED BY <1>7, <3>1, <3>2, <3>5, <3>6, InAnyOrder
  <2> QED BY <1>1, <1>4, <2>10, <2>11
<1> QED BY <1>6, <1>7

\* What an answer leaves: the stack under the host's frame, and perhaps an
\* answer written to the call it was for.
LEMMA AnswersShape ==
    FwdInv /\ Answers =>
      \/ stack' = Front(stack)
      \/ /\ Front(stack) # << >> /\ stack' \in Seq(Frame) /\ AllMove(Front(stack), stack')
         /\ Front(stack)[Len(Front(stack))] \in GuestCall
         /\ Front(stack)[Len(Front(stack))].msg = "answer"
<1> SUFFICES ASSUME FwdInv, Answers
             PROVE  \/ stack' = Front(stack)
                    \/ /\ Front(stack) # << >> /\ stack' \in Seq(Frame)
                       /\ AllMove(Front(stack), stack')
                       /\ Front(stack)[Len(Front(stack))] \in GuestCall
                       /\ Front(stack)[Len(Front(stack))].msg = "answer"
  OBVIOUS
<1>1. stack # << >> /\ Top.who = "host" /\ ~OnItsWay /\ inflight' = inflight
  BY DEF Answers
<1>2. PICK h : h = Top
  OBVIOUS
<1>3. PICK below : below = Front(stack)
  OBVIOUS
<1>4. IF h.of # 0 /\ h.msg = "answer"
         THEN \E v \in {stack[h.of].wide, 1, 2} :
                stack' = [below EXCEPT ![h.of].wide = v, ![h.of].want = v,
                                       ![h.asker].copy = Refreshed(stack[h.asker], v)]
         ELSE stack' = below
  BY <1>2, <1>3, Zenon DEF Answers
<1>5. /\ stack \in Seq(Frame) /\ inflight \in Seq(Nat) /\ FramesRight(stack)
      /\ Remembers(stack, inflight) /\ h \in Frame /\ h = stack[Len(stack)]
      /\ Len(stack) \in 1 .. Len(stack)
  BY <1>1, <1>2, TopIsLast
<1>6. h \in HostDoing /\ h \notin GuestCall /\ h.of \in Nat
  BY <1>1, <1>2, <1>5, TwoKinds, HostFacts
<1>7. /\ Len(stack) \in Nat \ {0} /\ below \in Seq(Frame) /\ Len(below) = Len(stack) - 1
      /\ \A i \in 1 .. Len(stack) - 1 : below[i] = stack[i]
  BY <1>1, <1>3, <1>5, LastTaken
<1>8. FramesRight(below) /\ Remembers(below, inflight)
  BY <1>1, <1>3, <1>5, <1>6, PopKeeps, HostDone
<1>9. CASE ~(h.of # 0 /\ h.msg = "answer")
  BY <1>3, <1>4, <1>9
<1>10. CASE h.of # 0 /\ h.msg = "answer"
  <2>1. FrameRight(stack, Len(stack))
    BY <1>5 DEF FramesRight
  <2>2. PassedOnRight(h, Len(stack), stack[Len(stack) - 1], stack[h.of])
    BY <1>5, <1>6, <1>10, <2>1 DEF FrameRight
  <2>3. PICK n \in 1 .. Len(below) : n = Len(below) /\ n = Len(stack) - 1
    BY <1>7, <2>2 DEF PassedOnRight
  <2>4. h.of \in 1 .. n /\ stack[h.of] = below[h.of] /\ stack[n] = below[n]
    BY <1>7, <1>10, <2>2, <2>3 DEF PassedOnRight
  <2>5. /\ h.asker = n /\ below[n] \in GuestCall /\ below[n].passed > 0
        /\ below[n].msg = "answer" /\ below[h.of] \in GuestCall /\ below[h.of].msg = "answer"
        /\ h.of # n => below[h.of].mixed /\ ~below[n].noted
    BY <1>10, <2>2, <2>3, <2>4 DEF PassedOnRight
  <2>6. PICK v \in {stack[h.of].wide, 1, 2} :
               stack' = [below EXCEPT ![h.of].wide = v, ![h.of].want = v,
                                      ![h.asker].copy = Refreshed(stack[h.asker], v)]
    BY <1>4, <1>10
  <2>7. v \in Nat
    BY <2>4, <2>5, GuestFacts
  <2>8. Refreshed(stack[h.asker], v) = Narrow(v)
    BY <2>4, <2>5 DEF Refreshed
  <2>9. stack' = [below EXCEPT ![h.of].wide = v, ![h.of].want = v, ![n].copy = Narrow(v)]
    BY <2>5, <2>6, <2>8, Zenon
  <2>10. below # << >>
    BY <1>7, <2>3
  <2>11. stack' \in Seq(Frame) /\ AllMove(below, stack')
    BY <1>7, <1>8, <2>3, <2>4, <2>5, <2>7, <2>9, <2>10, AnswerMoves
  <2> QED BY <1>3, <2>3, <2>5, <2>10, <2>11
<1> QED BY <1>9, <1>10

LEMMA AnswersKeeps == FwdInv /\ Answers => FwdInv'
<1> SUFFICES ASSUME FwdInv, Answers PROVE FwdInv'
  OBVIOUS
<1>1. /\ stack # << >> /\ Top.who = "host"
      /\ UNCHANGED <<inflight, queue, subclassed, asked, tampered, kinds>>
  BY DEF Answers
<1>2. /\ setselOut' = NoSetsel \/ setselOut' = setselOut
      /\ scrolled' = scrolled \/ scrolled' = scrolled + 1
  BY Zenon DEF Answers
<1>3. /\ stack \in Seq(Frame) /\ inflight \in Seq(Nat) /\ FramesRight(stack)
      /\ Remembers(stack, inflight) /\ Top = stack[Len(stack)] /\ Top \notin GuestCall
  BY <1>1, TopIsLast, TwoKinds
<1>4. Front(stack) \in Seq(Frame) /\ FramesRight(Front(stack)) /\ Remembers(Front(stack), inflight)
  BY <1>1, <1>3, LastTaken, PopKeeps, HostDone
<1>5. stack' \in Seq(Frame) /\ FramesRight(stack') /\ Remembers(stack', inflight')
  BY <1>1, <1>3, <1>4, AnswersShape, MoveKeeps, MoveRemembered
<1>6. setselOut' \in Selecting
  <2>1. NoSetsel \in Selecting
    BY DEF NoSetsel, Selecting, Flags
  <2> QED BY <1>2, <2>1 DEF FwdInv, FwdTypes
<1>7. scrolled' \in Nat
  BY <1>2 DEF FwdInv, FwdTypes
<1> QED BY <1>1, <1>3, <1>5, <1>6, <1>7, InvFrom DEF FwdInv, FwdTypes

-----------------------------------------------------------------------------
(* Every step, and what the invariant says of the messages.                 *)

LEMMA FwdInvKept == FwdInv /\ [FwdStep]_fwdVars => FwdInv'
<1> SUFFICES ASSUME FwdInv, [FwdStep]_fwdVars PROVE FwdInv'
  OBVIOUS
<1>1. CASE HostSends
  BY <1>1, HostSendsKeeps
<1>2. CASE Send
  BY <1>2, SendKeeps
<1>3. CASE Post
  BY <1>3, PostKeeps
<1>4. CASE LoopDispatches
  BY <1>4, LoopKeeps
<1>5. CASE SendArrives
  BY <1>5, ArrivesKeeps
<1>6. CASE PassesOn
  BY <1>6, PassesOnKeeps
<1>7. CASE Answers
  BY <1>7, AnswersKeeps
<1>8. CASE Writes
  BY <1>8, WritesKeeps
<1>9. CASE Returns
  BY <1>9, ReturnsKeeps
<1>10. CASE UNCHANGED fwdVars
  BY <1>10, TopIsLast, InvFrom DEF fwdVars, FwdInv, FwdTypes
<1> QED BY <1>1, <1>2, <1>3, <1>4, <1>5, <1>6, <1>7, <1>8, <1>9, <1>10 DEF FwdStep

LEMMA FwdInvInit == FwdInit => FwdInv
<1> SUFFICES ASSUME FwdInit PROVE FwdInv
  OBVIOUS
<1>1. stack = << >> /\ inflight = << >> /\ Len(stack) = 0 /\ Len(inflight) = 0
  BY DEF FwdInit
<1>2. FramesRight(stack) /\ Remembers(stack, inflight)
  BY <1>1 DEF FramesRight, Remembers
<1>3. setselOut \in Selecting
  BY DEF FwdInit, NoSetsel, Selecting, Flags
<1>4. kinds \in SUBSET (Messages \ {"caret"})
  BY DEF FwdInit, Messages, Structs, Pointers
<1>5. asked \in 0 .. MaxAsked
  BY ForwardingConstants DEF FwdInit
<1>6. /\ << >> \in Seq(Frame) /\ << >> \in Seq(Nat) /\ << >> \in Seq(Queued) /\ 0 \in Nat
  OBVIOUS
<1>7. queue = << >> /\ subclassed \in SUBSET Edits /\ scrolled = 0 /\ tampered \in BOOLEAN
  BY DEF FwdInit
<1> QED BY <1>1, <1>2, <1>3, <1>4, <1>5, <1>6, <1>7 DEF FwdInv, FwdTypes

LEMMA WhatFramesSay == FwdInv => OwnOriginals /\ NoHostPointerRead /\ LastWriterSeen
<1> SUFFICES ASSUME FwdInv, NEW i \in DOMAIN stack, NEW h, h = stack[i], h.who = "host"
             PROVE  /\ h.how \in {"proc", "default"} /\ h.same /\ stack[h.asker].noted
                         => h.of = h.asker
                    /\ h.read > 0 => ~stack[h.asker].noted
                    /\ h.msg = "answer" /\ h.of = h.asker /\ ~stack[h.of].mixed
                         => stack[h.of].wide = stack[h.of].want
  BY Zenon DEF OwnOriginals, NoHostPointerRead, LastWriterSeen
<1>1. i \in 1 .. Len(stack) /\ h \in Frame /\ FrameRight(stack, i)
  BY TopIsLast DEF FramesRight
<1>2. h \in HostDoing
  BY <1>1, TwoKinds
<1>3. CASE h.how \in Passing
  <2>1. PassedOnRight(h, i, stack[i - 1], stack[h.of])
    BY <1>1, <1>2, <1>3 DEF FrameRight
  <2>2. h.asker = i - 1
    BY <2>1 DEF PassedOnRight
  <2>3. h.same /\ stack[h.asker].noted => h.of = h.asker
    BY <2>1, <2>2 DEF PassedOnRight
  <2>4. h.read > 0 => ~stack[h.asker].noted
    BY <2>1, <2>2 DEF PassedOnRight
  <2>5. h.msg = "answer" /\ h.of = h.asker /\ ~stack[h.of].mixed
          => stack[h.of].wide = stack[h.of].want
    BY <2>1, <2>2 DEF PassedOnRight
  <2> QED BY <2>3, <2>4, <2>5
<1>4. CASE h.how \notin Passing
  <2>1. h.of = 0 /\ h.read = 0 /\ h.msg # "answer"
    BY <1>1, <1>2, <1>4 DEF FrameRight
  <2> QED BY <1>4, <2>1 DEF Passing
<1> QED BY <1>3, <1>4

\* What a call that returns hands back is what was written last.
LEMMA WhatComesBack ==
    FwdInv =>
      \A i \in {Depth} \cap DOMAIN stack :
          LET f == stack[i]
          IN  Depth' < Depth /\ f.who = "guest" /\ f.msg = "answer" /\ f.noted /\ ~f.mixed =>
                 /\ f.passed = 0 => CopiedBack(f) = f.want
                 /\ f.copy # f.before => Narrow(CopiedBack(f)) = Narrow(f.want)
<1> SUFFICES ASSUME FwdInv, NEW i \in DOMAIN stack, NEW f, f = stack[i],
                    f.who = "guest", f.msg = "answer", f.noted, ~f.mixed
             PROVE  /\ f.passed = 0 => CopiedBack(f) = f.want
                    /\ f.copy # f.before => Narrow(CopiedBack(f)) = Narrow(f.want)
  BY Zenon
<1>1. i \in 1 .. Len(stack) /\ f \in Frame /\ FrameRight(stack, i)
  BY TopIsLast DEF FramesRight
<1>2. f \in GuestCall
  BY <1>1, TwoKinds
<1>3. f.want = Widened(f, f.copy) /\ (f.passed = 0 => f.before = Narrow(f.wide))
  BY <1>1, <1>2 DEF FrameRight, CopyRight
<1>4. Narrow(f.copy) = f.copy
  BY <1>2, GuestFacts DEF Narrow, Narrowed
<1> QED BY <1>3, <1>4 DEF CopiedBack, Widened

\* However calls of guest procedures nest, and however many of them the table of
\* messages in flight has no room for: a procedure that hands on what it was
\* handed gets its own message's parameters back, no host pointer is read
\* through as the guest's, and a structure says what was written to it last.
THEOREM MessagesAlwaysHonest == FwdSpecification => MessagesHonest
<1>1. FwdSpecification => []FwdInv
  BY FwdInvInit, FwdInvKept, PTL DEF FwdSpecification
<1>2. FwdInv => OwnOriginals /\ NoHostPointerRead /\ LastWriterSeen
  BY WhatFramesSay
<1>3. FwdInv /\ [FwdStep]_fwdVars =>
        [ \A i \in {Depth} \cap DOMAIN stack :
          LET f == stack[i]
          IN  Depth' < Depth /\ f.who = "guest" /\ f.msg = "answer" /\ f.noted /\ ~f.mixed =>
                 /\ f.passed = 0 => CopiedBack(f) = f.want
                 /\ f.copy # f.before => Narrow(CopiedBack(f)) = Narrow(f.want) ]_fwdVars
  BY WhatComesBack, Zenon
<1>4. FwdSpecification => AnswerComesBack
  BY <1>1, <1>3, PTL DEF AnswerComesBack, FwdSpecification
<1> QED BY <1>1, <1>2, <1>4, PTL DEF MessagesHonest

-----------------------------------------------------------------------------
(* Selections: the flag on its way, and the scrolls that are owed.          *)

Selection == {"setsel", "caret"}

Waits(f, sub) == f.who = "host" /\ f.how = "send" /\ f.hwnd \in Owns \cup sub

\* A frame that owes a scroll: what follows on it has not happened yet.
Owes(f, sub) ==
    \/ f.who = "host" /\ f.msg = "setsel" /\ (f.after \/ (Waits(f, sub) /\ f.wp = 0))
    \/ f.who = "host" /\ f.msg = "caret" /\ f.how \in {"send", "proc"}
    \/ f.who = "guest" /\ f.msg \in Selection /\ f.passed = 0 /\ (f.msg = "setsel" => f.wp = 0)

FlagRight(f, sub) ==
    /\ f.who = "guest" /\ f.msg = "setsel" => f.wp = (IF f.sent = -1 THEN 1 ELSE f.sent)
    /\ f.msg \in Selection => f.hwnd \in Edits
    /\ f.who = "host" /\ f.after => f.msg = "setsel" /\ f.how # "sent" /\ ~Waits(f, sub)

FlagsRight(s, sub) == \A i \in 1 .. Len(s) : FlagRight(s[i], sub)
Arrived(s, sub) == \A i \in 1 .. Len(s) - 1 : ~Waits(s[i], sub)
TopWaits(s, sub) == s # << >> /\ Waits(s[Len(s)], sub)
OnWay(s, sub) ==
    IF TopWaits(s, sub) /\ s[Len(s)].msg = "setsel"
    THEN [hwnd |-> s[Len(s)].hwnd, ends |-> s[Len(s)].lp, flag |-> s[Len(s)].wp]
    ELSE NoSetsel

Owing(s, sub) == {i \in 1 .. Len(s) : Owes(s[i], sub)}
CaretsIn(posts) == {i \in 1 .. Len(posts) : posts[i].msg = "caret"}

SelInv ==
    /\ FlagsRight(stack, subclassed) /\ Arrived(stack, subclassed)
    /\ setselOut = OnWay(stack, subclassed)
    /\ ~tampered => asked = scrolled + Cardinality(Owing(stack, subclassed))
                                     + Cardinality(CaretsIn(queue))

\* The last of n places counts for one, if it counts.
LEMMA LastCounts ==
    ASSUME NEW n \in Nat, NEW A \in SUBSET (1 .. n + 1)
    PROVE  /\ IsFiniteSet(A) /\ Cardinality(A) \in Nat
           /\ Cardinality(A \ {n + 1}) \in Nat
           /\ Cardinality(A) = Cardinality(A \ {n + 1}) + (IF n + 1 \in A THEN 1 ELSE 0)
<1>1. IsFiniteSet(1 .. n + 1)
  BY FS_Interval
<1>2. IsFiniteSet(A)
  BY <1>1, FS_Subset
<1>3. /\ IsFiniteSet(A \ {n + 1})
      /\ Cardinality(A \ {n + 1}) = IF n + 1 \in A THEN Cardinality(A) - 1 ELSE Cardinality(A)
  BY <1>2, FS_RemoveElement
<1>4. Cardinality(A) \in Nat /\ Cardinality(A \ {n + 1}) \in Nat
  BY <1>2, <1>3, FS_CardinalityType
<1> QED BY <1>2, <1>3, <1>4

LEMMA Counted ==
    \A n \in Nat : \A A \in SUBSET (1 .. n) : IsFiniteSet(A) /\ Cardinality(A) \in Nat
<1> SUFFICES ASSUME NEW n \in Nat, NEW A \in SUBSET (1 .. n)
             PROVE  IsFiniteSet(A) /\ Cardinality(A) \in Nat
  OBVIOUS
<1>1. IsFiniteSet(1 .. n)
  BY FS_Interval
<1> QED BY <1>1, FS_Subset, FS_CardinalityType

\* What is owed when the stack is one longer.
LEMMA OwedGrows ==
    ASSUME NEW sub, NEW s \in Seq(Frame), NEW t \in Seq(Frame), Len(t) = Len(s) + 1,
           \A i \in 1 .. Len(s) : Owes(t[i], sub) <=> Owes(s[i], sub)
    PROVE  /\ Cardinality(Owing(s, sub)) \in Nat
           /\ Cardinality(Owing(t, sub)) = Cardinality(Owing(s, sub))
                                              + (IF Owes(t[Len(t)], sub) THEN 1 ELSE 0)
<1>1. Len(s) \in Nat /\ Len(t) = Len(s) + 1
  OBVIOUS
<1>2. Owing(t, sub) \in SUBSET (1 .. Len(s) + 1)
  BY <1>1 DEF Owing
<1>3. Owing(t, sub) \ {Len(s) + 1} = Owing(s, sub)
  <2>1. \A i \in 1 .. Len(s) + 1 : i # Len(s) + 1 <=> i \in 1 .. Len(s)
    BY <1>1
  <2>2. \A i \in 1 .. Len(s) : i \in 1 .. Len(s) + 1
    BY <1>1
  <2> QED BY <1>1, <2>1, <2>2, Zenon DEF Owing
<1>4. Len(s) + 1 \in Owing(t, sub) <=> Owes(t[Len(t)], sub)
  <2>1. Len(s) + 1 \in 1 .. Len(t)
    BY <1>1
  <2> QED BY <1>1, <2>1, Zenon DEF Owing
<1>5. /\ Cardinality(Owing(s, sub)) \in Nat
      /\ Cardinality(Owing(t, sub)) = Cardinality(Owing(s, sub))
           + (IF Len(s) + 1 \in Owing(t, sub) THEN 1 ELSE 0)
  BY <1>1, <1>2, <1>3, LastCounts
<1> QED BY <1>4, <1>5

\* What is owed when only the top frame changes.
LEMMA OwedMoves ==
    ASSUME NEW sub, NEW s \in Seq(Frame), NEW t \in Seq(Frame), s # << >>, Len(t) = Len(s),
           \A i \in 1 .. Len(s) - 1 : Owes(t[i], sub) <=> Owes(s[i], sub)
    PROVE  /\ Cardinality(Owing(s, sub)) \in Nat /\ Cardinality(Owing(t, sub)) \in Nat
           /\ Cardinality(Owing(t, sub)) + (IF Owes(s[Len(s)], sub) THEN 1 ELSE 0)
                = Cardinality(Owing(s, sub)) + (IF Owes(t[Len(s)], sub) THEN 1 ELSE 0)
<1>1. /\ Len(s) \in Nat \ {0} /\ Front(s) \in Seq(Frame) /\ Len(Front(s)) = Len(s) - 1
      /\ \A i \in 1 .. Len(s) - 1 : Front(s)[i] = s[i]
  BY LastTaken
<1>2. PICK u \in Seq(Frame) : Len(u) = Len(s) - 1 /\ \A i \in 1 .. Len(s) - 1 : u[i] = s[i]
  BY <1>1
<1>3. Len(s) = Len(u) + 1 /\ Len(t) = Len(u) + 1
  BY <1>1, <1>2
<1>4. /\ \A i \in 1 .. Len(u) : Owes(s[i], sub) <=> Owes(u[i], sub)
      /\ \A i \in 1 .. Len(u) : Owes(t[i], sub) <=> Owes(u[i], sub)
  BY <1>2, Zenon
<1>5. /\ Cardinality(Owing(u, sub)) \in Nat
      /\ Cardinality(Owing(s, sub)) = Cardinality(Owing(u, sub))
                                         + (IF Owes(s[Len(s)], sub) THEN 1 ELSE 0)
  BY <1>3, <1>4, OwedGrows
<1>6. Cardinality(Owing(t, sub)) = Cardinality(Owing(u, sub))
                                      + (IF Owes(t[Len(t)], sub) THEN 1 ELSE 0)
  BY <1>3, <1>4, OwedGrows
<1> QED BY <1>5, <1>6

\* A frame that changes as a step may change it is as right as it was.
LEMMA SameFlag ==
    \A f \in Frame, g \in Frame, sub \in SUBSET Edits :
        /\ f \in GuestCall /\ SameCall(f, g) /\ FlagRight(f, sub) =>
             /\ FlagRight(g, sub) /\ ~Waits(g, sub) /\ ~Waits(f, sub)
             /\ (f.msg \notin Selection \/ g.passed = f.passed) => (Owes(g, sub) <=> Owes(f, sub))
        /\ f \in HostDoing /\ SameDoing(f, g) /\ FlagRight(f, sub) /\ g.how = f.how =>
             /\ FlagRight(g, sub) /\ (Waits(g, sub) <=> Waits(f, sub))
             /\ Owes(g, sub) <=> Owes(f, sub)
<1> SUFFICES ASSUME NEW f \in Frame, NEW g \in Frame, NEW sub \in SUBSET Edits, FlagRight(f, sub)
             PROVE  /\ f \in GuestCall /\ SameCall(f, g) =>
                         /\ FlagRight(g, sub) /\ ~Waits(g, sub) /\ ~Waits(f, sub)
                         /\ (f.msg \notin Selection \/ g.passed = f.passed)
                               => (Owes(g, sub) <=> Owes(f, sub))
                    /\ f \in HostDoing /\ SameDoing(f, g) /\ g.how = f.how =>
                         /\ FlagRight(g, sub) /\ (Waits(g, sub) <=> Waits(f, sub))
                         /\ Owes(g, sub) <=> Owes(f, sub)
  OBVIOUS
<1>1. ASSUME f \in GuestCall, SameCall(f, g)
      PROVE  /\ FlagRight(g, sub) /\ ~Waits(g, sub) /\ ~Waits(f, sub)
             /\ (f.msg \notin Selection \/ g.passed = f.passed)
                   => (Owes(g, sub) <=> Owes(f, sub))
  <2>1. /\ f.who = "guest" /\ g.who = "guest" /\ g.hwnd = f.hwnd /\ g.msg = f.msg /\ g.wp = f.wp
        /\ g.sent = f.sent
    BY <1>1, GuestFacts DEF SameCall
  <2>2. FlagRight(g, sub)
    BY <2>1 DEF FlagRight
  <2>3. ~Waits(g, sub) /\ ~Waits(f, sub)
    BY <2>1 DEF Waits
  <2>4. (f.msg \notin Selection \/ g.passed = f.passed) => (Owes(g, sub) <=> Owes(f, sub))
    BY <2>1 DEF Owes, Selection
  <2> QED BY <2>2, <2>3, <2>4
<1>2. ASSUME f \in HostDoing, SameDoing(f, g), g.how = f.how
      PROVE  /\ FlagRight(g, sub) /\ (Waits(g, sub) <=> Waits(f, sub))
             /\ Owes(g, sub) <=> Owes(f, sub)
  <2>1. /\ f.who = "host" /\ g.who = "host" /\ g.hwnd = f.hwnd /\ g.msg = f.msg /\ g.wp = f.wp
        /\ g.how = f.how /\ (g.after <=> f.after)
    BY <1>2, HostFacts DEF SameDoing
  <2>2. Waits(g, sub) <=> Waits(f, sub)
    BY <2>1 DEF Waits
  <2>3. FlagRight(g, sub)
    BY <2>1, <2>2 DEF FlagRight
  <2>4. Owes(g, sub) <=> Owes(f, sub)
    BY <2>1, <2>2 DEF Owes
  <2> QED BY <2>2, <2>3, <2>4
<1> QED BY <1>1, <1>2

\* The stack grows by a frame, where nothing waits to arrive.
LEMMA SelGrows ==
    ASSUME NEW sub \in SUBSET Edits, NEW s \in Seq(Frame), NEW f \in Frame,
           FlagsRight(s, sub), Arrived(s, sub), ~TopWaits(s, sub), FlagRight(f, sub)
    PROVE  LET t == Append(s, f)
           IN  /\ FlagsRight(t, sub) /\ Arrived(t, sub)
               /\ OnWay(t, sub) = (IF Waits(f, sub) /\ f.msg = "setsel"
                                   THEN [hwnd |-> f.hwnd, ends |-> f.lp, flag |-> f.wp]
                                   ELSE NoSetsel)
               /\ Cardinality(Owing(s, sub)) \in Nat
               /\ Cardinality(Owing(t, sub)) = Cardinality(Owing(s, sub))
                                                  + (IF Owes(f, sub) THEN 1 ELSE 0)
<1>1. PICK t : t = Append(s, f)
  OBVIOUS
<1>2. /\ t \in Seq(Frame) /\ Len(t) = Len(s) + 1 /\ t[Len(s) + 1] = f
      /\ \A i \in 1 .. Len(s) : t[i] = s[i]
  BY <1>1, Grown
<1>3. Len(s) \in Nat /\ Len(t) - 1 = Len(s) /\ t # << >> /\ t[Len(t)] = f
  BY <1>2
<1>4. \A i \in 1 .. Len(t) : i \in 1 .. Len(s) \/ i = Len(s) + 1
  BY <1>2
<1>5. FlagsRight(t, sub)
  BY <1>2, <1>4, Zenon DEF FlagsRight
<1>6. Arrived(t, sub)
  <2>1. \A i \in 1 .. Len(s) : i \in 1 .. Len(s) - 1 \/ (i = Len(s) /\ s # << >>)
    BY <1>3
  <2>2. \A i \in 1 .. Len(s) : ~Waits(s[i], sub)
    BY <2>1, Zenon DEF Arrived, TopWaits
  <2> QED BY <1>2, <1>3, <2>2, Zenon DEF Arrived
<1>7. OnWay(t, sub) = (IF Waits(f, sub) /\ f.msg = "setsel"
                       THEN [hwnd |-> f.hwnd, ends |-> f.lp, flag |-> f.wp] ELSE NoSetsel)
  BY <1>3, Zenon DEF OnWay, TopWaits
<1>8. \A i \in 1 .. Len(s) : Owes(t[i], sub) <=> Owes(s[i], sub)
  BY <1>2, Zenon
<1>9. /\ Cardinality(Owing(s, sub)) \in Nat
      /\ Cardinality(Owing(t, sub)) = Cardinality(Owing(s, sub))
                                              + (IF Owes(t[Len(t)], sub) THEN 1 ELSE 0)
  BY <1>2, <1>8, OwedGrows
<1> QED BY <1>1, <1>3, <1>5, <1>6, <1>7, <1>9

\* The stack shrinks by a frame.
LEMMA SelShrinks ==
    ASSUME NEW sub \in SUBSET Edits, NEW s \in Seq(Frame), s # << >>,
           FlagsRight(s, sub), Arrived(s, sub)
    PROVE  LET t == Front(s)
           IN  /\ FlagsRight(t, sub) /\ Arrived(t, sub) /\ ~TopWaits(t, sub)
               /\ Cardinality(Owing(t, sub)) \in Nat
               /\ Cardinality(Owing(s, sub)) = Cardinality(Owing(t, sub))
                                                  + (IF Owes(s[Len(s)], sub) THEN 1 ELSE 0)
<1>1. PICK t : t = Front(s)
  OBVIOUS
<1>2. /\ Len(s) \in Nat \ {0} /\ t \in Seq(Frame) /\ Len(t) = Len(s) - 1
      /\ \A i \in 1 .. Len(s) - 1 : t[i] = s[i]
  BY <1>1, LastTaken
<1>3. \A i \in 1 .. Len(t) : t[i] = s[i] /\ i \in 1 .. Len(s) /\ i \in 1 .. Len(s) - 1
  BY <1>2
<1>4. \A i \in 1 .. Len(t) - 1 : i \in 1 .. Len(t)
  BY <1>2
<1>5. FlagsRight(t, sub)
  BY <1>3, Zenon DEF FlagsRight
<1>6. \A i \in 1 .. Len(t) : ~Waits(t[i], sub)
  BY <1>3, Zenon DEF Arrived
<1>7. Arrived(t, sub)
  BY <1>4, <1>6, Zenon DEF Arrived
<1>8. t # << >> => Len(t) \in 1 .. Len(t)
  BY <1>2
<1>9. ~TopWaits(t, sub)
  BY <1>6, <1>8, Zenon DEF TopWaits
<1>10. Len(s) = Len(t) + 1 /\ \A i \in 1 .. Len(t) : Owes(s[i], sub) <=> Owes(t[i], sub)
  <2>1. Len(s) = Len(t) + 1
    BY <1>2
  <2> QED BY <1>3, <2>1, Zenon
<1>11. /\ Cardinality(Owing(t, sub)) \in Nat
       /\ Cardinality(Owing(s, sub)) = Cardinality(Owing(t, sub))
                                          + (IF Owes(s[Len(s)], sub) THEN 1 ELSE 0)
  BY <1>2, <1>10, OwedGrows
<1> QED BY <1>1, <1>5, <1>7, <1>9, <1>11

\* Frames change; the one on top says what it owes now.
LEMMA SelMoves ==
    ASSUME NEW sub \in SUBSET Edits, NEW s \in Seq(Frame), NEW t \in Seq(Frame), s # << >>,
           AllMove(s, t), FlagsRight(s, sub), Arrived(s, sub), FlagRight(t[Len(s)], sub)
    PROVE  /\ FlagsRight(t, sub) /\ Arrived(t, sub)
           /\ TopWaits(t, sub) <=> Waits(t[Len(s)], sub)
           /\ Cardinality(Owing(s, sub)) \in Nat /\ Cardinality(Owing(t, sub)) \in Nat
           /\ Cardinality(Owing(t, sub)) + (IF Owes(s[Len(s)], sub) THEN 1 ELSE 0)
                = Cardinality(Owing(s, sub)) + (IF Owes(t[Len(s)], sub) THEN 1 ELSE 0)
<1>1. Len(t) = Len(s) /\ Len(s) \in Nat \ {0} /\ t # << >>
  BY LastTaken DEF AllMove
<1>2. \A i \in 1 .. Len(s) - 1 : i \in 1 .. Len(s) /\ i # Len(s) /\ s[i] \in Frame /\ t[i] \in Frame
  BY <1>1
<1>3. ASSUME NEW i \in 1 .. Len(s) - 1
      PROVE  /\ FlagRight(t[i], sub) /\ ~Waits(t[i], sub)
             /\ Owes(t[i], sub) <=> Owes(s[i], sub)
  <2>1. FlagRight(s[i], sub) /\ ~Waits(s[i], sub)
    BY <1>2, Zenon DEF FlagsRight, Arrived
  <2>2. CASE s[i] \in GuestCall
    <3>1. SameCall(s[i], t[i]) /\ t[i].passed = s[i].passed
      BY <1>2, <2>2, Zenon DEF AllMove, Rests, Moves
    <3> QED BY <1>2, <2>1, <2>2, <3>1, SameFlag
  <2>3. CASE s[i] \in HostDoing
    <3>1. SameDoing(s[i], t[i]) /\ t[i].how = s[i].how
      BY <1>2, <2>3, Zenon DEF AllMove
    <3> QED BY <1>2, <2>1, <2>3, <3>1, SameFlag
  <2> QED BY <1>2, <2>2, <2>3, TwoKinds
<1>4. \A i \in 1 .. Len(t) : i \in 1 .. Len(s) - 1 \/ i = Len(s)
  BY <1>1
<1>5. FlagsRight(t, sub) /\ Arrived(t, sub)
  BY <1>1, <1>3, <1>4, Zenon DEF FlagsRight, Arrived
<1>6. TopWaits(t, sub) <=> Waits(t[Len(s)], sub)
  BY <1>1 DEF TopWaits
<1>7. \A i \in 1 .. Len(s) - 1 : Owes(t[i], sub) <=> Owes(s[i], sub)
  BY <1>3, Zenon
<1>8. /\ Cardinality(Owing(s, sub)) \in Nat /\ Cardinality(Owing(t, sub)) \in Nat
      /\ Cardinality(Owing(t, sub)) + (IF Owes(s[Len(s)], sub) THEN 1 ELSE 0)
           = Cardinality(Owing(s, sub)) + (IF Owes(t[Len(s)], sub) THEN 1 ELSE 0)
  BY <1>1, <1>7, OwedMoves
<1> QED BY <1>5, <1>6, <1>8

LEMMA SelFrom ==
    /\ FlagsRight(stack', subclassed) /\ Arrived(stack', subclassed)
    /\ setselOut' = OnWay(stack', subclassed) /\ subclassed' = subclassed
    /\ ~tampered' => asked' = scrolled' + Cardinality(Owing(stack', subclassed))
                                        + Cardinality(CaretsIn(queue'))
    => SelInv'
BY DEF SelInv

LEMMA WaitingTop ==
    FwdInv => (TopWaits(stack, subclassed) <=> OnItsWay)
BY TopIsLast DEF TopWaits, Waits, OnItsWay, HasGuestProc

LEMMA NothingOnWay ==
    SelInv /\ ~TopWaits(stack, subclassed) => setselOut = NoSetsel
BY DEF SelInv, OnWay

LEMMA GuestOnTop ==
    FwdInv /\ GuestRuns => ~TopWaits(stack, subclassed)
BY WaitingTop DEF GuestRuns, OnItsWay

LEMMA NotCarried ==
    setselOut = NoSetsel =>
      \A hwnd, ends : ends # 0 => FlagFor(hwnd, ends) = 1 /\ AfterTaking(hwnd, ends) = NoSetsel
BY DEF FlagFor, AfterTaking, Carried, NoSetsel

LEMMA CallSays ==
    \A hwnd, msg, wp, lp, wide, flag :
        LET g == Call(hwnd, msg, wp, lp, wide, flag)
        IN  /\ g.who = "guest" /\ g.hwnd = hwnd /\ g.msg = msg /\ g.wp = wp /\ g.passed = 0
            /\ g.sent = flag
BY DEF Call

\* The carets queued, when one is put at the end or taken from the front.
LEMMA CaretsGrow ==
    ASSUME NEW posts \in Seq(Queued), NEW x \in Queued
    PROVE  /\ posts \o << x >> \in Seq(Queued) /\ Cardinality(CaretsIn(posts)) \in Nat
           /\ Cardinality(CaretsIn(posts \o << x >>)) = Cardinality(CaretsIn(posts))
                                                      + (IF x.msg = "caret" THEN 1 ELSE 0)
<1>1. PICK r : r = posts \o << x >>
  OBVIOUS
<1>2. /\ r \in Seq(Queued) /\ Len(r) = Len(posts) + 1 /\ Len(posts) \in Nat /\ r[Len(posts) + 1] = x
      /\ \A i \in 1 .. Len(posts) : r[i] = posts[i]
  BY <1>1
<1>3. CaretsIn(r) \in SUBSET (1 .. Len(posts) + 1)
  BY <1>2 DEF CaretsIn
<1>4. CaretsIn(r) \ {Len(posts) + 1} = CaretsIn(posts)
  <2>1. \A i \in 1 .. Len(posts) + 1 : i # Len(posts) + 1 <=> i \in 1 .. Len(posts)
    BY <1>2
  <2>2. \A i \in 1 .. Len(posts) : i \in 1 .. Len(posts) + 1
    BY <1>2
  <2> QED BY <1>2, <2>1, <2>2, Zenon DEF CaretsIn
<1>5. Len(posts) + 1 \in CaretsIn(r) <=> x.msg = "caret"
  BY <1>2 DEF CaretsIn
<1>6. /\ Cardinality(CaretsIn(posts)) \in Nat
      /\ Cardinality(CaretsIn(r)) = Cardinality(CaretsIn(posts))
           + (IF Len(posts) + 1 \in CaretsIn(r) THEN 1 ELSE 0)
  BY <1>2, <1>3, <1>4, LastCounts
<1> QED BY <1>1, <1>2, <1>5, <1>6

LEMMA CaretsShrink ==
    ASSUME NEW posts \in Seq(Queued), posts # << >>
    PROVE  /\ Cardinality(CaretsIn(Tail(posts))) \in Nat
           /\ Cardinality(CaretsIn(posts)) = Cardinality(CaretsIn(Tail(posts)))
                                           + (IF Head(posts).msg = "caret" THEN 1 ELSE 0)
<1>1. PICK r : r = Tail(posts)
  OBVIOUS
<1>2. /\ r \in Seq(Queued) /\ Len(posts) \in Nat \ {0} /\ Len(r) = Len(posts) - 1 /\ Head(posts) = posts[1]
      /\ \A i \in 1 .. Len(r) : r[i] = posts[i + 1]
  BY <1>1
<1> DEFINE A == CaretsIn(posts) \ {1}
           B == CaretsIn(r)
           f == [i \in B |-> i + 1]
<1>3. IsFiniteSet(CaretsIn(posts)) /\ IsFiniteSet(B) /\ Cardinality(B) \in Nat /\ Cardinality(CaretsIn(posts)) \in Nat
  <2>1. CaretsIn(posts) \in SUBSET (1 .. Len(posts)) /\ B \in SUBSET (1 .. Len(r))
    BY DEF CaretsIn
  <2>2. Len(posts) \in Nat /\ Len(r) \in Nat
    BY <1>2
  <2> QED BY <2>1, <2>2, Counted
<1>4. \A i \in B : i \in Nat /\ i + 1 \in A
  BY <1>2 DEF CaretsIn
<1>5. \A j \in A : j - 1 \in B /\ (j - 1) + 1 = j
  <2> SUFFICES ASSUME NEW j \in A PROVE j - 1 \in B /\ (j - 1) + 1 = j
    OBVIOUS
  <2>1. j \in 1 .. Len(posts) /\ j # 1 /\ posts[j].msg = "caret"
    BY DEF CaretsIn
  <2>2. j - 1 \in 1 .. Len(r) /\ (j - 1) + 1 = j
    BY <1>2, <2>1
  <2>3. r[j - 1] = posts[j]
    BY <1>2, <2>2
  <2> QED BY <2>1, <2>2, <2>3 DEF CaretsIn
<1>6. f \in [B -> A] /\ \A i \in B : f[i] = i + 1
  BY <1>4
<1> HIDE DEF f, A, B
<1>7. f \in Bijection(B, A)
  <2>1. \A i, j \in B : f[i] = f[j] => i = j
    BY <1>4, <1>6
  <2>2. \A j \in A : \E i \in B : f[i] = j
    BY <1>5, <1>6
  <2>3. DOMAIN f = B
    BY <1>6
  <2>4. IsInjective(f)
    BY <2>1, <2>3, Zenon DEF IsInjective
  <2> QED BY <1>6, <2>2, <2>4, Zenon DEF Bijection, Injection, Surjection
<1>8. Cardinality(A) = Cardinality(B)
  <2>1. ExistsBijection(B, A)
    BY <1>7 DEF ExistsBijection
  <2> QED BY <1>3, <2>1, FS_Bijection
<1>9. Cardinality(A) = IF 1 \in CaretsIn(posts) THEN Cardinality(CaretsIn(posts)) - 1
                                            ELSE Cardinality(CaretsIn(posts))
  BY <1>3, FS_RemoveElement DEF A
<1>10. 1 \in CaretsIn(posts) <=> Head(posts).msg = "caret"
  BY <1>2 DEF CaretsIn
<1> QED BY <1>1, <1>3, <1>8, <1>9, <1>10 DEF B

\* What the invariant says before a step, with the parts that steps ask for.
LEMMA SelParts ==
    FwdInv /\ SelInv =>
      /\ stack \in Seq(Frame) /\ Depth = Len(stack) /\ Top = stack[Len(stack)]
      /\ subclassed \in SUBSET Edits /\ asked \in Nat /\ scrolled \in Nat /\ queue \in Seq(Queued)
      /\ FlagsRight(stack, subclassed) /\ Arrived(stack, subclassed)
      /\ Cardinality(CaretsIn(queue)) \in Nat
<1> SUFFICES ASSUME FwdInv, SelInv
             PROVE  /\ stack \in Seq(Frame) /\ Depth = Len(stack) /\ Top = stack[Len(stack)]
                    /\ subclassed \in SUBSET Edits /\ asked \in Nat /\ scrolled \in Nat
                    /\ queue \in Seq(Queued)
                    /\ FlagsRight(stack, subclassed) /\ Arrived(stack, subclassed)
                    /\ Cardinality(CaretsIn(queue)) \in Nat
  OBVIOUS
<1>1. /\ stack \in Seq(Frame) /\ Depth = Len(stack) /\ Top = stack[Len(stack)]
      /\ subclassed \in SUBSET Edits /\ asked \in 0 .. MaxAsked /\ scrolled \in Nat
      /\ queue \in Seq(Queued)
  BY DEF FwdInv, FwdTypes, Depth, Top
<1>2. FlagsRight(stack, subclassed) /\ Arrived(stack, subclassed)
  BY DEF SelInv
<1>3. CaretsIn(queue) \in SUBSET (1 .. Len(queue)) /\ Len(queue) \in Nat
  BY <1>1 DEF CaretsIn
<1>4. asked \in Nat
  BY <1>1, ForwardingConstants
<1> QED BY <1>1, <1>2, <1>3, <1>4, Counted

LEMMA HostSendsSel == FwdInv /\ SelInv /\ HostSends => SelInv'
<1> SUFFICES ASSUME FwdInv, SelInv, HostSends PROVE SelInv'
  OBVIOUS
<1>1. PICK hwnd \in Edits \cup Owns, msg \in Messages, wp \in Flags, lp \in Int, wide \in Nat :
         HostSent(hwnd, msg, wp, lp, wide)
  BY HostSendsShape
<1>2. PICK g : g = Call(hwnd, msg, wp, lp, wide, -1)
  OBVIOUS
<1>3. /\ stack' = Append(stack, g) /\ msg # "caret"
      /\ setselOut' = IF msg = "setsel" THEN AfterTaking(hwnd, lp) ELSE setselOut
      /\ msg = "setsel" => hwnd \in Edits /\ lp \in {10, 11} /\ wp = FlagFor(hwnd, lp)
  BY <1>1, <1>2, Zenon DEF Enter, HostSent
<1>4. ~OnItsWay /\ UNCHANGED <<queue, subclassed, asked, scrolled, tampered, kinds>>
  BY DEF HostSends
<1>5. ~TopWaits(stack, subclassed) /\ setselOut = NoSetsel
  BY <1>4, WaitingTop, NothingOnWay
<1>6. msg = "setsel" => wp = 1 /\ setselOut' = NoSetsel
  <2>1. lp \in {10, 11} => lp # 0
    OBVIOUS
  <2> QED BY <1>3, <1>5, <2>1, NotCarried, Zenon
<1>7. g \in Frame
  <2>1. -1 \in {-1, 0, 1}
    OBVIOUS
  <2>2. g \in GuestCall
    BY <1>2, <2>1, TopIsLast, CallMade
  <2> QED BY <2>2 DEF Frame
<1>8. /\ g.who = "guest" /\ g.hwnd = hwnd /\ g.msg = msg /\ g.wp = wp /\ g.passed = 0
      /\ g.sent = -1
  BY <1>2 DEF Call
<1>9. FlagRight(g, subclassed) /\ ~Waits(g, subclassed) /\ ~Owes(g, subclassed)
  BY <1>3, <1>6, <1>8 DEF FlagRight, Waits, Owes, Selection
<1>10. /\ FlagsRight(stack', subclassed) /\ Arrived(stack', subclassed)
       /\ OnWay(stack', subclassed) = NoSetsel
       /\ Cardinality(Owing(stack', subclassed)) = Cardinality(Owing(stack, subclassed))
  BY <1>3, <1>5, <1>7, <1>9, SelParts, SelGrows
<1>11. setselOut' = NoSetsel
  BY <1>3, <1>5, <1>6
<1> QED BY <1>4, <1>10, <1>11, SelFrom DEF SelInv

\* What is sent owes its scroll until it has come to the control.
LEMMA SentSel ==
    ASSUME FwdInv, SelInv, GuestRuns, NEW hwnd \in Edits, NEW msg \in {"setsel", "text", "caret"},
           NEW wp \in Flags, NEW lp \in Int, NEW after \in BOOLEAN, after = Follows(hwnd, msg, wp),
           stack' = Append(stack, HostFrame("send", hwnd, msg, wp, lp, 0, after, 0))
    PROVE  /\ FlagsRight(stack', subclassed) /\ Arrived(stack', subclassed)
           /\ OnWay(stack', subclassed) = (IF Carries(hwnd, msg)
                                           THEN [hwnd |-> hwnd, ends |-> lp, flag |-> wp]
                                           ELSE NoSetsel)
           /\ Cardinality(Owing(stack, subclassed)) \in Nat
           /\ Cardinality(Owing(stack', subclassed)) =
                Cardinality(Owing(stack, subclassed))
                  + (IF (msg = "setsel" /\ wp = 0) \/ msg = "caret" THEN 1 ELSE 0)
<1>1. PICK h : h = HostFrame("send", hwnd, msg, wp, lp, 0, after, 0)
  OBVIOUS
<1>2. /\ "send" \in Hows /\ hwnd \in Edits \cup Owns /\ 0 \in Nat /\ 0 \in Int /\ msg \in Messages
      /\ FwdTypes
  BY DEF Hows, Messages, Structs, Pointers, FwdInv
<1>3. /\ h \in HostDoing /\ h.how = "send" /\ h.hwnd = hwnd /\ h.msg = msg /\ h.wp = wp
      /\ h.lp = lp /\ (h.after <=> after)
  BY <1>1, <1>2, HostMade
<1>4. h.who = "host" /\ h \in Frame
  BY <1>3, HostFacts DEF Frame
<1>5. hwnd \notin Owns /\ subclassed \in SUBSET Edits
  BY ForwardingConstants DEF FwdInv, FwdTypes
<1>6. Waits(h, subclassed) <=> hwnd \in subclassed
  BY <1>3, <1>4, <1>5 DEF Waits
<1>7. h.after <=> msg = "setsel" /\ hwnd \notin subclassed /\ wp = 0
  BY <1>3 DEF Follows, Carries, ScrollAfter
<1>8. FlagRight(h, subclassed)
  BY <1>3, <1>4, <1>6, <1>7 DEF FlagRight
<1>9. Owes(h, subclassed) <=> (msg = "setsel" /\ wp = 0) \/ msg = "caret"
  BY <1>3, <1>4, <1>6, <1>7 DEF Owes
<1>10. stack' = Append(stack, h)
  BY <1>1
<1>11. /\ FlagsRight(stack', subclassed) /\ Arrived(stack', subclassed)
       /\ OnWay(stack', subclassed) = (IF Waits(h, subclassed) /\ h.msg = "setsel"
                                       THEN [hwnd |-> h.hwnd, ends |-> h.lp, flag |-> h.wp]
                                       ELSE NoSetsel)
       /\ Cardinality(Owing(stack, subclassed)) \in Nat
       /\ Cardinality(Owing(stack', subclassed)) = Cardinality(Owing(stack, subclassed))
            + (IF Owes(h, subclassed) THEN 1 ELSE 0)
  BY <1>4, <1>5, <1>8, <1>10, SelParts, GuestOnTop, SelGrows
<1>12. Waits(h, subclassed) /\ h.msg = "setsel" <=> Carries(hwnd, msg)
  BY <1>3, <1>6 DEF Carries
<1>13. OnWay(stack', subclassed) = (IF Carries(hwnd, msg)
                                    THEN [hwnd |-> hwnd, ends |-> lp, flag |-> wp] ELSE NoSetsel)
  BY <1>3, <1>11, <1>12
<1> QED BY <1>9, <1>11, <1>13

LEMMA SendSel == FwdInv /\ SelInv /\ Send => SelInv'
<1> SUFFICES ASSUME FwdInv, SelInv, Send PROVE SelInv'
  OBVIOUS
<1>1. PICK hwnd \in Edits, msg \in kinds \cap {"setsel", "text"}, flag \in {0, 1} :
       \E lp \in IF msg = "setsel" THEN {10, 11} ELSE {-1} :
          /\ stack' = Append(stack, HostFrame("send", hwnd, msg, flag, lp, 0,
                                               Follows(hwnd, msg, flag), 0))
          /\ setselOut' = IF Carries(hwnd, msg) THEN [hwnd |-> hwnd, ends |-> lp, flag |-> flag]
                                                ELSE setselOut
          /\ asked' = IF msg = "setsel" /\ ScrollAfter(hwnd, flag) THEN asked + 1 ELSE asked
  BY DEF Send
<1>2. PICK lp \in IF msg = "setsel" THEN {10, 11} ELSE {-1} :
          /\ stack' = Append(stack, HostFrame("send", hwnd, msg, flag, lp, 0,
                                               Follows(hwnd, msg, flag), 0))
          /\ setselOut' = IF Carries(hwnd, msg) THEN [hwnd |-> hwnd, ends |-> lp, flag |-> flag]
                                                ELSE setselOut
          /\ asked' = IF msg = "setsel" /\ ScrollAfter(hwnd, flag) THEN asked + 1 ELSE asked
  BY <1>1
<1>3. GuestRuns /\ UNCHANGED <<inflight, queue, subclassed, scrolled, tampered, kinds>>
  BY DEF Send
<1>4. msg \in {"setsel", "text", "caret"} /\ msg # "caret" /\ flag \in Flags /\ lp \in Int
  BY DEF Flags
<1>5. PICK after \in BOOLEAN : after = Follows(hwnd, msg, flag)
  <2>1. Follows(hwnd, msg, flag) \in BOOLEAN
    BY Zenon DEF Follows
  <2> QED BY <2>1, Zenon
<1>6. stack' = Append(stack, HostFrame("send", hwnd, msg, flag, lp, 0, after, 0))
  BY <1>2, <1>5, Zenon
<1>7. /\ FlagsRight(stack', subclassed) /\ Arrived(stack', subclassed)
      /\ OnWay(stack', subclassed) = (IF Carries(hwnd, msg)
                                      THEN [hwnd |-> hwnd, ends |-> lp, flag |-> flag]
                                      ELSE NoSetsel)
      /\ Cardinality(Owing(stack, subclassed)) \in Nat
      /\ Cardinality(Owing(stack', subclassed)) =
           Cardinality(Owing(stack, subclassed))
             + (IF (msg = "setsel" /\ flag = 0) \/ msg = "caret" THEN 1 ELSE 0)
  BY <1>3, <1>4, <1>5, <1>6, SentSel
<1>8. setselOut' = OnWay(stack', subclassed)
  <2>1. setselOut = NoSetsel
    BY <1>3, GuestOnTop, NothingOnWay
  <2> QED BY <1>2, <1>7, <2>1, Zenon
<1>9. asked' = IF msg = "setsel" /\ flag = 0 THEN asked + 1 ELSE asked
  BY <1>2 DEF ScrollAfter
<1>10. ~tampered' => asked' = scrolled' + Cardinality(Owing(stack', subclassed))
                                        + Cardinality(CaretsIn(queue'))
  <2>1. asked \in Nat /\ scrolled \in Nat /\ Cardinality(CaretsIn(queue)) \in Nat
    BY SelParts
  <2>2. ~tampered => asked = scrolled + Cardinality(Owing(stack, subclassed))
                                     + Cardinality(CaretsIn(queue))
    BY DEF SelInv
  <2>3. queue' = queue /\ scrolled' = scrolled /\ tampered' = tampered
    BY <1>3
  <2> QED BY <1>4, <1>7, <1>9, <2>1, <2>2, <2>3
<1> QED BY <1>3, <1>7, <1>8, <1>10, SelFrom

LEMMA PostSel == FwdInv /\ SelInv /\ Post => SelInv'
<1> SUFFICES ASSUME FwdInv, SelInv, Post PROVE SelInv'
  OBVIOUS
<1>1. PICK hwnd \in Edits, flag \in {0, 1}, ends \in {10, 11} :
       /\ queue' = queue \o << [hwnd |-> hwnd, msg |-> "setsel", lp |-> ends] >>
                   \o (IF ScrollAfter(hwnd, flag)
                       THEN << [hwnd |-> hwnd, msg |-> "caret", lp |-> 0] >> ELSE << >>)
       /\ asked' = IF ScrollAfter(hwnd, flag) THEN asked + 1 ELSE asked
  BY DEF Post
<1>2. UNCHANGED <<stack, inflight, setselOut, subclassed, scrolled, tampered, kinds>>
  BY DEF Post
<1>3. PICK first \in Queued : /\ first = [hwnd |-> hwnd, msg |-> "setsel", lp |-> ends]
                              /\ first.msg = "setsel"
  <2> DEFINE x == [hwnd |-> hwnd, msg |-> "setsel", lp |-> ends]
  <2>1. x \in Queued /\ x.msg = "setsel"
    BY DEF Queued
  <2> QED BY <2>1, Zenon
<1>4. PICK second \in Queued : /\ second = [hwnd |-> hwnd, msg |-> "caret", lp |-> 0]
                               /\ second.msg = "caret"
  <2> DEFINE x == [hwnd |-> hwnd, msg |-> "caret", lp |-> 0]
  <2>1. x \in Queued /\ x.msg = "caret"
    BY DEF Queued
  <2> QED BY <2>1, Zenon
<1>5. PICK r : r = queue \o << first >>
  OBVIOUS
<1>6. /\ r \in Seq(Queued) /\ Cardinality(CaretsIn(queue)) \in Nat
      /\ Cardinality(CaretsIn(r)) = Cardinality(CaretsIn(queue))
  BY <1>3, <1>5, SelParts, CaretsGrow, SMTT(60)
<1>7. Cardinality(CaretsIn(r \o << second >>)) = Cardinality(CaretsIn(r)) + 1
  BY <1>4, <1>6, CaretsGrow
<1>8. queue' = IF ScrollAfter(hwnd, flag) THEN r \o << second >> ELSE r
  <2>1. queue' = r \o (IF ScrollAfter(hwnd, flag) THEN << second >> ELSE << >>)
    BY <1>1, <1>3, <1>4, <1>5, Zenon
  <2>2. r \o << >> = r
    BY <1>6
  <2> QED BY <2>1, <2>2
<1>9. Cardinality(CaretsIn(queue')) = Cardinality(CaretsIn(queue))
                                        + (IF ScrollAfter(hwnd, flag) THEN 1 ELSE 0)
  BY <1>6, <1>7, <1>8
<1>10. ~tampered' => asked' = scrolled' + Cardinality(Owing(stack', subclassed))
                                        + Cardinality(CaretsIn(queue'))
  <2>1. /\ asked \in Nat /\ scrolled \in Nat
        /\ Cardinality(Owing(stack, subclassed)) \in Nat
    <3>1. Owing(stack, subclassed) \in SUBSET (1 .. Len(stack)) /\ Len(stack) \in Nat
      BY SelParts DEF Owing
    <3> QED BY <3>1, SelParts, Counted
  <2>2. ~tampered => asked = scrolled + Cardinality(Owing(stack, subclassed))
                                     + Cardinality(CaretsIn(queue))
    BY DEF SelInv
  <2>3. stack' = stack /\ scrolled' = scrolled /\ tampered' = tampered
    BY <1>2
  <2> QED BY <1>1, <1>6, <1>9, <2>1, <2>2, <2>3
<1> QED BY <1>2, <1>10, SelFrom DEF SelInv

LEMMA LoopSel == FwdInv /\ SelInv /\ LoopDispatches => SelInv'
<1> SUFFICES ASSUME FwdInv, SelInv, LoopDispatches PROVE SelInv'
  OBVIOUS
<1>1. PICK m : m = Head(queue)
  OBVIOUS
<1>2. m \in Queued /\ queue \in Seq(Queued) /\ queue # << >>
  <2>1. queue \in Seq(Queued) /\ queue # << >>
    BY DEF LoopDispatches, FwdInv, FwdTypes
  <2> QED BY <1>1, <2>1
<1>3. /\ m.hwnd \in Edits /\ m.msg \in {"setsel", "text", "caret"} /\ m.lp \in Int
      /\ m.msg = "setsel" => m.lp # 0
  BY <1>2 DEF Queued
<1>4. PICK packed : packed = IF m.msg = "setsel" THEN FlagFor(m.hwnd, m.lp) ELSE 0
  OBVIOUS
<1>5. PICK flag \in (IF m.msg = "setsel" THEN {0, 1} ELSE {0}) :
              /\ stack' = Append(stack, HostFrame("send", m.hwnd, m.msg, flag, m.lp, 0,
                                                   Follows(m.hwnd, m.msg, flag), 0))
              /\ setselOut' = IF Carries(m.hwnd, m.msg)
                              THEN [hwnd |-> m.hwnd, ends |-> m.lp, flag |-> flag] ELSE setselOut
              /\ tampered' = (tampered \/ flag # packed)
  BY <1>1, <1>4, Zenon DEF LoopDispatches
<1>6. /\ GuestRuns /\ queue' = Tail(queue)
      /\ UNCHANGED <<inflight, subclassed, asked, scrolled, kinds>>
  BY DEF LoopDispatches
<1>7. setselOut = NoSetsel
  BY <1>6, GuestOnTop, NothingOnWay
<1>8. m.msg = "setsel" => packed = 1
  BY <1>3, <1>4, <1>7, NotCarried, Zenon
<1>9. flag \in Flags
  BY DEF Flags
<1>10. PICK after \in BOOLEAN : after = Follows(m.hwnd, m.msg, flag)
  <2>1. Follows(m.hwnd, m.msg, flag) \in BOOLEAN
    BY Zenon DEF Follows
  <2> QED BY <2>1, Zenon
<1>11. stack' = Append(stack, HostFrame("send", m.hwnd, m.msg, flag, m.lp, 0, after, 0))
  BY <1>5, <1>10, Zenon
<1>12. /\ FlagsRight(stack', subclassed) /\ Arrived(stack', subclassed)
       /\ OnWay(stack', subclassed) = (IF Carries(m.hwnd, m.msg)
                                       THEN [hwnd |-> m.hwnd, ends |-> m.lp, flag |-> flag]
                                       ELSE NoSetsel)
       /\ Cardinality(Owing(stack, subclassed)) \in Nat
       /\ Cardinality(Owing(stack', subclassed)) =
            Cardinality(Owing(stack, subclassed))
              + (IF (m.msg = "setsel" /\ flag = 0) \/ m.msg = "caret" THEN 1 ELSE 0)
  BY <1>3, <1>6, <1>9, <1>10, <1>11, SentSel
<1>13. setselOut' = OnWay(stack', subclassed)
  BY <1>5, <1>7, <1>12, Zenon
<1>14. /\ Cardinality(CaretsIn(queue')) \in Nat
       /\ Cardinality(CaretsIn(queue)) = Cardinality(CaretsIn(queue'))
                                           + (IF m.msg = "caret" THEN 1 ELSE 0)
  BY <1>1, <1>2, <1>6, CaretsShrink
<1>15. ~tampered' => asked' = scrolled' + Cardinality(Owing(stack', subclassed))
                                        + Cardinality(CaretsIn(queue'))
  <2>1. asked \in Nat /\ scrolled \in Nat
    BY SelParts
  <2>2. ~tampered => asked = scrolled + Cardinality(Owing(stack, subclassed))
                                     + Cardinality(CaretsIn(queue))
    BY DEF SelInv
  <2>3. ~tampered' => ~tampered /\ (m.msg = "setsel" => flag = 1)
    BY <1>5, <1>8, Zenon
  <2>4. asked' = asked /\ scrolled' = scrolled
    BY <1>6
  <2> QED BY <1>3, <1>12, <1>14, <2>1, <2>2, <2>3, <2>4
<1> QED BY <1>6, <1>12, <1>13, <1>15, SelFrom

LEMMA ArrivesSel == FwdInv /\ SelInv /\ SendArrives => SelInv'
<1> SUFFICES ASSUME FwdInv, SelInv, SendArrives PROVE SelInv'
  OBVIOUS
<1>1. PICK f :
        /\ f = [Top EXCEPT !.how = "sent"]
        /\ stack' = Append(WithTop(f),
                         Call(f.hwnd, f.msg,
                              IF f.msg = "setsel" THEN FlagFor(f.hwnd, f.lp) ELSE f.wp,
                              f.lp, 0, IF f.msg = "setsel" THEN f.wp ELSE -1))
        /\ setselOut' = IF f.msg = "setsel" THEN AfterTaking(f.hwnd, f.lp) ELSE setselOut
  <2>1. LET f == [Top EXCEPT !.how = "sent"]
        IN  /\ stack' = Append(WithTop(f),
                         Call(f.hwnd, f.msg,
                              IF f.msg = "setsel" THEN FlagFor(f.hwnd, f.lp) ELSE f.wp,
                              f.lp, 0, IF f.msg = "setsel" THEN f.wp ELSE -1))
            /\ setselOut' = IF f.msg = "setsel" THEN AfterTaking(f.hwnd, f.lp) ELSE setselOut
    BY DEF SendArrives
  <2> QED BY <2>1, Zenon
<1>2. PICK wp : wp = IF f.msg = "setsel" THEN FlagFor(f.hwnd, f.lp) ELSE f.wp
  OBVIOUS
<1>3. PICK flag : flag = IF f.msg = "setsel" THEN f.wp ELSE -1
  OBVIOUS
<1>4. PICK g : g = Call(f.hwnd, f.msg, wp, f.lp, 0, flag)
  OBVIOUS
<1>5. PICK t : t = WithTop(f)
  OBVIOUS
<1>6. stack' = Append(t, g)
  <2>1. stack' = Append(t, Call(f.hwnd, f.msg, wp, f.lp, 0, flag))
    BY <1>1, <1>2, <1>3, <1>5
  <2> QED BY <1>4, <2>1
<1>7. OnItsWay /\ stack # << >> /\ UNCHANGED <<queue, subclassed, asked, scrolled, tampered, kinds>>
  BY DEF SendArrives, OnItsWay
<1>8. PICK h \in HostDoing : /\ h = Top /\ h.how = "send" /\ h.who = "host"
                             /\ h.hwnd \in Owns \cup subclassed
  BY <1>7, TopIsLast, TwoKinds DEF OnItsWay, HasGuestProc
<1>9. Waits(h, subclassed)
  BY <1>8 DEF Waits
<1>10. /\ stack \in Seq(Frame) /\ h = stack[Len(stack)] /\ Len(stack) \in 1 .. Len(stack)
       /\ Depth = Len(stack) /\ h \in Frame /\ FramesRight(stack) /\ FwdTypes
       /\ subclassed \in SUBSET Edits
  BY <1>7, <1>8, TopIsLast, SelParts
<1>11. FlagRight(h, subclassed)
  BY <1>10 DEF SelInv, FlagsRight
<1>12. /\ f \in HostDoing /\ SameDoing(h, f) /\ f.how = "sent" /\ f \in Frame /\ f.who = "host"
  <2>1. f \in HostDoing /\ f.how = "sent"
    BY <1>1, <1>8 DEF HostDoing, Hows
  <2>2. SameDoing(h, f)
    BY <1>1, <1>8, <2>1 DEF SameDoing, HostDoing
  <2> QED BY <2>1, <2>2, HostFacts DEF Frame
<1>13. t \in Seq(Frame) /\ AllMove(stack, t) /\ t[Len(stack)] = f
  <2>1. t = With(stack, Len(stack), f)
    BY <1>5, <1>10 DEF WithTop, With
  <2>2. stack[Len(stack)] \notin GuestCall
    BY <1>10, TwoKinds
  <2> QED BY <1>7, <1>8, <1>10, <1>12, <2>1, <2>2, OnlyTopMoves
<1>14. /\ f.hwnd = h.hwnd /\ f.msg = h.msg /\ f.wp = h.wp /\ f.lp = h.lp /\ ~h.after /\ ~f.after
  BY <1>8, <1>9, <1>11, <1>12 DEF FlagRight, SameDoing
<1>15. ~Waits(f, subclassed) /\ FlagRight(f, subclassed) /\ ~Owes(f, subclassed)
  BY <1>8, <1>11, <1>12, <1>14 DEF Waits, FlagRight, Owes
<1>16. /\ FlagsRight(t, subclassed) /\ Arrived(t, subclassed) /\ ~TopWaits(t, subclassed)
       /\ Cardinality(Owing(stack, subclassed)) \in Nat /\ Cardinality(Owing(t, subclassed)) \in Nat
       /\ Cardinality(Owing(t, subclassed)) + (IF Owes(h, subclassed) THEN 1 ELSE 0)
            = Cardinality(Owing(stack, subclassed))
  <2>1. /\ FlagsRight(t, subclassed) /\ Arrived(t, subclassed)
        /\ TopWaits(t, subclassed) <=> Waits(t[Len(stack)], subclassed)
        /\ Cardinality(Owing(stack, subclassed)) \in Nat
        /\ Cardinality(Owing(t, subclassed)) \in Nat
        /\ Cardinality(Owing(t, subclassed)) + (IF Owes(stack[Len(stack)], subclassed) THEN 1 ELSE 0)
             = Cardinality(Owing(stack, subclassed))
                 + (IF Owes(t[Len(stack)], subclassed) THEN 1 ELSE 0)
    BY <1>7, <1>10, <1>13, <1>15, SelParts, SelMoves
  <2> QED BY <1>10, <1>13, <1>15, <2>1
<1>17. h.msg = "setsel" => /\ wp = h.wp /\ flag = h.wp /\ setselOut' = NoSetsel
  <2> SUFFICES ASSUME h.msg = "setsel" PROVE wp = h.wp /\ flag = h.wp /\ setselOut' = NoSetsel
    OBVIOUS
  <2>1. setselOut = [hwnd |-> h.hwnd, ends |-> h.lp, flag |-> h.wp]
    <3>1. setselOut = OnWay(stack, subclassed)
      BY DEF SelInv
    <3> QED BY <1>7, <1>9, <1>10, <3>1 DEF OnWay, TopWaits
  <2>2. Carried(h.hwnd, h.lp) /\ setselOut.flag = h.wp
    BY <2>1 DEF Carried
  <2> QED BY <1>1, <1>2, <1>3, <1>14, <2>2 DEF FlagFor, AfterTaking
<1>18. h.msg # "setsel" => wp = h.wp /\ setselOut' = NoSetsel
  <2>1. h.msg # "setsel" => setselOut = NoSetsel
    BY <1>10 DEF SelInv, OnWay
  <2> QED BY <1>1, <1>2, <1>14, <2>1
<1>19. /\ g.who = "guest" /\ g.hwnd = h.hwnd /\ g.msg = h.msg /\ g.wp = h.wp /\ g.passed = 0
       /\ g.sent = flag
  <2>1. /\ g.who = "guest" /\ g.hwnd = f.hwnd /\ g.msg = f.msg /\ g.wp = wp /\ g.passed = 0
        /\ g.sent = flag
    BY <1>4 DEF Call
  <2> QED BY <1>14, <1>17, <1>18, <2>1
<1>20. g \in Frame
  <2>1. /\ h.hwnd \in Edits \cup Owns /\ h.msg \in Messages /\ h.wp \in Flags /\ h.lp \in Int
        /\ 0 \in Nat
    BY <1>8, HostFacts
  <2>2. wp = h.wp /\ flag \in {-1, 0, 1}
    BY <1>3, <1>14, <1>17, <1>18, <2>1 DEF Flags
  <2>3. g = Call(h.hwnd, h.msg, h.wp, h.lp, 0, flag)
    BY <1>4, <1>14, <2>2
  <2>4. g \in GuestCall
    BY <1>10, <2>1, <2>2, <2>3, CallMade
  <2> QED BY <2>4 DEF Frame
<1>21. /\ FlagRight(g, subclassed) /\ ~Waits(g, subclassed)
       /\ Owes(g, subclassed) <=> Owes(h, subclassed)
  <2>1. h.msg = "setsel" => g.sent = h.wp /\ h.wp # -1
    <3>1. h.wp \in Flags
      BY <1>8, HostFacts
    <3> QED BY <1>17, <1>19, <3>1 DEF Flags
  <2>2. FlagRight(g, subclassed)
    BY <1>11, <1>19, <2>1 DEF FlagRight
  <2>3. ~Waits(g, subclassed)
    BY <1>19 DEF Waits
  <2>4. Owes(g, subclassed) <=> Owes(h, subclassed)
    BY <1>8, <1>9, <1>14, <1>19 DEF Owes, Selection
  <2> QED BY <2>2, <2>3, <2>4
<1>22. /\ FlagsRight(stack', subclassed) /\ Arrived(stack', subclassed)
       /\ OnWay(stack', subclassed) = NoSetsel
       /\ Cardinality(Owing(stack', subclassed)) = Cardinality(Owing(stack, subclassed))
  <2>1. /\ FlagsRight(stack', subclassed) /\ Arrived(stack', subclassed)
        /\ OnWay(stack', subclassed) = (IF Waits(g, subclassed) /\ g.msg = "setsel"
                                        THEN [hwnd |-> g.hwnd, ends |-> g.lp, flag |-> g.wp]
                                        ELSE NoSetsel)
        /\ Cardinality(Owing(stack', subclassed)) = Cardinality(Owing(t, subclassed))
             + (IF Owes(g, subclassed) THEN 1 ELSE 0)
    BY <1>6, <1>10, <1>13, <1>16, <1>20, <1>21, SelGrows
  <2> QED BY <1>16, <1>21, <2>1
<1>23. setselOut' = NoSetsel
  BY <1>17, <1>18
<1> QED BY <1>7, <1>22, <1>23, SelFrom DEF SelInv

\* A call that passes its selection on as it came hands its debt on with it.
LEMMA PassesOnSel == FwdInv /\ SelInv /\ PassesOn => SelInv'
<1> SUFFICES ASSUME FwdInv, SelInv, PassesOn PROVE SelInv'
  OBVIOUS
<1>1. /\ stack # << >> /\ Top.who = "guest"
      /\ UNCHANGED <<inflight, setselOut, queue, subclassed, asked, scrolled, kinds>>
  BY DEF PassesOn
<1>2. PICK how \in {"proc", "default"}, wp \in {0, 1} :
       \E lp \in {Top.lp} \cup (CASE Top.msg \in Pointers -> {-1}
                                 [] Top.msg = "setsel" -> {10, 11} [] OTHER -> {}) :
          /\ (Top.hwnd \in Owns => how = "default")
          /\ PassOn(how, wp, lp)
          /\ tampered' = (tampered \/ ( /\ Top.msg \in {"setsel", "caret"}
                                        /\ \/ how = "default" \/ Top.passed > 0
                                           \/ wp # Top.wp \/ lp # Top.lp))
  BY DEF PassesOn
<1>3. PICK lp \in {Top.lp} \cup (CASE Top.msg \in Pointers -> {-1}
                                 [] Top.msg = "setsel" -> {10, 11} [] OTHER -> {}) :
          /\ PassOn(how, wp, lp)
          /\ tampered' = (tampered \/ ( /\ Top.msg \in {"setsel", "caret"}
                                        /\ \/ how = "default" \/ Top.passed > 0
                                           \/ wp # Top.wp \/ lp # Top.lp))
  BY <1>2
<1>4. /\ stack \in Seq(Frame) /\ Depth = Len(stack) /\ Top \in Frame /\ Top = stack[Len(stack)]
      /\ Len(stack) \in 1 .. Len(stack) /\ subclassed \in SUBSET Edits
      /\ FlagsRight(stack, subclassed) /\ Arrived(stack, subclassed)
  BY <1>1, TopIsLast, SelParts
<1>5. Top \in GuestCall /\ Top.passed \in Nat
  BY <1>1, <1>4, TwoKinds, GuestFacts
<1>6. Top.lp \in Int
  BY <1>5, GuestFacts
<1>7. /\ Top.msg \in Pointers => lp \in {Top.lp, -1}
      /\ lp \in {Top.lp, -1, 10, 11}
  <2>1. CASE Top.msg \in Pointers
    BY <2>1 DEF Pointers
  <2>2. CASE Top.msg \notin Pointers /\ Top.msg = "setsel"
    BY <2>2 DEF Pointers
  <2>3. CASE Top.msg \notin Pointers /\ Top.msg # "setsel"
    BY <2>3
  <2> QED BY <2>1, <2>2, <2>3
<1>8. lp \in Int /\ how \in Passing /\ wp \in Flags
  BY <1>6, <1>7 DEF Passing, Flags
<1>9. PICK t \in Seq(Frame), h \in HostDoing :
              /\ stack' = Append(t, h) /\ AllMove(stack, t)
              /\ h.how = how /\ h.hwnd = Top.hwnd /\ h.msg = Top.msg /\ h.wp = wp
              /\ h.after <=> Top.msg = "setsel" /\ how = "proc" /\ ScrollAfter(Top.hwnd, wp)
              /\ t[Depth].passed = Top.passed + 1
  BY <1>1, <1>3, <1>5, <1>7, <1>8, PassShape
<1>10. FlagRight(Top, subclassed)
  BY <1>4, Zenon DEF FlagsRight
<1>11. PICK g \in Frame : /\ g = t[Len(stack)] /\ SameCall(Top, g) /\ g.passed = Top.passed + 1
  <2>1. t[Len(stack)] \in Frame
    BY <1>4, <1>9 DEF AllMove
  <2>2. SameCall(Top, t[Len(stack)])
    BY <1>4, <1>5, <1>9, Zenon DEF AllMove, Moves
  <2> QED BY <1>4, <1>9, <2>1, <2>2
<1>12. FlagRight(g, subclassed) /\ ~Waits(g, subclassed)
  BY <1>4, <1>5, <1>10, <1>11, SameFlag
<1>13. ~Owes(g, subclassed)
  <2>1. g.who = "guest" /\ g.passed # 0
    BY <1>5, <1>11, GuestFacts DEF SameCall
  <2> QED BY <2>1 DEF Owes
<1>14. h.who = "host" /\ h \in Frame
  BY HostFacts DEF Frame
<1>15. h.how # "send" /\ h.how # "sent"
  BY <1>8, <1>9 DEF Passing
<1>16. ~Waits(h, subclassed) /\ FlagRight(h, subclassed)
  BY <1>9, <1>10, <1>14, <1>15 DEF Waits, FlagRight
<1>17. /\ FlagsRight(t, subclassed) /\ Arrived(t, subclassed) /\ ~TopWaits(t, subclassed)
       /\ Cardinality(Owing(stack, subclassed)) \in Nat /\ Cardinality(Owing(t, subclassed)) \in Nat
       /\ Cardinality(Owing(t, subclassed)) + (IF Owes(Top, subclassed) THEN 1 ELSE 0)
            = Cardinality(Owing(stack, subclassed))
  <2>1. /\ FlagsRight(t, subclassed) /\ Arrived(t, subclassed)
        /\ TopWaits(t, subclassed) <=> Waits(t[Len(stack)], subclassed)
        /\ Cardinality(Owing(stack, subclassed)) \in Nat
        /\ Cardinality(Owing(t, subclassed)) \in Nat
        /\ Cardinality(Owing(t, subclassed)) + (IF Owes(stack[Len(stack)], subclassed) THEN 1 ELSE 0)
             = Cardinality(Owing(stack, subclassed))
                 + (IF Owes(t[Len(stack)], subclassed) THEN 1 ELSE 0)
    BY <1>1, <1>4, <1>9, <1>11, <1>12, SelMoves
  <2> QED BY <1>4, <1>11, <1>12, <1>13, <2>1
<1>18. /\ FlagsRight(stack', subclassed) /\ Arrived(stack', subclassed)
       /\ OnWay(stack', subclassed) = NoSetsel
       /\ Cardinality(Owing(stack', subclassed)) = Cardinality(Owing(t, subclassed))
                                                      + (IF Owes(h, subclassed) THEN 1 ELSE 0)
  <2>1. /\ FlagsRight(stack', subclassed) /\ Arrived(stack', subclassed)
        /\ OnWay(stack', subclassed) = (IF Waits(h, subclassed) /\ h.msg = "setsel"
                                        THEN [hwnd |-> h.hwnd, ends |-> h.lp, flag |-> h.wp]
                                        ELSE NoSetsel)
        /\ Cardinality(Owing(stack', subclassed)) = Cardinality(Owing(t, subclassed))
             + (IF Owes(h, subclassed) THEN 1 ELSE 0)
    BY <1>4, <1>9, <1>14, <1>16, <1>17, SelGrows
  <2> QED BY <1>16, <2>1
<1>19. setselOut' = NoSetsel
  BY <1>1, GuestOnTop, NothingOnWay DEF GuestRuns
<1>20. ~tampered' => ~tampered /\ (Owes(h, subclassed) <=> Owes(Top, subclassed))
  <2>1. ~tampered' => ~tampered /\ (Top.msg \in Selection => how # "default" /\ ~(Top.passed > 0)
                                                                /\ wp = Top.wp)
    BY <1>3, Zenon DEF Selection
  <2>2. Top.passed > 0 <=> Top.passed # 0
    BY <1>5
  <2>3. Top.msg \in Selection => Top.hwnd \in Edits
    BY <1>10 DEF FlagRight
  <2>4. how # "default" => how = "proc"
    OBVIOUS
  <2>5. CASE Top.msg = "setsel"
    <3>1. Owes(h, subclassed) <=> h.after
      BY <1>9, <1>14, <1>16, <2>5 DEF Owes
    <3>2. Owes(Top, subclassed) <=> Top.passed = 0 /\ Top.wp = 0
      BY <1>1, <2>5 DEF Owes, Selection
    <3> QED BY <1>9, <2>1, <2>2, <2>3, <2>4, <2>5, <3>1, <3>2 DEF ScrollAfter, Selection
  <2>6. CASE Top.msg = "caret"
    <3>1. Owes(h, subclassed) <=> how = "proc"
      BY <1>9, <1>14, <1>15, <2>6 DEF Owes
    <3>2. Owes(Top, subclassed) <=> Top.passed = 0
      BY <1>1, <2>6 DEF Owes, Selection
    <3> QED BY <2>1, <2>2, <2>4, <2>6, <3>1, <3>2 DEF Selection
  <2>7. CASE Top.msg \notin Selection
    <3>1. ~Owes(h, subclassed) /\ ~Owes(Top, subclassed)
      BY <1>1, <1>9, <1>14, <2>7 DEF Owes, Selection
    <3> QED BY <2>1, <3>1
  <2> QED BY <2>5, <2>6, <2>7 DEF Selection
<1>21. ~tampered' => asked' = scrolled' + Cardinality(Owing(stack', subclassed))
                                        + Cardinality(CaretsIn(queue'))
  <2>1. ~tampered => asked = scrolled + Cardinality(Owing(stack, subclassed))
                                     + Cardinality(CaretsIn(queue))
    BY DEF SelInv
  <2>2. asked' = asked /\ scrolled' = scrolled /\ queue' = queue
    BY <1>1
  <2>3. ~tampered' => Cardinality(Owing(stack', subclassed)) = Cardinality(Owing(stack, subclassed))
    BY <1>17, <1>18, <1>20
  <2> QED BY <1>20, <2>1, <2>2, <2>3
<1> QED BY <1>1, <1>18, <1>19, <1>21, SelFrom

LEMMA AnswersSel == FwdInv /\ SelInv /\ Answers => SelInv'
<1> SUFFICES ASSUME FwdInv, SelInv, Answers PROVE SelInv'
  OBVIOUS
<1>1. /\ stack # << >> /\ Top.who = "host" /\ ~OnItsWay
      /\ UNCHANGED <<inflight, queue, subclassed, asked, tampered, kinds>>
  BY DEF Answers
<1>2. PICK h : h = Top
  OBVIOUS
<1>3. /\ scrolled' = IF /\ h.after \/ (h.msg = "caret" /\ h.how # "default" /\ h.how # "sent")
                        /\ scrolled <= MaxAsked
                     THEN scrolled + 1 ELSE scrolled
      /\ setselOut' = NoSetsel \/ setselOut' = setselOut
  BY <1>2, Zenon DEF Answers
<1>4. /\ stack \in Seq(Frame) /\ h \in Frame /\ h = stack[Len(stack)]
      /\ Len(stack) \in 1 .. Len(stack) /\ subclassed \in SUBSET Edits
      /\ FlagsRight(stack, subclassed) /\ Arrived(stack, subclassed)
  BY <1>1, <1>2, TopIsLast, SelParts
<1>5. h \in HostDoing /\ h.how \in Hows
  BY <1>1, <1>2, <1>4, TwoKinds, HostFacts
<1>6. ~TopWaits(stack, subclassed) /\ setselOut = NoSetsel /\ ~Waits(h, subclassed)
  <2>1. ~TopWaits(stack, subclassed)
    BY <1>1, WaitingTop
  <2>2. ~Waits(h, subclassed)
    BY <1>1, <1>4, <2>1, Zenon DEF TopWaits
  <2> QED BY <2>1, <2>2, NothingOnWay
<1>7. FlagRight(h, subclassed)
  BY <1>4, Zenon DEF FlagsRight
<1>8. Owes(h, subclassed) <=> h.after \/ (h.msg = "caret" /\ h.how # "default" /\ h.how # "sent")
  <2>1. h.how \in {"send", "proc"} <=> h.how # "default" /\ h.how # "sent"
    BY <1>5 DEF Hows
  <2>2. h.after => h.msg = "setsel"
    BY <1>1, <1>2, <1>7 DEF FlagRight
  <2>3. h.who = "host"
    BY <1>1, <1>2
  <2>4. Owes(h, subclassed) <=> \/ h.msg = "setsel" /\ h.after
                                \/ h.msg = "caret" /\ h.how \in {"send", "proc"}
    BY <1>6, <2>3 DEF Owes
  <2> QED BY <2>1, <2>2, <2>4, Zenon
<1>9. PICK b \in Seq(Frame) : b = Front(stack)
  BY <1>1, <1>4, LastTaken
<1>10. /\ FlagsRight(b, subclassed) /\ Arrived(b, subclassed) /\ ~TopWaits(b, subclassed)
       /\ Cardinality(Owing(b, subclassed)) \in Nat
       /\ Cardinality(Owing(stack, subclassed)) = Cardinality(Owing(b, subclassed))
            + (IF Owes(h, subclassed) THEN 1 ELSE 0)
  BY <1>1, <1>4, <1>9, SelShrinks
<1>11. /\ FlagsRight(stack', subclassed) /\ Arrived(stack', subclassed)
       /\ ~TopWaits(stack', subclassed)
       /\ Cardinality(Owing(stack', subclassed)) = Cardinality(Owing(b, subclassed))
  <2>1. CASE stack' = b
    BY <1>10, <2>1
  <2>2. CASE /\ b # << >> /\ stack' \in Seq(Frame) /\ AllMove(b, stack')
             /\ b[Len(b)] \in GuestCall /\ b[Len(b)].msg = "answer"
    <3>1. PICK t \in Seq(Frame) : t = stack'
      BY <2>2
    <3>2. Len(b) \in 1 .. Len(b) /\ b[Len(b)] \in Frame /\ t[Len(b)] \in Frame
      <4>1. Len(b) \in 1 .. Len(b) /\ Len(t) = Len(b)
        BY <2>2, <3>1, LastTaken DEF AllMove
      <4> QED BY <4>1
    <3>3. SameCall(b[Len(b)], t[Len(b)])
      BY <2>2, <3>1, <3>2, Zenon DEF AllMove, Moves
    <3>4. FlagRight(b[Len(b)], subclassed)
      BY <1>10, <3>2, Zenon DEF FlagsRight
    <3>5. /\ FlagRight(t[Len(b)], subclassed) /\ ~Waits(t[Len(b)], subclassed)
          /\ Owes(t[Len(b)], subclassed) <=> Owes(b[Len(b)], subclassed)
      <4>1. b[Len(b)].msg \notin Selection
        BY <2>2 DEF Selection
      <4> QED BY <1>4, <2>2, <3>2, <3>3, <3>4, <4>1, SameFlag
    <3>6. /\ FlagsRight(t, subclassed) /\ Arrived(t, subclassed)
          /\ TopWaits(t, subclassed) <=> Waits(t[Len(b)], subclassed)
          /\ Cardinality(Owing(b, subclassed)) \in Nat
          /\ Cardinality(Owing(t, subclassed)) \in Nat
          /\ Cardinality(Owing(t, subclassed)) + (IF Owes(b[Len(b)], subclassed) THEN 1 ELSE 0)
               = Cardinality(Owing(b, subclassed)) + (IF Owes(t[Len(b)], subclassed) THEN 1 ELSE 0)
      BY <1>4, <1>10, <2>2, <3>1, <3>5, SelMoves
    <3> QED BY <3>1, <3>5, <3>6
  <2> QED BY <1>9, <2>1, <2>2, AnswersShape
<1>12. OnWay(stack', subclassed) = NoSetsel
  BY <1>11, Zenon DEF OnWay
<1>13. ~tampered' => asked' = scrolled' + Cardinality(Owing(stack', subclassed))
                                        + Cardinality(CaretsIn(queue'))
  <2>1. /\ asked \in Nat /\ scrolled \in Nat /\ Cardinality(CaretsIn(queue)) \in Nat
        /\ asked <= MaxAsked
    <3>1. asked \in 0 .. MaxAsked
      BY DEF FwdInv, FwdTypes
    <3> QED BY <3>1, SelParts, ForwardingConstants
  <2>2. ~tampered => asked = scrolled + Cardinality(Owing(stack, subclassed))
                                     + Cardinality(CaretsIn(queue))
    BY DEF SelInv
  <2>3. asked' = asked /\ queue' = queue /\ tampered' = tampered
    BY <1>1
  <2>4. MaxAsked \in Nat
    BY ForwardingConstants
  <2>5. scrolled' = IF Owes(h, subclassed) /\ scrolled <= MaxAsked THEN scrolled + 1 ELSE scrolled
    BY <1>3, <1>8
  <2>6. ~tampered => (Owes(h, subclassed) => scrolled <= MaxAsked)
    BY <1>10, <2>1, <2>2, <2>4
  <2> QED BY <1>10, <1>11, <2>1, <2>2, <2>3, <2>5, <2>6
<1> QED BY <1>1, <1>3, <1>6, <1>11, <1>12, <1>13, SelFrom

LEMMA WritesSel == FwdInv /\ SelInv /\ Writes => SelInv'
<1> SUFFICES ASSUME FwdInv, SelInv, Writes PROVE SelInv'
  OBVIOUS
<1>1. UNCHANGED <<inflight, setselOut, queue, subclassed, asked, scrolled, tampered, kinds>>
  BY DEF Writes
<1>2. /\ stack # << >> /\ Top \in GuestCall /\ Top.msg = "answer"
      /\ stack' \in Seq(Frame) /\ AllMove(stack, stack')
  BY WritesShape
<1>3. PICK t \in Seq(Frame) : t = stack'
  BY <1>2
<1>4. /\ stack \in Seq(Frame) /\ Top \in Frame /\ Top = stack[Len(stack)]
      /\ Len(stack) \in 1 .. Len(stack) /\ subclassed \in SUBSET Edits
      /\ FlagsRight(stack, subclassed) /\ Arrived(stack, subclassed)
  BY <1>2, TopIsLast, SelParts
<1>5. t[Len(stack)] \in Frame /\ SameCall(Top, t[Len(stack)]) /\ AllMove(stack, t)
  <2>1. AllMove(stack, t)
    BY <1>2, <1>3
  <2>2. SameCall(Top, t[Len(stack)])
    BY <1>2, <1>4, <2>1, Zenon DEF AllMove, Moves
  <2>3. t[Len(stack)] \in Frame
    BY <1>4, <2>1 DEF AllMove
  <2> QED BY <2>1, <2>2, <2>3
<1>6. FlagRight(Top, subclassed)
  BY <1>4, Zenon DEF FlagsRight
<1>7. /\ FlagRight(t[Len(stack)], subclassed) /\ ~Waits(t[Len(stack)], subclassed)
      /\ ~Waits(Top, subclassed)
      /\ Owes(t[Len(stack)], subclassed) <=> Owes(Top, subclassed)
  <2>1. Top.msg \notin Selection
    BY <1>2 DEF Selection
  <2> QED BY <1>2, <1>4, <1>5, <1>6, <2>1, SameFlag
<1>8. /\ FlagsRight(t, subclassed) /\ Arrived(t, subclassed)
      /\ TopWaits(t, subclassed) <=> Waits(t[Len(stack)], subclassed)
      /\ Cardinality(Owing(stack, subclassed)) \in Nat
      /\ Cardinality(Owing(t, subclassed)) \in Nat
      /\ Cardinality(Owing(t, subclassed)) + (IF Owes(stack[Len(stack)], subclassed) THEN 1 ELSE 0)
           = Cardinality(Owing(stack, subclassed))
               + (IF Owes(t[Len(stack)], subclassed) THEN 1 ELSE 0)
  BY <1>2, <1>4, <1>5, <1>7, SelMoves
<1>9. Cardinality(Owing(t, subclassed)) = Cardinality(Owing(stack, subclassed))
  BY <1>4, <1>7, <1>8
<1>10. setselOut = NoSetsel /\ OnWay(t, subclassed) = NoSetsel
  <2>1. ~TopWaits(stack, subclassed)
    BY <1>4, <1>7, Zenon DEF TopWaits
  <2>2. ~TopWaits(t, subclassed)
    BY <1>7, <1>8
  <2> QED BY <2>1, <2>2, NothingOnWay DEF OnWay
<1> QED BY <1>1, <1>3, <1>8, <1>9, <1>10, SelFrom DEF SelInv

LEMMA ReturnsSel == FwdInv /\ SelInv /\ Returns => SelInv'
<1> SUFFICES ASSUME FwdInv, SelInv, Returns PROVE SelInv'
  OBVIOUS
<1>1. /\ stack # << >> /\ Top.who = "guest" /\ stack' = Front(stack)
      /\ tampered' = (tampered \/ (Top.msg \in {"setsel", "caret"} /\ Top.passed = 0))
      /\ UNCHANGED <<setselOut, queue, subclassed, asked, scrolled, kinds>>
  BY DEF Returns
<1>2. /\ stack \in Seq(Frame) /\ Top = stack[Len(stack)] /\ subclassed \in SUBSET Edits
      /\ FlagsRight(stack, subclassed) /\ Arrived(stack, subclassed)
  BY SelParts
<1>3. /\ FlagsRight(stack', subclassed) /\ Arrived(stack', subclassed)
      /\ ~TopWaits(stack', subclassed)
      /\ Cardinality(Owing(stack', subclassed)) \in Nat
      /\ Cardinality(Owing(stack, subclassed)) = Cardinality(Owing(stack', subclassed))
           + (IF Owes(Top, subclassed) THEN 1 ELSE 0)
  BY <1>1, <1>2, SelShrinks
<1>4. ~tampered' => ~tampered /\ ~Owes(Top, subclassed)
  BY <1>1 DEF Owes, Selection
<1>5. setselOut' = OnWay(stack', subclassed)
  <2>1. setselOut = NoSetsel
    BY <1>1, GuestOnTop, NothingOnWay DEF GuestRuns
  <2> QED BY <1>1, <1>3, <2>1 DEF OnWay
<1>6. ~tampered' => asked' = scrolled' + Cardinality(Owing(stack', subclassed))
                                       + Cardinality(CaretsIn(queue'))
  <2>1. ~tampered => asked = scrolled + Cardinality(Owing(stack, subclassed))
                                     + Cardinality(CaretsIn(queue))
    BY DEF SelInv
  <2>2. ~tampered' => Cardinality(Owing(stack', subclassed)) = Cardinality(Owing(stack, subclassed))
    BY <1>3, <1>4
  <2>3. asked' = asked /\ scrolled' = scrolled /\ queue' = queue
    BY <1>1
  <2> QED BY <1>4, <2>1, <2>2, <2>3
<1> QED BY <1>1, <1>3, <1>5, <1>6, SelFrom

LEMMA SelInvKept == FwdInv /\ SelInv /\ [FwdStep]_fwdVars => SelInv'
<1> SUFFICES ASSUME FwdInv, SelInv, [FwdStep]_fwdVars PROVE SelInv'
  OBVIOUS
<1>1. CASE HostSends
  BY <1>1, HostSendsSel
<1>2. CASE Send
  BY <1>2, SendSel
<1>3. CASE Post
  BY <1>3, PostSel
<1>4. CASE LoopDispatches
  BY <1>4, LoopSel
<1>5. CASE SendArrives
  BY <1>5, ArrivesSel
<1>6. CASE PassesOn
  BY <1>6, PassesOnSel
<1>7. CASE Answers
  BY <1>7, AnswersSel
<1>8. CASE Writes
  BY <1>8, WritesSel
<1>9. CASE Returns
  BY <1>9, ReturnsSel
<1>10. CASE UNCHANGED fwdVars
  BY <1>10, SelFrom DEF fwdVars, SelInv
<1> QED BY <1>1, <1>2, <1>3, <1>4, <1>5, <1>6, <1>7, <1>8, <1>9, <1>10 DEF FwdStep

LEMMA NothingOwed ==
    /\ \A sub : Owing(<< >>, sub) = {}
    /\ CaretsIn(<< >>) = {}
    /\ Cardinality({}) = 0
BY FS_EmptySet DEF Owing, CaretsIn

LEMMA SelInvInit == FwdInit => SelInv
<1> SUFFICES ASSUME FwdInit PROVE SelInv
  OBVIOUS
<1>1. /\ stack = << >> /\ Len(stack) = 0 /\ setselOut = NoSetsel /\ queue = << >>
      /\ asked = 0 /\ scrolled = 0
  BY DEF FwdInit
<1>2. FlagsRight(stack, subclassed) /\ Arrived(stack, subclassed)
  BY <1>1 DEF FlagsRight, Arrived
<1>3. setselOut = OnWay(stack, subclassed)
  BY <1>1 DEF OnWay, TopWaits
<1>4. Cardinality(Owing(stack, subclassed)) = 0 /\ Cardinality(CaretsIn(queue)) = 0
  BY <1>1, NothingOwed
<1> QED BY <1>1, <1>2, <1>3, <1>4 DEF SelInv

LEMMA WhatIsOwed == FwdInv /\ SelInv => SelectionsKept
<1> SUFFICES ASSUME FwdInv, SelInv PROVE FlagIsItsOwn /\ ScrollsAsAsked
  BY DEF SelectionsKept
<1>1. FlagIsItsOwn
  <2>1. FlagsRight(stack, subclassed) /\ DOMAIN stack = 1 .. Len(stack)
    BY SelParts
  <2> QED BY <2>1 DEF FlagIsItsOwn, FlagsRight, FlagRight
<1>2. ASSUME stack = << >>, queue = << >>, ~tampered PROVE scrolled = asked
  <2>1. Cardinality(Owing(stack, subclassed)) = 0 /\ Cardinality(CaretsIn(queue)) = 0
    BY <1>2, NothingOwed
  <2>2. asked = scrolled + Cardinality(Owing(stack, subclassed)) + Cardinality(CaretsIn(queue))
    BY <1>2 DEF SelInv
  <2> QED BY <2>1, <2>2, SelParts
<1> QED BY <1>1, <1>2 DEF ScrollsAsAsked

\* A selection: however sends, posts, subclassing procedures and the emulator's
\* own windows are nested, the flag a guest procedure sees is that of the message
\* it answers, though it is kept apart while the message is on its way; and once
\* every call has returned and every post is dispatched, the edit has scrolled as
\* often as it was asked to, if every procedure handed each selection on once and
\* as it came.
THEOREM SelectionsAlwaysKept == FwdSpecification => []SelectionsKept
<1>1. FwdSpecification => []FwdInv
  BY FwdInvInit, FwdInvKept, PTL DEF FwdSpecification
<1>2. FwdSpecification => []SelInv
  BY <1>1, SelInvInit, SelInvKept, PTL DEF FwdSpecification
<1> QED BY <1>1, <1>2, WhatIsOwed, PTL
=============================================================================
