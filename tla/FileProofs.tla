------------------------------ MODULE FileProofs ------------------------------
(***************************************************************************)
(* What fs_win32.c promises of the files the guest writes: however the     *)
(* calls go, no buffer is both kinds and a read that starts dry sees every *)
(* write; and in the everyday case the buffers cannot be seen at all.      *)
(***************************************************************************)
EXTENDS BufferedFile, SequenceTheorems, NaturalsInduction, WellFoundedInduction, TLAPS

String == Seq(Byte)

FileType == [open : BOOLEAN, at : Nat, ahead : String, behind : String]

-----------------------------------------------------------------------------
(* Greatest and least.                                                      *)

\* A set of numbers has a least one.
LEMMA LeastOf ==
  ASSUME NEW S \in SUBSET Nat, S # {}
  PROVE  \E x \in S : \A y \in S : x <= y
<1> DEFINE R == {ss \in Nat \X Nat : ss[1] < ss[2]}
<1>1. IsWellFoundedOn(R, Nat)
  BY NatLessThanWellFounded DEF OpToRel
<1>2. \A x, y \in Nat : <<y, x>> \in R <=> y < x
  OBVIOUS
<1> HIDE DEF R
<1>3. PICK x \in S : \A y \in S : ~(<<y, x>> \in R)
  BY <1>1, WFMin
<1>4. \A y \in S : y \in Nat /\ x \in Nat /\ ~(y < x)
  BY <1>2, <1>3
<1>5. \A y \in S : x <= y
  BY <1>4
<1> QED BY <1>5

\* What Max of SequencesExt is, of numbers that have a bound.
LEMMA MaxOf ==
  ASSUME NEW S \in SUBSET Nat, S # {}, NEW B \in Nat, \A x \in S : x <= B
  PROVE  Max(S) \in S /\ \A x \in S : x <= Max(S)
<1> DEFINE T == {B - x : x \in S}
<1>0. \A x \in S : x \in Nat /\ x <= B
  OBVIOUS
<1>1. T \in SUBSET Nat /\ T # {}
  <2>1. \A x \in S : B - x \in Nat
    BY <1>0
  <2> QED BY <2>1
<1>2. PICK t \in T : \A u \in T : t <= u
  <2> HIDE DEF T
  <2> QED BY <1>1, LeastOf
<1>3. PICK x \in S : t = B - x
  BY <1>2
<1>4. \A y \in S : x >= y
  <2> SUFFICES ASSUME NEW y \in S PROVE x >= y
    OBVIOUS
  <2>1. B - y \in T
    OBVIOUS
  <2> HIDE DEF T
  <2>2. B - x <= B - y
    BY <1>2, <1>3, <2>1
  <2> QED BY <1>0, <1>3, <2>2
<1>5. Max(S) \in S /\ \A y \in S : Max(S) >= y
  BY <1>3, <1>4 DEF Max
<1>6. \A y \in S : y <= Max(S)
  BY <1>0, <1>5
<1> QED
  BY <1>5, <1>6

\* The greater of two.
LEMMA MaxOfTwo ==
  ASSUME NEW a \in Nat, NEW b \in Nat
  PROVE  Max({a, b}) = IF a <= b THEN b ELSE a
<1>1. Max({a, b}) \in {a, b} /\ \A x \in {a, b} : x <= Max({a, b})
  <2>1. \A x \in {a, b} : x <= a + b
    OBVIOUS
  <2> QED BY <2>1, MaxOf
<1> QED BY <1>1

\* The lesser of two.
LEMMA MinOfTwo ==
  ASSUME NEW a \in Int, NEW b \in Int
  PROVE  Min({a, b}) = IF a <= b THEN a ELSE b
<1>1. \E x \in {a, b} : \A y \in {a, b} : x =< y
  OBVIOUS
<1>2. Min({a, b}) \in {a, b} /\ \A y \in {a, b} : Min({a, b}) =< y
  BY <1>1 DEF Min
<1> QED BY <1>2

\* The numbers of finitely many handles have a bound.
LEMMA Bounded ==
  ASSUME NEW f \in [Handle -> Nat]
  PROVE  \E B \in Nat : \A h \in Handle : f[h] <= B
<1> DEFINE S == {n \in 0 .. N : ~\E B \in Nat : \A h \in 1 .. n : f[h] <= B}
<1>0. N \in Nat
  BY HandlesAssumption
<1>1. S = {}
  <2> SUFFICES ASSUME S # {} PROVE FALSE
    OBVIOUS
  <2>1. PICK n \in S : \A m \in S : n <= m
    <3>1. S \in SUBSET Nat
      BY <1>0
    <3> HIDE DEF S
    <3> QED BY <3>1, LeastOf
  <2>2. n # 0
    <3>1. \A h \in 1 .. 0 : f[h] <= 0
      OBVIOUS
    <3> QED BY <2>1, <3>1
  <2>3. n \in 1 .. N
    BY <1>0, <2>1, <2>2
  <2>4. n - 1 \in 0 .. N /\ ~(n <= n - 1)
    BY <1>0, <2>3
  <2>5. n - 1 \notin S
    <3> HIDE DEF S
    <3> QED BY <2>1, <2>4
  <2>6. PICK B \in Nat : \A h \in 1 .. n - 1 : f[h] <= B
    BY <2>4, <2>5
  <2>7. \A h \in 1 .. n : f[h] \in Nat
    <3> HIDE DEF S
    <3>1. \A h \in 1 .. n : h \in 1 .. N
      BY <1>0, <2>3
    <3> QED BY <3>1 DEF Handle
  <2>8. f[n] \in Nat /\ B + f[n] \in Nat
    <3> HIDE DEF S
    <3>1. f[n] \in Nat
      BY <2>3 DEF Handle
    <3> QED BY <3>1
  <2>9. \A h \in 1 .. n : f[h] <= B + f[n]
    <3> SUFFICES ASSUME NEW h \in 1 .. n PROVE f[h] <= B + f[n]
      OBVIOUS
    <3>1. f[h] \in Nat
      BY <2>7
    <3>2. CASE h = n
      BY <2>8, <3>2
    <3>3. CASE h \in 1 .. n - 1
      BY <2>6, <2>8, <3>1, <3>3
    <3> QED BY <2>3, <3>2, <3>3
  <2> QED BY <2>1, <2>8, <2>9
<1>2. N \in 0 .. N
  BY <1>0
<1>3. ~(N \in S)
  BY <1>1
<1> QED BY <1>2, <1>3 DEF Handle

-----------------------------------------------------------------------------
(* Strings: what a slice and an overlay read as.                            *)

\* What the library says of a string.
LEMMA StringIs ==
  ASSUME NEW s \in String
  PROVE  /\ Len(s) \in Nat /\ DOMAIN s = 1 .. Len(s)
         /\ \A i \in 1 .. Len(s) : s[i] \in Byte
         /\ s = <<>> <=> Len(s) = 0
<1> QED BY LenProperties, ElementOfSeq, EmptySeq DEF String

\* A function on 1 .. n into the bytes is a string.
LEMMA Built ==
  ASSUME NEW n \in Nat, NEW f, DOMAIN f = 1 .. n, f = [i \in 1 .. n |-> f[i]],
         \A i \in 1 .. n : f[i] \in Byte
  PROVE  f \in String /\ Len(f) = n
<1>1. f \in [1 .. n -> Byte]
  OBVIOUS
<1>2. f \in String
  BY <1>1, SeqDef DEF String
<1>3. DOMAIN f = 1 .. Len(f) /\ Len(f) \in Nat
  BY <1>2, StringIs
<1> QED BY <1>2, <1>3

\* A slice: as many bytes as the string has there.
LEMMA SliceIs ==
  ASSUME NEW s \in String, NEW p \in Nat, NEW k \in Nat
  PROVE  LET n == IF p >= Len(s) THEN 0 ELSE IF p + k <= Len(s) THEN k ELSE Len(s) - p
         IN  /\ F!Slice(s, p, k) \in String /\ Len(F!Slice(s, p, k)) = n
             /\ \A i \in 1 .. n : F!Slice(s, p, k)[i] = s[p + i]
<1> DEFINE m == Min({p + k, Len(s)})
           n == IF p >= Len(s) THEN 0 ELSE IF p + k <= Len(s) THEN k ELSE Len(s) - p
<1>1. Len(s) \in Nat /\ \A i \in 1 .. Len(s) : s[i] \in Byte
  BY StringIs
<1>2. m = IF p + k <= Len(s) THEN p + k ELSE Len(s)
  BY <1>1, MinOfTwo
<1> HIDE DEF m
<1>3. m \in Int /\ p + 1 \in Int /\ \A i \in p + 1 .. m : s[i] \in Byte
  BY <1>1, <1>2
<1>4. /\ SubSeq(s, p + 1, m) \in Seq(Byte)
      /\ Len(SubSeq(s, p + 1, m)) = IF p + 1 <= m THEN m - (p + 1) + 1 ELSE 0
      /\ \A i \in 1 .. m - (p + 1) + 1 : SubSeq(s, p + 1, m)[i] = s[p + 1 + i - 1]
  BY <1>3, SubSeqProperties
<1>5. F!Slice(s, p, k) = SubSeq(s, p + 1, m)
  BY DEF F!Slice, F!Min, Min, m
<1>6. Len(SubSeq(s, p + 1, m)) = n /\ (n > 0 => n = m - (p + 1) + 1)
  BY <1>1, <1>2, <1>3, <1>4
<1>7. \A i \in 1 .. n : SubSeq(s, p + 1, m)[i] = s[p + i]
  <2> SUFFICES ASSUME NEW i \in 1 .. n PROVE SubSeq(s, p + 1, m)[i] = s[p + i]
    OBVIOUS
  <2>1. i \in 1 .. m - (p + 1) + 1 /\ p + 1 + i - 1 = p + i
    BY <1>1, <1>2, <1>3, <1>6
  <2> QED BY <1>4, <2>1
<1> HIDE DEF n
<1>8. /\ F!Slice(s, p, k) \in String /\ Len(F!Slice(s, p, k)) = n
      /\ \A i \in 1 .. n : F!Slice(s, p, k)[i] = s[p + i]
  BY <1>4, <1>5, <1>6, <1>7 DEF String
<1> QED BY <1>8 DEF n

\* An overlay: the new bytes where they go, the old ones or zeros elsewhere.
LEMMA OverlaidIs ==
  ASSUME NEW s \in String, NEW p \in Nat, NEW d \in String, d # <<>>
  PROVE  LET e == p + Len(d)
             n == IF Len(s) <= e THEN e ELSE Len(s)
         IN  /\ F!Overlaid(s, p, d) \in String /\ Len(F!Overlaid(s, p, d)) = n
             /\ \A i \in 1 .. n :
                   F!Overlaid(s, p, d)[i] = IF i > p /\ i <= e THEN d[i - p]
                                            ELSE IF i <= Len(s) THEN s[i] ELSE 0
<1> DEFINE e == p + Len(d)
           n == IF Len(s) <= e THEN e ELSE Len(s)
           f == F!Overlaid(s, p, d)
<1>1. /\ Len(s) \in Nat /\ Len(d) \in Nat
      /\ \A i \in 1 .. Len(s) : s[i] \in Byte
      /\ \A i \in 1 .. Len(d) : d[i] \in Byte
  BY StringIs
<1>2. Max({Len(s), p + Len(d)}) = n
  BY <1>1, MaxOfTwo
<1>3. f = [i \in 1 .. n |-> IF i > p /\ i <= e THEN d[i - p]
                             ELSE IF i <= Len(s) THEN s[i] ELSE 0]
  <2>1. F!Max({Len(s), p + Len(d)}) = n
    BY <1>2 DEF F!Max, Max
  <2> QED BY <2>1 DEF F!Overlaid
<1>4. n \in Nat /\ e \in Nat
  BY <1>1
<1> HIDE DEF f, n
<1>5. \A i \in 1 .. n : (IF i > p /\ i <= e THEN d[i - p]
                         ELSE IF i <= Len(s) THEN s[i] ELSE 0) \in Byte
  BY <1>1, <1>4 DEF Byte
<1> HIDE DEF e
<1>6. /\ DOMAIN f = 1 .. n /\ f = [i \in 1 .. n |-> f[i]]
      /\ \A i \in 1 .. n : f[i] \in Byte
  BY <1>3, <1>5
<1>7. f \in String /\ Len(f) = n
  BY <1>4, <1>6, Built
<1> QED BY <1>3, <1>7 DEF f, e, n

\* Two strings that have the same places and the same bytes in them.
LEMMA SameString ==
  ASSUME NEW s \in String, NEW t \in String,
         \A i \in Nat \ {0} : i \in 1 .. Len(s) <=> i \in 1 .. Len(t),
         \A i \in 1 .. Len(s) : s[i] = t[i]
  PROVE  s = t
<1>1. Len(s) \in Nat /\ Len(t) \in Nat
  BY StringIs
<1>2. Len(s) = Len(t)
  BY <1>1
<1> QED BY <1>2, SeqEqual DEF String

(* What the file reads as when the writes of `out` have landed.            *)
LEMMA AllLandedIs ==
  ASSUME NEW bytes \in String, NEW fs \in [Handle -> FileType], NEW out \in SUBSET Handle
  PROVE  LET t == AllLanded(bytes, fs, out)
         IN  /\ t \in String
             /\ \A i \in Nat \ {0} :
                  i \in 1 .. Len(t) <=> \/ i \in 1 .. Len(bytes)
                                        \/ \E g \in out : i <= fs[g].at + Len(fs[g].behind)
             /\ \A i \in 1 .. Len(t), g \in out :
                  /\ i \in Pending(fs[g])
                  /\ \A k \in out : i \in Pending(fs[k]) => k = g
                  => t[i] = fs[g].behind[i - fs[g].at]
             /\ \A i \in 1 .. Len(t) :
                  (\A k \in out : i \notin Pending(fs[k])) =>
                     t[i] = IF i \in 1 .. Len(bytes) THEN bytes[i] ELSE 0
<1> DEFINE End == [h \in Handle |-> fs[h].at + Len(fs[h].behind)]
           ends == {Len(bytes)} \cup {fs[g].at + Len(fs[g].behind) : g \in out}
           over(i) == {g \in out : i \in Pending(fs[g])}
           top(i) == fs[Max(over(i))]
           byte(i) == IF over(i) # {} THEN top(i).behind[i - top(i).at]
                      ELSE IF i \in DOMAIN bytes THEN bytes[i] ELSE 0
           n == Max(ends)
           t == AllLanded(bytes, fs, out)
<1>1. /\ Len(bytes) \in Nat /\ DOMAIN bytes = 1 .. Len(bytes)
      /\ \A i \in 1 .. Len(bytes) : bytes[i] \in Byte
  BY StringIs
<1>2. \A g \in Handle : /\ fs[g].at \in Nat /\ Len(fs[g].behind) \in Nat
                        /\ \A i \in 1 .. Len(fs[g].behind) : fs[g].behind[i] \in Byte
  <2> SUFFICES ASSUME NEW g \in Handle
               PROVE  /\ fs[g].at \in Nat /\ Len(fs[g].behind) \in Nat
                      /\ \A i \in 1 .. Len(fs[g].behind) : fs[g].behind[i] \in Byte
    OBVIOUS
  <2>1. fs[g].at \in Nat /\ fs[g].behind \in String
    BY DEF FileType
  <2> QED BY <2>1, StringIs
<1>3. n \in ends /\ n \in Nat /\ \A x \in ends : x <= n
  <2>1. End \in [Handle -> Nat]
    BY <1>2
  <2>2. PICK B \in Nat : \A h \in Handle : End[h] <= B
    <3> HIDE DEF End
    <3> QED BY <2>1, Bounded
  <2>3. ends \in SUBSET Nat /\ ends # {}
    BY <1>1, <1>2
  <2>4. \A x \in ends : x <= B + Len(bytes)
    <3>1. \A g \in out : fs[g].at + Len(fs[g].behind) <= B + Len(bytes)
      BY <1>1, <1>2, <2>2
    <3>2. Len(bytes) <= B + Len(bytes)
      BY <1>1
    <3> QED BY <3>1, <3>2
  <2>5. B + Len(bytes) \in Nat
    BY <1>1
  <2> HIDE DEF ends
  <2> QED BY <2>3, <2>4, <2>5, MaxOf
<1>4. \A i \in Nat : over(i) # {} => Max(over(i)) \in over(i)
  <2> SUFFICES ASSUME NEW i \in Nat, over(i) # {} PROVE Max(over(i)) \in over(i)
    OBVIOUS
  <2>0. over(i) \subseteq Handle
    OBVIOUS
  <2> HIDE DEF over
  <2>1. over(i) \in SUBSET Nat /\ N \in Nat /\ \A g \in over(i) : g <= N
    BY <2>0, HandlesAssumption DEF Handle
  <2> QED BY <2>1, MaxOf
<1>5. t = [i \in 1 .. n |-> byte(i)]
  BY DEF AllLanded
<1>6. \A i \in 1 .. n : byte(i) \in Byte
  <2> SUFFICES ASSUME NEW i \in 1 .. n PROVE byte(i) \in Byte
    OBVIOUS
  <2>0. i \in Nat
    BY <1>3
  <2>1. CASE over(i) # {}
    <3>1. Max(over(i)) \in over(i)
      BY <1>4, <2>0, <2>1
    <3>2. PICK g \in Handle : g = Max(over(i)) /\ i \in Pending(fs[g])
      BY <3>1
    <3> HIDE DEF over
    <3>3. i - fs[g].at \in 1 .. Len(fs[g].behind)
      BY <1>2, <2>0, <3>2 DEF Pending
    <3> QED BY <1>2, <2>1, <3>2, <3>3
  <2>2. CASE over(i) = {}
    <3> HIDE DEF over
    <3> QED BY <1>1, <2>2 DEF Byte
  <2> QED BY <2>1, <2>2
<1>7. t \in String /\ Len(t) = n
  <2> HIDE DEF byte, n
  <2>1. DOMAIN t = 1 .. n /\ t = [i \in 1 .. n |-> t[i]] /\ \A i \in 1 .. n : t[i] \in Byte
    BY <1>5, <1>6
  <2> HIDE DEF t
  <2> QED BY <1>3, <2>1, Built
<1>8. \A i \in 1 .. Len(t) : t[i] = byte(i)
  <2> HIDE DEF byte, n
  <2>1. \A i \in 1 .. n : t[i] = byte(i)
    BY <1>5
  <2> HIDE DEF t
  <2> QED BY <1>7, <2>1
<1> HIDE DEF t, n
<1>9. ASSUME NEW i \in Nat \ {0}
      PROVE  i \in 1 .. Len(t) <=> \/ i \in 1 .. Len(bytes)
                                   \/ \E g \in out : i <= fs[g].at + Len(fs[g].behind)
  <2>1. \A g \in out : fs[g].at + Len(fs[g].behind) \in Nat
    BY <1>2
  <2>2. /\ Len(bytes) <= n
        /\ \A g \in out : fs[g].at + Len(fs[g].behind) <= n
        /\ n = Len(bytes) \/ \E g \in out : n = fs[g].at + Len(fs[g].behind)
    BY <1>3
  <2>3. i \in 1 .. Len(t) <=> i <= n
    BY <1>3, <1>7
  <2>4. i \in 1 .. Len(bytes) <=> i <= Len(bytes)
    BY <1>1
  <2> HIDE DEF ends
  <2>5. ASSUME i <= n
        PROVE  i <= Len(bytes) \/ \E g \in out : i <= fs[g].at + Len(fs[g].behind)
    BY <2>2, <2>5
  <2>6. ASSUME i <= Len(bytes) PROVE i <= n
    <3>1. Len(bytes) \in Nat /\ Len(bytes) <= n
      BY <1>1, <2>2
    <3>2. n \in Nat
      BY <1>3
    <3> QED BY <2>6, <3>1, <3>2
  <2>7. ASSUME NEW g \in out, i <= fs[g].at + Len(fs[g].behind) PROVE i <= n
    <3>1. PICK e \in Nat : e = fs[g].at + Len(fs[g].behind)
      BY <2>1, <2>7
    <3>2. e <= n /\ i <= e
      BY <2>2, <2>7, <3>1
    <3> QED BY <1>3, <3>2
  <2> QED BY <2>3, <2>4, <2>5, <2>6, <2>7
<1>10. ASSUME NEW i \in 1 .. Len(t), NEW g \in out, i \in Pending(fs[g]),
              \A k \in out : i \in Pending(fs[k]) => k = g
       PROVE  t[i] = fs[g].behind[i - fs[g].at]
  <2>0. i \in Nat
    BY <1>3, <1>7
  <2>1. over(i) = {g} /\ Max(over(i)) = g
    BY <1>4, <1>10, <2>0
  <2> HIDE DEF over
  <2> QED BY <1>8, <2>1
<1>11. ASSUME NEW i \in 1 .. Len(t), \A k \in out : i \notin Pending(fs[k])
       PROVE  t[i] = IF i \in 1 .. Len(bytes) THEN bytes[i] ELSE 0
  <2>1. over(i) = {}
    BY <1>11
  <2> HIDE DEF over
  <2> QED BY <1>1, <1>8, <2>1
<1> QED BY <1>7, <1>9, <1>10, <1>11 DEF t

\* Nothing pending: the file is as it is.
LEMMA NoneLanded ==
  ASSUME NEW bytes \in String, NEW fs \in [Handle -> FileType]
  PROVE  AllLanded(bytes, fs, {}) = bytes
<1> DEFINE t == AllLanded(bytes, fs, {})
<1>1. /\ t \in String
      /\ \A i \in Nat \ {0} : i \in 1 .. Len(t) <=> i \in 1 .. Len(bytes)
      /\ \A i \in 1 .. Len(t) : t[i] = IF i \in 1 .. Len(bytes) THEN bytes[i] ELSE 0
  BY AllLandedIs
<1>2. Len(t) \in Nat
  BY <1>1, StringIs
<1> HIDE DEF t
<1>3. \A i \in 1 .. Len(t) : t[i] = bytes[i]
  BY <1>1, <1>2
<1> QED BY <1>1, <1>3, SameString DEF t

\* One handle with something pending: its string laid over the file.
LEMMA OneLanded ==
  ASSUME NEW bytes \in String, NEW fs \in [Handle -> FileType], NEW g \in Handle,
         fs[g].behind # <<>>
  PROVE  AllLanded(bytes, fs, {g}) = F!Overlaid(bytes, fs[g].at, fs[g].behind)
<1> DEFINE t == AllLanded(bytes, fs, {g})
           p == fs[g].at
           d == fs[g].behind
           s == F!Overlaid(bytes, p, d)
           e == p + Len(d)
           n == IF Len(bytes) <= e THEN e ELSE Len(bytes)
<1>1. p \in Nat /\ d \in String /\ d # <<>>
  BY DEF FileType
<1>2. /\ t \in String
      /\ \A i \in Nat \ {0} : i \in 1 .. Len(t) <=> i \in 1 .. Len(bytes) \/ i <= e
      /\ \A i \in 1 .. Len(t) : i \in Pending(fs[g]) => t[i] = d[i - p]
      /\ \A i \in 1 .. Len(t) : i \notin Pending(fs[g]) =>
            t[i] = IF i \in 1 .. Len(bytes) THEN bytes[i] ELSE 0
  BY AllLandedIs
<1>3. \A i : i \in Pending(fs[g]) <=> i \in p + 1 .. e
  BY DEF Pending
<1>4. /\ Len(bytes) \in Nat /\ Len(d) \in Nat /\ Len(t) \in Nat
  BY <1>1, <1>2, StringIs
<1> HIDE DEF p, d
<1>5. /\ s \in String /\ Len(s) = n
      /\ \A i \in 1 .. n : s[i] = IF i > p /\ i <= e THEN d[i - p]
                                  ELSE IF i <= Len(bytes) THEN bytes[i] ELSE 0
  BY <1>1, OverlaidIs
<1> HIDE DEF s, t
<1>6. \A i \in Nat \ {0} : i \in 1 .. Len(t) <=> i \in 1 .. Len(s)
  BY <1>1, <1>2, <1>4, <1>5
<1>7. \A i \in 1 .. Len(t) : t[i] = s[i]
  <2> SUFFICES ASSUME NEW i \in 1 .. Len(t) PROVE t[i] = s[i]
    OBVIOUS
  <2>1. i \in Nat \ {0} /\ i \in 1 .. n
    BY <1>4, <1>5, <1>6
  <2>2. s[i] = IF i > p /\ i <= e THEN d[i - p] ELSE IF i <= Len(bytes) THEN bytes[i] ELSE 0
    BY <1>5, <2>1
  <2>3. (i > p /\ i <= e) <=> i \in Pending(fs[g])
    BY <1>1, <1>3, <1>4, <2>1
  <2>4. i \in 1 .. Len(bytes) <=> i <= Len(bytes)
    BY <1>4, <2>1
  <2> HIDE DEF n, e
  <2> QED BY <1>2, <2>2, <2>3, <2>4
<1>8. t = s
  BY <1>2, <1>5, <1>6, <1>7, SameString
<1> QED BY <1>8 DEF t, s, p, d

(* A handle's own writes first, then the others': where no two of them have *)
(* the same byte pending, the order is not seen.                            *)
LEMMA EveryWriteSeen ==
  ASSUME NEW bytes \in String, NEW fs \in [Handle -> FileType], NEW gs \in [Handle -> FileType],
         NEW h \in Handle, \A g \in Handle \ {h} : gs[g] = fs[g],
         \A g, k \in Handle : g # k => Pending(fs[g]) \cap Pending(fs[k]) = {}
  PROVE  AllLanded(F!Overlaid(bytes, fs[h].at, fs[h].behind), gs, Dirty(gs, Handle \ {h}))
           = AllLanded(bytes, fs, Dirty(fs, Handle))
<1> DEFINE p == fs[h].at
           d == fs[h].behind
           own == F!Overlaid(bytes, p, d)
           rest == Dirty(gs, Handle \ {h})
           all == Dirty(fs, Handle)
           s == AllLanded(own, gs, rest)
           t == AllLanded(bytes, fs, all)
<1>1. /\ p \in Nat /\ d \in String /\ Len(bytes) \in Nat /\ Len(d) \in Nat
      /\ d = <<>> <=> Len(d) = 0
  <2>1. p \in Nat /\ d \in String
    BY DEF FileType
  <2> HIDE DEF p, d
  <2> QED BY <2>1, StringIs
<1>2. /\ rest \in SUBSET Handle /\ all \in SUBSET Handle /\ h \notin rest
      /\ \A g \in rest : gs[g] = fs[g]
      /\ \A g \in Handle : g \in all <=> g \in rest \/ (g = h /\ d # <<>>)
  BY DEF Dirty
<1>3. \A i : i \in Pending(fs[h]) <=> i \in p + 1 .. p + Len(d)
  BY DEF Pending
<1>4. /\ own \in String
      /\ \A i \in Nat \ {0} :
           i \in 1 .. Len(own) <=> (i \in 1 .. Len(bytes) \/ (d # <<>> /\ i <= p + Len(d)))
      /\ \A i \in 1 .. Len(own) : i \in p + 1 .. p + Len(d) => own[i] = d[i - p]
      /\ \A i \in 1 .. Len(own) : i \notin p + 1 .. p + Len(d) =>
            own[i] = IF i \in 1 .. Len(bytes) THEN bytes[i] ELSE 0
  <2>1. CASE d = <<>>
    <3>1. own = bytes
      BY <2>1 DEF F!Overlaid
    <3> HIDE DEF p, d, own
    <3>2. p + 1 .. p + Len(d) = {}
      BY <1>1, <2>1
    <3> QED BY <2>1, <3>1, <3>2
  <2>2. CASE d # <<>>
    <3> HIDE DEF p, d
    <3> DEFINE e == p + Len(d)
               n == IF Len(bytes) <= e THEN e ELSE Len(bytes)
    <3>1. /\ own \in String /\ Len(own) = n
          /\ \A i \in 1 .. n : own[i] = IF i > p /\ i <= e THEN d[i - p]
                                        ELSE IF i <= Len(bytes) THEN bytes[i] ELSE 0
      BY <1>1, <2>2, OverlaidIs
    <3> HIDE DEF own
    <3> QED BY <1>1, <2>2, <3>1
  <2> QED BY <2>1, <2>2
<1> HIDE DEF own, rest, all
<1>5. /\ s \in String
      /\ \A i \in Nat \ {0} :
           i \in 1 .. Len(s) <=> \/ i \in 1 .. Len(own)
                                 \/ \E g \in rest : i <= gs[g].at + Len(gs[g].behind)
      /\ \A i \in 1 .. Len(s), g \in rest :
           /\ i \in Pending(gs[g])
           /\ \A k \in rest : i \in Pending(gs[k]) => k = g
           => s[i] = gs[g].behind[i - gs[g].at]
      /\ \A i \in 1 .. Len(s) :
           (\A k \in rest : i \notin Pending(gs[k])) =>
              s[i] = IF i \in 1 .. Len(own) THEN own[i] ELSE 0
  BY <1>2, <1>4, AllLandedIs
<1>6. /\ t \in String
      /\ \A i \in Nat \ {0} :
           i \in 1 .. Len(t) <=> \/ i \in 1 .. Len(bytes)
                                 \/ \E g \in all : i <= fs[g].at + Len(fs[g].behind)
      /\ \A i \in 1 .. Len(t), g \in all :
           /\ i \in Pending(fs[g])
           /\ \A k \in all : i \in Pending(fs[k]) => k = g
           => t[i] = fs[g].behind[i - fs[g].at]
      /\ \A i \in 1 .. Len(t) :
           (\A k \in all : i \notin Pending(fs[k])) =>
              t[i] = IF i \in 1 .. Len(bytes) THEN bytes[i] ELSE 0
  BY <1>2, AllLandedIs
<1>7. Len(s) \in Nat /\ Len(t) \in Nat /\ Len(own) \in Nat
  BY <1>4, <1>5, <1>6, StringIs
<1>8. ASSUME NEW i \in Nat \ {0} PROVE i \in 1 .. Len(s) <=> i \in 1 .. Len(t)
  <2>1. (\E g \in all : i <= fs[g].at + Len(fs[g].behind)) <=>
           \/ \E g \in rest : i <= gs[g].at + Len(gs[g].behind)
           \/ d # <<>> /\ i <= p + Len(d)
    BY <1>2
  <2> HIDE DEF s, t, p, d
  <2> QED BY <1>4, <1>5, <1>6, <2>1
<1>9. ASSUME NEW i \in 1 .. Len(s) PROVE s[i] = t[i]
  <2>1. i \in 1 .. Len(t) /\ i \in Nat \ {0}
    <3> HIDE DEF s, t
    <3> QED BY <1>7, <1>8
  <2>2. \A g, k \in Handle : i \in Pending(fs[g]) /\ i \in Pending(fs[k]) => g = k
    OBVIOUS
  <2>3. CASE \E g \in rest : i \in Pending(gs[g])
    <3>1. PICK g \in rest : i \in Pending(gs[g])
      BY <2>3
    <3>2. \A k \in rest : i \in Pending(gs[k]) => k = g
      BY <1>2, <2>2, <3>1
    <3>3. g \in all /\ gs[g] = fs[g] /\ \A k \in all : i \in Pending(fs[k]) => k = g
      BY <1>2, <2>2, <3>1
    <3>4. s[i] = gs[g].behind[i - gs[g].at]
      BY <1>5, <3>1, <3>2
    <3>5. t[i] = fs[g].behind[i - fs[g].at]
      BY <1>6, <2>1, <3>1, <3>3
    <3> QED BY <3>3, <3>4, <3>5
  <2>4. CASE ~\E g \in rest : i \in Pending(gs[g])
    <3>1. s[i] = IF i \in 1 .. Len(own) THEN own[i] ELSE 0
      BY <1>5, <2>4
    <3>2. CASE i \in Pending(fs[h])
      <4>1. i \in p + 1 .. p + Len(d)
        BY <1>3, <3>2
      <4>2. d # <<>> /\ h \in all
        <5>1. Len(d) # 0
          <6> HIDE DEF p, d
          <6> QED BY <1>1, <4>1
        <5> QED BY <1>1, <1>2, <5>1
      <4>3. i \in 1 .. Len(own)
        <5>1. i <= p + Len(d)
          <6> HIDE DEF p, d
          <6> QED BY <1>1, <4>1
        <5> QED BY <1>4, <2>1, <4>2, <5>1
      <4>4. t[i] = d[i - p]
        BY <1>2, <1>6, <2>1, <2>2, <3>2, <4>2
      <4>5. own[i] = d[i - p]
        BY <1>4, <4>1, <4>3
      <4> QED BY <3>1, <4>3, <4>4, <4>5
    <3>3. CASE i \notin Pending(fs[h])
      <4>1. \A k \in all : i \notin Pending(fs[k])
        BY <1>2, <2>4, <3>3
      <4>2. t[i] = IF i \in 1 .. Len(bytes) THEN bytes[i] ELSE 0
        BY <1>6, <2>1, <4>1
      <4>3. i \in 1 .. Len(own) => own[i] = IF i \in 1 .. Len(bytes) THEN bytes[i] ELSE 0
        BY <1>3, <1>4, <3>3
      <4>4. i \notin 1 .. Len(own) => i \notin 1 .. Len(bytes)
        BY <1>4, <2>1
      <4> QED BY <3>1, <4>2, <4>3, <4>4
    <3> QED BY <3>2, <3>3
  <2> QED BY <2>3, <2>4
<1>10. s = t
  <2> HIDE DEF s, t
  <2> QED BY <1>5, <1>6, <1>8, <1>9, SameString
<1> QED BY <1>10 DEF own, rest, all

-----------------------------------------------------------------------------
(* A read.                                                                  *)

\* s is n bytes of the file x from position p.
Reads(s, x, p, n) ==
  /\ s \in String /\ Len(s) = n
  /\ \A i \in 1 .. n : s[i] = x[p + i]

\* The same bytes of the same file are the same string.
LEMMA ReadsSame ==
  ASSUME NEW s, NEW t, NEW x, NEW p, NEW n, Reads(s, x, p, n), Reads(t, x, p, n)
  PROVE  s = t
<1> QED BY SeqEqual DEF Reads, String

\* What is left of a string behind its first bytes.
LEMMA TailIs ==
  ASSUME NEW s \in String, NEW k \in Nat
  PROVE  LET n == IF k >= Len(s) THEN 0 ELSE Len(s) - k
         IN  /\ SubSeq(s, k + 1, Len(s)) \in String /\ Len(SubSeq(s, k + 1, Len(s))) = n
             /\ \A i \in 1 .. n : SubSeq(s, k + 1, Len(s))[i] = s[k + i]
<1> DEFINE n == IF k >= Len(s) THEN 0 ELSE Len(s) - k
           l == Len(s)
<1>1. l \in Nat /\ \A i \in 1 .. l : s[i] \in Byte
  BY StringIs
<1> HIDE DEF l
<1>2. \A i \in k + 1 .. l : s[i] \in Byte
  BY <1>1
<1>3. k + 1 \in Int /\ l \in Int
  BY <1>1
<1>4. /\ SubSeq(s, k + 1, l) \in Seq(Byte)
      /\ Len(SubSeq(s, k + 1, l)) = IF k + 1 <= l THEN l - (k + 1) + 1 ELSE 0
      /\ \A i \in 1 .. l - (k + 1) + 1 : SubSeq(s, k + 1, l)[i] = s[k + 1 + i - 1]
  BY <1>2, <1>3, SubSeqProperties
<1>5. Len(SubSeq(s, k + 1, l)) = n
  BY <1>1, <1>4 DEF l
<1>6. ASSUME NEW i \in 1 .. n PROVE SubSeq(s, k + 1, l)[i] = s[k + i]
  <2>1. i \in 1 .. l - (k + 1) + 1 /\ k + 1 + i - 1 = k + i
    BY <1>1 DEF l
  <2> QED BY <1>4, <2>1
<1> QED BY <1>4, <1>5, <1>6 DEF String, l

\* What f has read ahead is what the file x has there.
AheadRight(f, x) ==
  f.ahead # <<>> => f.at <= Len(x) /\ Reads(f.ahead, x, f.at - Len(f.ahead), Len(f.ahead))

\* A slice and a tail, as reads.
LEMMA SliceReads ==
  ASSUME NEW s \in String, NEW p \in Nat, NEW k \in Nat, NEW n,
         n = IF p >= Len(s) THEN 0 ELSE IF p + k <= Len(s) THEN k ELSE Len(s) - p
  PROVE  Reads(F!Slice(s, p, k), s, p, n)
<1> QED BY SliceIs DEF Reads

LEMMA TailReads ==
  ASSUME NEW s \in String, NEW k \in Nat, NEW n, n = IF k >= Len(s) THEN 0 ELSE Len(s) - k
  PROVE  Reads(SubSeq(s, k + 1, Len(s)), s, k, n)
<1> QED BY TailIs DEF Reads

\* Two strings, one behind the other.
LEMMA JoinedIs ==
  ASSUME NEW s \in String, NEW t \in String
  PROVE  /\ s \o t \in String /\ Len(s \o t) = Len(s) + Len(t)
         /\ \A i \in 1 .. Len(s) + Len(t) :
               (s \o t)[i] = IF i <= Len(s) THEN s[i] ELSE t[i - Len(s)]
<1> QED BY ConcatProperties DEF String

\* The three ways a read goes: what it wants was all read ahead; what is left is
\* not less than a buffer; or it is less, and the buffer is refilled.
Left(f, x) == IF f.at >= Len(x) THEN 0 ELSE Len(x) - f.at
Least(a, b) == IF a <= b THEN a ELSE b

FromAhead(v, f, want) ==
  /\ want <= Len(f.ahead)
  /\ Reads(v.data, f.ahead, 0, want)
  /\ Reads(v.ahead, f.ahead, want, Len(f.ahead) - want)
  /\ v.at = f.at

PastBuffer(v, f, x, want, whole) ==
  /\ want - Len(f.ahead) >= FILE_BUF
  /\ Reads(whole, x, f.at, Least(want - Len(f.ahead), Left(f, x)))
  /\ v.data = f.ahead \o whole
  /\ v.ahead = <<>>
  /\ v.at = f.at + Len(whole)

ThroughBuffer(v, f, x, want, fill, last) ==
  /\ want > Len(f.ahead) /\ want - Len(f.ahead) < FILE_BUF
  /\ Reads(fill, x, f.at, Least(FILE_BUF, Left(f, x)))
  /\ Reads(last, fill, 0, Least(want - Len(f.ahead), Len(fill)))
  /\ Reads(v.ahead, fill, want - Len(f.ahead), Len(fill) - Least(want - Len(f.ahead), Len(fill)))
  /\ v.data = f.ahead \o last
  /\ v.at = f.at + Len(fill)

\* A read goes one of those three ways.
LEMMA ServedParts ==
  ASSUME NEW x \in String, NEW fs \in [Handle -> FileType], NEW h \in Handle, NEW want \in Nat,
         Len(fs[h].ahead) < FILE_BUF,
         NEW v, v = Served([disk |-> x, files |-> fs], h, want)
  PROVE  \/ FromAhead(v, fs[h], want)
         \/ \E whole : PastBuffer(v, fs[h], x, want, whole)
         \/ \E fill, last : ThroughBuffer(v, fs[h], x, want, fill, last)
<1>0. PICK f \in FileType : f = fs[h]
  OBVIOUS
<1>1. f.at \in Nat /\ f.ahead \in String /\ Len(f.ahead) < FILE_BUF
  BY <1>0 DEF FileType
<1>2. PICK l \in Nat : l = Len(f.ahead)
  BY <1>1, StringIs
<1>3. Len(x) \in Nat /\ Left(f, x) \in Nat /\ FILE_BUF \in Nat \ {0}
  BY <1>1, StringIs, BufferAssumption DEF Left
<1>4. PICK first : first = F!Slice(f.ahead, 0, want)
  OBVIOUS
<1>5. Reads(first, f.ahead, 0, Least(want, l))
  <2>1. Least(want, l) = IF 0 >= l THEN 0 ELSE IF 0 + want <= l THEN want ELSE l - 0
    BY DEF Least
  <2> QED BY <1>1, <1>2, <1>4, <2>1, SliceReads
<1>6. Len(first) = Least(want, l)
  BY <1>5 DEF Reads
<1>7. PICK rest \in Nat : rest = want - Len(first) /\ rest = IF want <= l THEN 0 ELSE want - l
  BY <1>6 DEF Least
<1>8. PICK whole : whole = F!Slice(x, f.at, rest)
  OBVIOUS
<1>9. PICK fill : fill = F!Slice(x, f.at, FILE_BUF)
  OBVIOUS
<1>10. PICK last : last = F!Slice(fill, 0, rest)
  OBVIOUS
<1>11. PICK tail : tail = SubSeq(fill, rest + 1, Len(fill))
  OBVIOUS
<1>12. v =
        CASE rest = 0 ->
               [data |-> first, at |-> f.at, ahead |-> SubSeq(f.ahead, want + 1, Len(f.ahead))]
          [] rest >= FILE_BUF ->
               [data |-> first \o whole, at |-> f.at + Len(whole), ahead |-> <<>>]
          [] rest \in 1 .. FILE_BUF - 1 ->
               [data |-> first \o last, at |-> f.at + Len(fill), ahead |-> tail]
  BY <1>0, <1>4, <1>7, <1>8, <1>9, <1>10, <1>11 DEF Served, Refilled
<1>13. CASE want <= l
  <2>1. rest = 0
    BY <1>7, <1>13
  <2>2. /\ v.data = first /\ v.at = f.at
        /\ v.ahead = SubSeq(f.ahead, want + 1, Len(f.ahead))
    <3>1. ~(rest >= FILE_BUF) /\ ~(rest \in 1 .. FILE_BUF - 1)
      BY <1>3, <2>1
    <3> QED BY <1>12, <2>1, <3>1
  <2>3. l - want = IF want >= l THEN 0 ELSE l - want
    BY <1>13
  <2>4. Reads(SubSeq(f.ahead, want + 1, Len(f.ahead)), f.ahead, want, l - want)
    BY <1>1, <1>2, <2>3, TailReads
  <2>5. Reads(first, f.ahead, 0, want)
    BY <1>5, <1>13 DEF Least
  <2> QED BY <1>0, <1>2, <1>13, <2>2, <2>4, <2>5 DEF FromAhead
<1>14. CASE want > l
  <2>1. rest = want - l /\ rest > 0
    BY <1>7, <1>14
  <2>2. first = f.ahead
    <3>1. Reads(first, f.ahead, 0, l)
      BY <1>5, <1>14 DEF Least
    <3>2. Reads(f.ahead, f.ahead, 0, l)
      BY <1>1, <1>2 DEF Reads
    <3> QED BY <3>1, <3>2, ReadsSame
  <2>3. CASE rest >= FILE_BUF
    <3>1. ~(rest = 0) /\ ~(rest \in 1 .. FILE_BUF - 1)
      BY <1>3, <2>1, <2>3
    <3>2. /\ v.data = first \o whole /\ v.at = f.at + Len(whole)
          /\ v.ahead = <<>>
      BY <1>12, <2>3, <3>1
    <3>3. Least(rest, Left(f, x)) =
            IF f.at >= Len(x) THEN 0 ELSE IF f.at + rest <= Len(x) THEN rest ELSE Len(x) - f.at
      BY <1>1, <1>3 DEF Least, Left
    <3>4. Reads(whole, x, f.at, Least(rest, Left(f, x)))
      BY <1>1, <1>8, <3>3, SliceReads
    <3> QED BY <1>0, <1>2, <2>1, <2>2, <2>3, <3>2, <3>4 DEF PastBuffer
  <2>4. CASE rest < FILE_BUF
    <3>1. ~(rest = 0) /\ ~(rest >= FILE_BUF) /\ rest \in 1 .. FILE_BUF - 1
      BY <1>3, <2>1, <2>4
    <3>2. /\ v.data = first \o last /\ v.at = f.at + Len(fill)
          /\ v.ahead = tail
      BY <1>12, <3>1
    <3>3. Least(FILE_BUF, Left(f, x)) =
            IF f.at >= Len(x) THEN 0
            ELSE IF f.at + FILE_BUF <= Len(x) THEN FILE_BUF ELSE Len(x) - f.at
      BY <1>1, <1>3 DEF Least, Left
    <3>4. Reads(fill, x, f.at, Least(FILE_BUF, Left(f, x)))
      BY <1>1, <1>3, <1>9, <3>3, SliceReads
    <3>5. fill \in String
      BY <3>4 DEF Reads
    <3>6. Len(fill) \in Nat
      BY <3>5, StringIs
    <3>7. Reads(last, fill, 0, Least(rest, Len(fill)))
      <4>1. Least(rest, Len(fill)) =
              IF 0 >= Len(fill) THEN 0 ELSE IF 0 + rest <= Len(fill) THEN rest ELSE Len(fill) - 0
        BY <3>6 DEF Least
      <4> QED BY <1>10, <3>5, <4>1, SliceReads
    <3>8. Reads(tail, fill, rest, Len(fill) - Least(rest, Len(fill)))
      <4>1. Len(fill) - Least(rest, Len(fill)) = IF rest >= Len(fill) THEN 0 ELSE Len(fill) - rest
        <5>1. PICK z \in Nat : z = Len(fill)
          BY <3>6
        <5>2. rest \in Nat /\ z \in Nat
          BY <1>7, <5>1
        <5>3. CASE rest <= z
          <6>1. Least(rest, z) = rest
            BY <5>3 DEF Least
          <6>2. z - rest = IF rest >= z THEN 0 ELSE z - rest
            BY <5>2, <5>3
          <6> QED BY <5>1, <6>1, <6>2
        <5>4. CASE ~(rest <= z)
          <6>1. Least(rest, z) = z
            BY <5>4 DEF Least
          <6>2. z - z = IF rest >= z THEN 0 ELSE z - rest
            BY <5>2, <5>4
          <6> QED BY <5>1, <6>1, <6>2
        <5> QED BY <5>3, <5>4
      <4> QED BY <1>11, <3>5, <4>1, TailReads
    <3>9. ThroughBuffer(v, fs[h], x, want, fill, last)
      BY <1>0, <1>2, <1>14, <2>1, <2>2, <2>4, <3>2, <3>4, <3>7, <3>8 DEF ThroughBuffer
    <3> QED BY <3>9
  <2> QED BY <1>3, <2>1, <2>3, <2>4
<1> QED BY <1>2, <1>13, <1>14

\* A read answers a string and leaves a buffer that is not full.
LEMMA ServedType ==
  ASSUME NEW x \in String, NEW fs \in [Handle -> FileType], NEW h \in Handle, NEW want \in Nat,
         Len(fs[h].ahead) < FILE_BUF, Len(fs[h].ahead) <= fs[h].at,
         NEW v, v = Served([disk |-> x, files |-> fs], h, want)
  PROVE  /\ v.data \in String /\ v.at \in Nat /\ v.ahead \in String
         /\ Len(v.ahead) < FILE_BUF /\ Len(v.ahead) <= v.at
<1>0. PICK f \in FileType : f = fs[h]
  OBVIOUS
<1>1. f.at \in Nat /\ f.ahead \in String /\ Len(f.ahead) <= f.at /\ Len(f.ahead) < FILE_BUF
  BY <1>0 DEF FileType
<1>2. Len(f.ahead) \in Nat /\ FILE_BUF \in Nat \ {0} /\ Left(f, x) \in Nat
  BY <1>1, StringIs, BufferAssumption DEF Left
<1>3. CASE FromAhead(v, f, want)
  BY <1>1, <1>2, <1>3 DEF FromAhead, Reads
<1>4. ASSUME NEW whole, PastBuffer(v, f, x, want, whole)
      PROVE  /\ v.data \in String /\ v.at \in Nat /\ v.ahead \in String
             /\ Len(v.ahead) < FILE_BUF /\ Len(v.ahead) <= v.at
  <2>1. whole \in String /\ Len(whole) \in Nat
    BY <1>4, StringIs DEF PastBuffer, Reads
  <2>2. <<>> \in String /\ Len(<<>>) = 0
    BY EmptySeq DEF String
  <2>3. v.data \in String
    BY <1>1, <1>4, <2>1, JoinedIs DEF PastBuffer
  <2> QED BY <1>1, <1>2, <1>4, <2>1, <2>2, <2>3 DEF PastBuffer
<1>5. ASSUME NEW fill, NEW last, ThroughBuffer(v, f, x, want, fill, last)
      PROVE  /\ v.data \in String /\ v.at \in Nat /\ v.ahead \in String
             /\ Len(v.ahead) < FILE_BUF /\ Len(v.ahead) <= v.at
  <2>1. fill \in String /\ last \in String /\ v.ahead \in String /\ Len(fill) \in Nat
    BY <1>5, StringIs DEF ThroughBuffer, Reads
  <2>2. v.data \in String
    <3>1. v.data = f.ahead \o last
      BY <1>5 DEF ThroughBuffer
    <3>2. f.ahead \in String /\ last \in String
      BY <1>1, <2>1
    <3> QED BY <3>1, <3>2, JoinedIs
  <2>3. Len(fill) <= FILE_BUF
    BY <1>2, <1>5 DEF ThroughBuffer, Reads, Least
  <2>4. PICK r \in Nat \ {0} : r = want - Len(f.ahead)
    <3>1. want > Len(f.ahead)
      BY <1>5 DEF ThroughBuffer
    <3>2. PICK a \in Nat : a = Len(f.ahead)
      BY <1>2
    <3>3. want - a \in Nat \ {0}
      BY <3>1, <3>2
    <3> QED BY <3>2, <3>3
  <2>5. Len(v.ahead) = Len(fill) - Least(r, Len(fill)) /\ v.at = f.at + Len(fill)
    BY <1>5, <2>4 DEF ThroughBuffer, Reads
  <2>6. Len(v.ahead) < FILE_BUF /\ Len(v.ahead) <= v.at
    <3>1. PICK z \in Nat : z = Len(fill)
      BY <2>1
    <3>2. z - Least(r, z) = IF r <= z THEN z - r ELSE 0
      BY <2>4 DEF Least
    <3>3. PICK y \in Nat : y = z - Least(r, z)
      BY <2>4, <3>2
    <3>4. y < FILE_BUF /\ y <= f.at + z
      <4>1. f.at \in Nat /\ FILE_BUF \in Nat \ {0} /\ r \in Nat \ {0} /\ z <= FILE_BUF
        BY <1>1, <1>2, <2>3, <2>4, <3>1
      <4>2. CASE r <= z
        BY <3>1, <3>2, <3>3, <4>1, <4>2
      <4>3. CASE ~(r <= z)
        BY <3>1, <3>2, <3>3, <4>1, <4>3
      <4> QED BY <4>2, <4>3
    <3> QED BY <2>5, <3>1, <3>3, <3>4
  <2> QED BY <1>1, <2>1, <2>2, <2>5, <2>6
<1> QED BY <1>0, <1>1, <1>3, <1>4, <1>5, ServedParts

\* Reads that follow on each other are one read.
LEMMA JoinReads ==
  ASSUME NEW p \in Nat, NEW a \in Nat, NEW b \in Nat, NEW x, NEW s, NEW t,
         Reads(s, x, p, a), Reads(t, x, p + a, b)
  PROVE  Reads(s \o t, x, p, a + b)
<1>1. /\ s \o t \in String /\ Len(s \o t) = a + b
      /\ \A i \in 1 .. a + b : (s \o t)[i] = IF i <= a THEN s[i] ELSE t[i - a]
  BY JoinedIs DEF Reads
<1>2. ASSUME NEW i \in 1 .. a + b PROVE (s \o t)[i] = x[p + i]
  <2>1. CASE i <= a
    <3>1. i \in 1 .. a
      BY <2>1
    <3> QED BY <1>1, <2>1, <3>1 DEF Reads
  <2>2. CASE ~(i <= a)
    <3>1. i - a \in 1 .. b /\ p + a + (i - a) = p + i
      BY <2>2
    <3> QED BY <1>1, <2>2, <3>1 DEF Reads
  <2> QED BY <2>1, <2>2
<1> QED BY <1>1, <1>2 DEF Reads

\* A read of a read.
LEMMA SubReads ==
  ASSUME NEW p \in Nat, NEW m \in Nat, NEW k \in Nat, NEW n \in Nat, n > 0 => k + n <= m,
         NEW x, NEW s, NEW t, Reads(s, x, p, m), Reads(t, s, k, n)
  PROVE  Reads(t, x, p + k, n)
<1>1. ASSUME NEW i \in 1 .. n PROVE t[i] = x[p + k + i]
  <2>1. k + i \in 1 .. m /\ p + (k + i) = p + k + i
    OBVIOUS
  <2> QED BY <2>1 DEF Reads
<1> QED BY <1>1 DEF Reads

(* A read answers what the file has, wherever it comes from, and the handle *)
(* moves by as much.                                                        *)
LEMMA ServedRight ==
  ASSUME NEW x \in String, NEW fs \in [Handle -> FileType], NEW h \in Handle, NEW want \in Nat,
         Len(fs[h].ahead) < FILE_BUF, Len(fs[h].ahead) <= fs[h].at, AheadRight(fs[h], x),
         NEW v, v = Served([disk |-> x, files |-> fs], h, want)
  PROVE  /\ v.data = F!Slice(x, fs[h].at - Len(fs[h].ahead), want)
         /\ v.at - Len(v.ahead) = fs[h].at - Len(fs[h].ahead) + Len(v.data)
         /\ AheadRight(v, x)
<1>0. PICK f \in FileType : f = fs[h]
  OBVIOUS
<1>1. f.at \in Nat /\ f.ahead \in String /\ FILE_BUF \in Nat \ {0}
  BY <1>0, BufferAssumption DEF FileType
<1>2. PICK l \in Nat : l = Len(f.ahead) /\ l <= f.at /\ (l = 0 <=> f.ahead = <<>>)
  BY <1>0, <1>1, StringIs
<1>3. PICK p \in Nat : p = f.at - l
  BY <1>1, <1>2
<1>4. PICK z \in Nat : z = Len(x)
  BY StringIs
<1>5. Reads(f.ahead, x, p, l) /\ (l > 0 => f.at <= z)
  <2>1. CASE l > 0
    BY <1>0, <1>1, <1>2, <1>3, <1>4, <2>1 DEF AheadRight
  <2>2. CASE l = 0
    BY <1>1, <1>2, <2>2 DEF Reads
  <2> QED BY <1>2, <2>1, <2>2
<1>6. PICK n \in Nat : n = IF p >= z THEN 0 ELSE IF p + want <= z THEN want ELSE z - p
  BY <1>3, <1>4
<1>7. Reads(F!Slice(x, p, want), x, p, n)
  BY <1>3, <1>4, <1>6, SliceReads
<1>8. SUFFICES /\ Reads(v.data, x, p, n)
               /\ v.at - Len(v.ahead) = p + n
               /\ AheadRight(v, x)
  <2>1. v.data = F!Slice(x, p, want)
    BY <1>7, <1>8, ReadsSame
  <2>2. Len(v.data) = n
    BY <1>8 DEF Reads
  <2> QED BY <1>0, <1>2, <1>3, <1>8, <2>1, <2>2
<1>t. p \in Nat /\ l \in Nat /\ n \in Nat /\ z \in Nat /\ f.at \in Nat /\ f.at = p + l
  BY <1>1, <1>2, <1>3, <1>4, <1>6
<1>9. PICK room \in Nat : room = Left(f, x) /\ room = IF f.at >= z THEN 0 ELSE z - f.at
  BY <1>1, <1>4 DEF Left
<1>10. CASE FromAhead(v, f, want)
  <2>1. /\ want <= l /\ v.at = f.at
        /\ Reads(v.data, f.ahead, 0, want) /\ Reads(v.ahead, f.ahead, want, l - want)
    BY <1>2, <1>10 DEF FromAhead
  <2>2. n = want
    BY <1>1, <1>2, <1>3, <1>4, <1>5, <1>6, <2>1
  <2>3. l - want \in Nat
    BY <1>2, <2>1
  <2>4. Reads(v.data, x, p + 0, want) /\ Reads(v.ahead, x, p + want, l - want)
    <3>1. want > 0 => 0 + want <= l
      BY <2>1
    <3>2. l - want > 0 => want + (l - want) <= l
      BY <1>2
    <3> QED BY <1>2, <1>3, <1>5, <2>1, <2>3, <3>1, <3>2, SubReads
  <2>5. Len(v.ahead) = l - want /\ v.at - (l - want) = p + want /\ p + 0 = p
    BY <1>1, <1>2, <1>3, <2>1 DEF Reads
  <2>6. AheadRight(v, x)
    <3> SUFFICES ASSUME v.ahead # <<>>
                 PROVE  v.at <= Len(x) /\ Reads(v.ahead, x, v.at - Len(v.ahead), Len(v.ahead))
      BY DEF AheadRight
    <3>1. l > 0
      <4>1. v.ahead \in String /\ Len(v.ahead) # 0
        BY <2>4, StringIs DEF Reads
      <4> QED BY <1>2, <2>1, <2>5, <4>1
    <3> QED BY <1>4, <1>5, <2>1, <2>4, <2>5, <3>1
  <2> QED BY <2>2, <2>4, <2>5, <2>6
<1>11. ASSUME want > l
       PROVE  n = l + Least(want - l, room)
  <2>1. CASE want - l <= room
    <3>1. Least(want - l, room) = want - l
      BY <2>1 DEF Least
    <3>2. room = z - f.at /\ room > 0 /\ f.at = p + l
      BY <1>t, <1>9, <1>11, <2>1
    <3>3. p + want <= z /\ ~(p >= z)
      BY <1>t, <1>11, <2>1, <3>2
    <3>4. n = want
      BY <1>6, <3>3
    <3> QED BY <1>2, <3>1, <3>4
  <2>2. CASE ~(want - l <= room)
    <3>1. Least(want - l, room) = room
      BY <2>2 DEF Least
    <3>2. n = l + room
      <4>1. CASE f.at >= z
        <5>1. room = 0
          BY <1>9, <4>1
        <5>2. n = l
          BY <1>1, <1>2, <1>3, <1>4, <1>5, <1>6, <1>11, <4>1
        <5> QED BY <1>2, <5>1, <5>2
      <4>2. CASE f.at < z
        <5>1. room = z - f.at
          BY <1>1, <1>4, <1>9, <4>2
        <5>2. n = z - p
          <6>1. ~(p >= z) /\ ~(p + want <= z)
            BY <1>t, <1>11, <2>2, <4>2, <5>1
          <6> QED BY <1>6, <6>1
        <5> QED BY <1>t, <5>1, <5>2
      <4> QED BY <1>1, <1>4, <4>1, <4>2
    <3> QED BY <3>1, <3>2
  <2> QED BY <2>1, <2>2
<1>12. ASSUME NEW whole, PastBuffer(v, f, x, want, whole)
       PROVE  Reads(v.data, x, p, n) /\ v.at - Len(v.ahead) = p + n /\ AheadRight(v, x)
  <2>1. /\ want - l >= FILE_BUF /\ v.ahead = <<>> /\ v.at = f.at + Len(whole)
        /\ v.data = f.ahead \o whole
        /\ Reads(whole, x, f.at, Least(want - l, room))
    BY <1>2, <1>9, <1>12 DEF PastBuffer
  <2>2. want > l /\ want - l \in Nat
    BY <1>1, <1>2, <2>1
  <2>3. PICK k \in Nat : k = Least(want - l, room)
    BY <1>9, <2>2 DEF Least
  <2>4. n = l + k /\ Len(whole) = k /\ p + l = f.at
    <3>1. n = l + k
      BY <1>11, <2>2, <2>3
    <3>2. Len(whole) = k
      BY <2>1, <2>3 DEF Reads
    <3> QED BY <1>t, <3>1, <3>2
  <2>5. Reads(v.data, x, p, n)
    <3>1. Reads(whole, x, p + l, k)
      BY <2>1, <2>3, <2>4
    <3>2. Reads(f.ahead \o whole, x, p, l + k)
      BY <1>2, <1>3, <1>5, <2>3, <3>1, JoinReads
    <3> QED BY <2>1, <2>4, <3>2
  <2>6. Len(v.ahead) = 0
    BY <2>1
  <2>7. v.at - 0 = p + n
    <3>1. v.at = f.at + k
      BY <2>1, <2>4
    <3> QED BY <1>t, <2>3, <2>4, <3>1
  <2> QED BY <2>1, <2>5, <2>6, <2>7 DEF AheadRight
<1>13. ASSUME NEW fill, NEW last, ThroughBuffer(v, f, x, want, fill, last)
       PROVE  Reads(v.data, x, p, n) /\ v.at - Len(v.ahead) = p + n /\ AheadRight(v, x)
  <2>1. PICK m \in Nat : m = Least(FILE_BUF, room)
    BY <1>1, <1>9 DEF Least
  <2>2. /\ want > l /\ want - l < FILE_BUF /\ v.at = f.at + m
        /\ v.data = f.ahead \o last
        /\ Reads(fill, x, f.at, m)
        /\ Reads(last, fill, 0, Least(want - l, m))
        /\ Reads(v.ahead, fill, want - l, m - Least(want - l, m))
    <3>1. Reads(fill, x, f.at, m) /\ Len(fill) = m
      BY <1>2, <1>9, <1>13, <2>1 DEF ThroughBuffer, Reads
    <3> QED BY <1>2, <1>13, <3>1 DEF ThroughBuffer
  <2>3. PICK r \in Nat : r = want - l /\ r > 0 /\ r < FILE_BUF
    BY <1>2, <2>2
  <2>4. PICK k \in Nat : k = Least(r, m) /\ k <= r /\ k <= m /\ (m > k => k = r)
    <3>1. CASE r <= m
      <4>1. Least(r, m) = r
        BY <3>1 DEF Least
      <4> QED BY <2>1, <2>3, <3>1, <4>1
    <3>2. CASE ~(r <= m)
      <4>1. Least(r, m) = m
        BY <3>2 DEF Least
      <4> QED BY <2>1, <2>3, <3>2, <4>1
    <3> QED BY <3>1, <3>2
  <2>5. k = Least(want - l, room)
    <3>1. CASE r <= room
      <4>1. r <= m
        BY <1>1, <1>9, <2>1, <2>3, <3>1 DEF Least
      <4> QED BY <2>3, <2>4, <3>1, <4>1 DEF Least
    <3>2. CASE ~(r <= room)
      <4>1. m = room /\ ~(r <= m)
        BY <1>1, <1>9, <2>1, <2>3, <3>2 DEF Least
      <4> QED BY <2>3, <2>4, <3>2, <4>1 DEF Least
    <3> QED BY <3>1, <3>2
  <2>6. n = l + k /\ p + l = f.at
    <3>1. n = l + k
      BY <1>11, <2>2, <2>5
    <3> QED BY <1>t, <3>1
  <2>7. Reads(last, x, f.at + 0, k)
    <3>1. Reads(last, fill, 0, k) /\ (k > 0 => 0 + k <= m)
      BY <2>2, <2>3, <2>4
    <3> QED BY <1>1, <2>1, <2>2, <2>4, <3>1, SubReads
  <2>8. Reads(v.data, x, p, n)
    <3>1. f.at + 0 = p + l
      BY <1>1, <2>6
    <3>2. Reads(last, x, p + l, k)
      BY <2>7, <3>1
    <3>3. Reads(f.ahead \o last, x, p, l + k)
      BY <1>2, <1>3, <1>5, <2>4, <3>2, JoinReads
    <3> QED BY <2>2, <2>6, <3>3
  <2>9. PICK j \in Nat : j = m - k
    BY <2>1, <2>4
  <2>10. Reads(v.ahead, fill, r, j)
    BY <2>2, <2>3, <2>4, <2>9
  <2>11. Len(v.ahead) = j /\ v.at - j = p + n
    <3>1. Len(v.ahead) = j
      BY <2>10 DEF Reads
    <3>2. v.at - j = f.at + k
      BY <1>1, <2>1, <2>2, <2>4, <2>9
    <3>3. p + n = f.at + k
      BY <1>t, <2>4, <2>6
    <3> QED BY <3>1, <3>2, <3>3
  <2>12. AheadRight(v, x)
    <3> SUFFICES ASSUME v.ahead # <<>>
                 PROVE  v.at <= Len(x) /\ Reads(v.ahead, x, v.at - Len(v.ahead), Len(v.ahead))
      BY DEF AheadRight
    <3>1. j # 0
      <4>1. v.ahead \in String
        BY <2>10 DEF Reads
      <4> QED BY <2>11, <4>1, StringIs
    <3>2. k = r /\ r + j <= m
      BY <2>1, <2>3, <2>4, <2>9, <3>1
    <3>3. Reads(v.ahead, x, f.at + r, j)
      BY <1>1, <2>1, <2>2, <2>3, <2>9, <2>10, <3>2, SubReads
    <3>4. v.at - j = f.at + r
      BY <1>1, <1>2, <1>3, <2>3, <2>6, <2>11, <3>2
    <3>5. m <= room
      BY <1>9, <2>1 DEF Least
    <3>6. v.at <= z
      <4>1. m > 0 /\ room > 0
        BY <1>9, <2>1, <2>3, <2>9, <3>1, <3>2, <3>5
      <4>2. room = z - f.at
        BY <1>9, <4>1
      <4>3. v.at = f.at + m
        BY <2>2
      <4> QED BY <1>1, <1>4, <2>1, <3>5, <4>2, <4>3
    <3> QED BY <1>4, <2>11, <3>3, <3>4, <3>6
  <2> QED BY <2>8, <2>11, <2>12
<1> QED BY <1>0, <1>10, <1>12, <1>13, ServedParts

-----------------------------------------------------------------------------
(* The invariant of every behaviour.                                        *)

\* A handle as it may be between calls.
Sound(f) ==
  /\ f.ahead = <<>> \/ f.behind = <<>>
  /\ Len(f.ahead) < FILE_BUF /\ Len(f.behind) <= FILE_BUF
  /\ ~f.open => f = Closed
  /\ Len(f.ahead) <= f.at

SoundState(s) ==
  /\ s \in [disk : String, files : [Handle -> FileType]]
  /\ \A h \in Handle : Sound(s.files[h])

FileInv == SoundState(State) /\ calm \in BOOLEAN

\* The empty string, and a buffer that holds at least a byte.
LEMMA NoString == <<>> \in String /\ Len(<<>>) = 0 /\ FILE_BUF \in Nat \ {0}
<1> QED BY EmptySeq, BufferAssumption DEF String

\* A handle not open, and one just opened.
LEMMA ClosedSound ==
  /\ Closed \in FileType /\ Fresh \in FileType /\ Sound(Closed) /\ Sound(Fresh)
  /\ Closed.open = FALSE /\ Closed.ahead = <<>> /\ Closed.behind = <<>>
<1> QED BY NoString DEF Closed, Fresh, FileType, Sound

\* An overlay is a string, the empty one too.
LEMMA OverlaidType ==
  ASSUME NEW s \in String, NEW p \in Nat, NEW d \in String
  PROVE  F!Overlaid(s, p, d) \in String
<1>1. CASE d = <<>>
  BY <1>1 DEF F!Overlaid
<1>2. CASE d # <<>>
  BY <1>2, OverlaidIs
<1> QED BY <1>1, <1>2

\* The handle after a flush, whether the host took the bytes or not.
LEMMA EmptiedIs ==
  ASSUME NEW f \in FileType, NEW h, NEW bad
  PROVE  /\ Emptied(f, h, bad) \in FileType
         /\ Emptied(f, h, bad).behind = <<>> /\ Emptied(f, h, bad).ahead = f.ahead
         /\ Emptied(f, h, bad).open = f.open
         /\ f.behind = <<>> => Emptied(f, h, bad) = f
         /\ h \notin bad => Emptied(f, h, bad).at = f.at + Len(f.behind)
         /\ Emptied(f, h, bad).at >= f.at
         /\ Sound(f) => Sound(Emptied(f, h, bad))
<1>1. /\ f.at \in Nat /\ f.behind \in String /\ f.ahead \in String /\ Len(f.behind) \in Nat
      /\ Len(f.ahead) \in Nat
  BY StringIs DEF FileType
<1>2. CASE f.behind = <<>>
  <2>1. Emptied(f, h, bad) = f
    BY <1>2 DEF Emptied
  <2>2. Len(f.behind) = 0
    BY <1>1, <1>2, StringIs
  <2> QED BY <1>1, <1>2, <2>1, <2>2
<1>3. CASE f.behind # <<>>
  <2> DEFINE e == Emptied(f, h, bad)
  <2>1. e = [f EXCEPT !.at = IF h \in bad THEN @ ELSE @ + Len(f.behind), !.behind = <<>>]
    BY <1>3 DEF Emptied
  <2>2. /\ e \in FileType /\ e.behind = <<>> /\ e.ahead = f.ahead /\ e.open = f.open
        /\ e.at = IF h \in bad THEN f.at ELSE f.at + Len(f.behind)
    <3>1. (IF h \in bad THEN f.at ELSE f.at + Len(f.behind)) \in Nat
      BY <1>1
    <3> QED BY <1>1, <2>1, <3>1, NoString DEF FileType
  <2> HIDE DEF e
  <2>3. h \notin bad => e.at = f.at + Len(f.behind)
    BY <2>2
  <2>4. e.at >= f.at /\ e.at \in Nat
    BY <1>1, <2>2
  <2>5. Sound(f) => Sound(e)
    <3> SUFFICES ASSUME Sound(f) PROVE Sound(e)
      OBVIOUS
    <3>1. f.open
      BY <1>3, ClosedSound DEF Sound, FileType
    <3> QED BY <1>1, <1>3, <2>2, <2>4, <3>1, NoString DEF Sound
  <2> QED BY <1>3, <2>2, <2>3, <2>4, <2>5 DEF e
<1> QED BY <1>2, <1>3

\* A flush keeps the invariant, for one handle and for many.
LEMMA FlushedSound ==
  ASSUME NEW s, SoundState(s), NEW h \in Handle, NEW bad
  PROVE  SoundState(Flushed(s, h, bad))
<1>1. s.files[h] \in FileType /\ s.files[h].at \in Nat /\ s.files[h].behind \in String
  BY DEF SoundState, FileType
<1>2. Landed(s.disk, s.files[h], h, bad) \in String
  BY <1>1, OverlaidType DEF Landed, SoundState
<1>3. Emptied(s.files[h], h, bad) \in FileType /\ Sound(Emptied(s.files[h], h, bad))
  BY <1>1, EmptiedIs DEF SoundState
<1> QED BY <1>2, <1>3 DEF Flushed, SoundState

LEMMA FlushedInSound ==
  ASSUME NEW s, SoundState(s), NEW which \in SUBSET Handle, NEW bad
  PROVE  SoundState(FlushedIn(s, which, bad))
<1>1. \A g \in Handle : s.files[g] \in FileType /\ Sound(s.files[g])
  BY DEF SoundState
<1>2. \A g \in Handle : Emptied(s.files[g], g, bad) \in FileType /\ Sound(Emptied(s.files[g], g, bad))
  BY <1>1, EmptiedIs
<1>3. Dirty(s.files, which) \ bad \in SUBSET Handle
  BY DEF Dirty
<1>4. AllLanded(s.disk, s.files, Dirty(s.files, which) \ bad) \in String
  BY <1>3, AllLandedIs DEF SoundState
<1> QED BY <1>1, <1>2, <1>4 DEF FlushedIn, SoundState

\* What a state with one handle changed has to keep.
LEMMA ChangedSound ==
  ASSUME NEW s, SoundState(s), NEW h \in Handle, NEW x \in String,
         NEW f \in FileType, Sound(f), NEW t,
         t = [disk |-> x, files |-> [s.files EXCEPT ![h] = f]]
  PROVE  SoundState(t)
<1> QED BY DEF SoundState

\* So does giving back what was read ahead.
LEMMA UnreadSound ==
  ASSUME NEW s, SoundState(s), NEW h \in Handle
  PROVE  /\ SoundState(Unread(s, h))
         /\ Unread(s, h).disk = s.disk
         /\ Unread(s, h).files = [s.files EXCEPT ![h].at = @ - Len(s.files[h].ahead),
                                                 ![h].ahead = <<>>]
<1> DEFINE f == s.files[h]
           g == [f EXCEPT !.at = @ - Len(f.ahead), !.ahead = <<>>]
<1>1. f \in FileType /\ Sound(f) /\ f.at \in Nat /\ f.ahead \in String
  BY DEF SoundState, FileType
<1>2. Len(f.ahead) \in Nat /\ Len(f.ahead) <= f.at
  BY <1>1, StringIs DEF Sound
<1>3. f.at - Len(f.ahead) \in Nat
  BY <1>1, <1>2
<1>4. g \in FileType
  BY <1>1, <1>3, NoString DEF FileType
<1>5. g.at = f.at - Len(f.ahead) /\ g.ahead = <<>> /\ g.behind = f.behind /\ g.open = f.open
  BY <1>1 DEF FileType
<1>6. ~f.open => g = f
  <2> SUFFICES ASSUME ~f.open PROVE g = f
    OBVIOUS
  <2>1. f = Closed
    BY <1>1 DEF Sound
  <2>2. f.at - Len(f.ahead) = f.at /\ f.ahead = <<>>
    BY <2>1, NoString DEF Closed
  <2>3. g = [f EXCEPT !.at = f.at, !.ahead = f.ahead]
    BY <2>2
  <2> QED BY <1>1, <2>3 DEF FileType
<1>7. Sound(g)
  BY <1>1, <1>3, <1>5, <1>6, NoString DEF Sound
<1> HIDE DEF f
<1>8. Unread(s, h) = [disk |-> s.disk, files |-> [s.files EXCEPT ![h] = g]]
  <2>1. PICK x \in String, y \in [Handle -> FileType] : s = [disk |-> x, files |-> y]
    BY DEF SoundState
  <2>2. Unread(s, h) = [s EXCEPT !.files = [y EXCEPT ![h] = g]]
    BY <2>1 DEF Unread, f
  <2> HIDE DEF g
  <2> QED BY <2>1, <2>2
<1> HIDE DEF g
<1>9. SoundState(Unread(s, h))
  <2>1. s.disk \in String
    BY DEF SoundState
  <2> QED BY <1>4, <1>7, <1>8, <2>1, ChangedSound
<1>10. [s.files EXCEPT ![h] = g] =
         [s.files EXCEPT ![h].at = @ - Len(s.files[h].ahead), ![h].ahead = <<>>]
  BY DEF g, f, SoundState
<1> QED BY <1>8, <1>9, <1>10

\* A call that ends in a sound state keeps the invariant.
LEMMA BecomeKeeps ==
  ASSUME FileInv, NEW s, SoundState(s), NEW answer, Become(s, answer)
  PROVE  FileInv'
<1> QED BY DEF FileInv, Become, SoundState, State

\* The invariant, conjunct by conjunct.
LEMMA StateFacts ==
  ASSUME FileInv
  PROVE  /\ SoundState(State) /\ State.disk = disk /\ State.files = files
         /\ disk \in String /\ files \in [Handle -> FileType]
         /\ \A h \in Handle : files[h] \in FileType /\ Sound(files[h])
<1> QED BY DEF FileInv, SoundState, State

\* A record with both its fields replaced.
LEMMA BothChanged ==
  ASSUME NEW x, NEW y, NEW z, NEW w, NEW s, s = [disk |-> x, files |-> y]
  PROVE  [s EXCEPT !.disk = z, !.files = w] = [disk |-> z, files |-> w]
<1>1. PICK e : e = [disk |-> z, files |-> y]
  OBVIOUS
<1>2. [s EXCEPT !.disk = z] = e
  BY <1>1
<1>3. [e EXCEPT !.files = w] = [disk |-> z, files |-> w]
  BY <1>1
<1>4. [s EXCEPT !.disk = z, !.files = w] = [[s EXCEPT !.disk = z] EXCEPT !.files = w]
  OBVIOUS
<1> QED BY <1>2, <1>3, <1>4

\* Each call keeps the invariant.  fs_open: every dirty handle is flushed first.
LEMMA OpenKeeps ==
  ASSUME FileInv, NEW h \in Handle, NEW create \in BOOLEAN, Open(h, create)
  PROVE  FileInv'
<1>1. PICK bad \in Bad :
        LET s == FlushedIn(State, Handle, bad)
            t == [s EXCEPT !.disk = IF create THEN <<>> ELSE @, !.files[h] = Fresh]
        IN  Become(t, Answer("open", h, <<>>))
  BY DEF Open
<1>2. PICK s : s = FlushedIn(State, Handle, bad)
  OBVIOUS
<1>3. SoundState(s)
  BY <1>2, StateFacts, FlushedInSound
<1>4. PICK x \in String, y \in [Handle -> FileType] : s = [disk |-> x, files |-> y]
  BY <1>3 DEF SoundState
<1>0. PICK z \in String : z = IF create THEN <<>> ELSE x
  BY NoString
<1>5. PICK t : t = [disk |-> z, files |-> [s.files EXCEPT ![h] = Fresh]]
  OBVIOUS
<1>6. Become(t, Answer("open", h, <<>>))
  <2>1. [s EXCEPT !.disk = IF create THEN <<>> ELSE @, !.files[h] = Fresh]
          = [s EXCEPT !.disk = z, !.files = [y EXCEPT ![h] = Fresh]]
    BY <1>0, <1>4
  <2>2. [s EXCEPT !.disk = IF create THEN <<>> ELSE @, !.files[h] = Fresh] = t
    <3>1. s.files = y
      BY <1>4
    <3>2. PICK w : w = [y EXCEPT ![h] = Fresh]
      OBVIOUS
    <3>3. [s EXCEPT !.disk = z, !.files = w] = [disk |-> z, files |-> w]
      BY <1>4, BothChanged
    <3>4. [disk |-> z, files |-> w] = t
      BY <1>5, <3>1, <3>2
    <3>5. [s EXCEPT !.disk = IF create THEN <<>> ELSE @, !.files[h] = Fresh]
            = [s EXCEPT !.disk = z, !.files = w]
      BY <2>1, <3>2
    <3> QED BY <3>3, <3>4, <3>5
  <2>3. Become([s EXCEPT !.disk = IF create THEN <<>> ELSE @, !.files[h] = Fresh],
               Answer("open", h, <<>>))
    BY <1>1, <1>2
  <2> QED BY <2>2, <2>3
<1>7. SoundState(t)
  BY <1>3, <1>5, ClosedSound, ChangedSound
<1> QED BY <1>6, <1>7, BecomeKeeps

\* fs_close: the handle is gone, flushed or not.
LEMMA CloseKeeps ==
  ASSUME FileInv, NEW h \in Handle, Close(h)
  PROVE  FileInv'
<1>1. PICK bad \in Bad : \E answer :
        Become([Flushed(State, h, bad) EXCEPT !.files[h] = Closed], answer)
  BY DEF Close
<1>2. PICK s : s = Flushed(State, h, bad)
  OBVIOUS
<1>3. SoundState(s)
  BY <1>2, StateFacts, FlushedSound
<1>4. PICK x \in String, y \in [Handle -> FileType] : s = [disk |-> x, files |-> y]
  BY <1>3 DEF SoundState
<1>5. PICK t : t = [disk |-> x, files |-> [s.files EXCEPT ![h] = Closed]]
  OBVIOUS
<1>6. PICK answer : Become(t, answer)
  <2>1. [s EXCEPT !.files[h] = Closed] = t
    BY <1>4, <1>5
  <2>2. \E answer : Become([s EXCEPT !.files[h] = Closed], answer)
    BY <1>1, <1>2
  <2> QED BY <2>1, <2>2
<1>7. SoundState(t)
  BY <1>3, <1>4, <1>5, ClosedSound, ChangedSound
<1> QED BY <1>6, <1>7, BecomeKeeps

\* fs_close_all.
LEMMA CloseAllKeeps ==
  ASSUME FileInv, CloseAll
  PROVE  FileInv'
<1>1. PICK bad \in Bad :
        Become([FlushedIn(State, Handle, bad) EXCEPT !.files = [h \in Handle |-> Closed]],
               Answer("exit", 0, <<>>))
  BY DEF CloseAll
<1>2. PICK s : s = FlushedIn(State, Handle, bad)
  OBVIOUS
<1>3. SoundState(s)
  BY <1>2, StateFacts, FlushedInSound
<1>4. PICK x \in String, y \in [Handle -> FileType] : s = [disk |-> x, files |-> y]
  BY <1>3 DEF SoundState
<1>5. PICK t : t = [disk |-> x, files |-> [h \in Handle |-> Closed]]
  OBVIOUS
<1>6. Become(t, Answer("exit", 0, <<>>))
  BY <1>1, <1>2, <1>4, <1>5
<1>7. SoundState(t)
  BY <1>5, ClosedSound DEF SoundState
<1> QED BY <1>6, <1>7, BecomeKeeps

\* fs_read: served, or failed at one of its flushes or at a ReadFile.
LEMMA ReadKeeps ==
  ASSUME FileInv, NEW h \in Handle, NEW want \in Wants, Read(h, want)
  PROVE  FileInv'
<1>1. PICK bad \in Bad :
       LET own    == Flushed(State, h, bad)
           s      == FlushedAliases(own, h, bad)
           served == Served(s, h, want)
       IN
       \/ \E answer : Become(own, answer)
       \/ \E answer : Become(s, answer)
       \/ \E answer : Become([s EXCEPT !.files[h].at = served.at,
                                       !.files[h].ahead = served.ahead], answer)
       \/ \E answer : \E at \in {s.files[h].at} \cup
                         (IF Len(served.data) < want THEN {served.at} ELSE {}) :
               Become([s EXCEPT !.files[h].at = at, !.files[h].ahead = <<>>], answer)
  BY DEF Read
<1>2. PICK own : own = Flushed(State, h, bad)
  OBVIOUS
<1>3. SoundState(own)
  BY <1>2, StateFacts, FlushedSound
<1>4. PICK s : s = FlushedAliases(own, h, bad)
  OBVIOUS
<1>5. SoundState(s)
  <2>1. Handle \ {h} \in SUBSET Handle
    OBVIOUS
  <2> QED BY <1>3, <1>4, <2>1, FlushedInSound DEF FlushedAliases
<1>6. PICK x \in String, y \in [Handle -> FileType] : s = [disk |-> x, files |-> y]
  BY <1>5 DEF SoundState
<1>7. PICK served : served = Served(s, h, want)
  OBVIOUS
<1>8. /\ y[h].open \in BOOLEAN /\ y[h].at \in Nat /\ y[h].ahead \in String
      /\ y[h].behind \in String /\ y[h] \in FileType /\ Sound(y[h])
  BY <1>5, <1>6 DEF SoundState, FileType
<1>9. y[h].open /\ y[h].behind = <<>>
  <2>1. files[h].open /\ files[h] \in FileType
    BY StateFacts DEF Read
  <2>2. own.files[h] = Emptied(files[h], h, bad)
    BY <1>2, StateFacts DEF Flushed
  <2>3. own.files[h].open /\ own.files[h].behind = <<>>
    BY <2>1, <2>2, EmptiedIs
  <2>4. s.files[h] = own.files[h]
    BY <1>4 DEF FlushedAliases, FlushedIn
  <2> QED BY <1>6, <2>3, <2>4
<1>10. /\ served.data \in String /\ served.at \in Nat /\ served.ahead \in String
       /\ Len(served.ahead) < FILE_BUF /\ Len(served.ahead) <= served.at
  <2>1. Len(y[h].ahead) < FILE_BUF /\ Len(y[h].ahead) <= y[h].at
    BY <1>8 DEF Sound
  <2> QED BY <1>6, <1>7, <2>1, CallsAssumption, ServedType
\* What a read leaves of the handle.
<1>11. ASSUME NEW at \in Nat, NEW ahead \in String, Len(ahead) < FILE_BUF, Len(ahead) <= at
       PROVE  SoundState([s EXCEPT !.files[h].at = at, !.files[h].ahead = ahead])
  <2>1. PICK f : f = [y[h] EXCEPT !.at = at, !.ahead = ahead]
    OBVIOUS
  <2>2. /\ f \in FileType /\ f.ahead = ahead /\ f.at = at /\ f.behind = <<>> /\ f.open
    BY <1>8, <1>9, <2>1 DEF FileType
  <2>3. Sound(f)
    BY <1>11, <2>2, NoString DEF Sound
  <2>4. PICK t : t = [disk |-> x, files |-> [s.files EXCEPT ![h] = f]]
    OBVIOUS
  <2>5. [s EXCEPT !.files[h].at = at, !.files[h].ahead = ahead] = t
    <3>1. [s EXCEPT !.files[h].at = at, !.files[h].ahead = ahead]
            = [s EXCEPT !.files = [y EXCEPT ![h] = f]]
      BY <1>6, <2>1
    <3> QED BY <1>6, <2>4, <3>1
  <2>6. SoundState(t)
    BY <1>5, <2>2, <2>3, <2>4, ChangedSound
  <2> QED BY <2>5, <2>6
<1>12. CASE \E answer : Become(own, answer)
  BY <1>3, <1>12, BecomeKeeps
<1>13. CASE \E answer : Become(s, answer)
  BY <1>5, <1>13, BecomeKeeps
<1>14. CASE \E answer : Become([s EXCEPT !.files[h].at = served.at,
                                         !.files[h].ahead = served.ahead], answer)
  BY <1>10, <1>11, <1>14, BecomeKeeps
<1>15. ASSUME NEW answer, NEW at \in {s.files[h].at} \cup
                         (IF Len(served.data) < want THEN {served.at} ELSE {}),
              Become([s EXCEPT !.files[h].at = at, !.files[h].ahead = <<>>], answer)
       PROVE  FileInv'
  <2>1. at \in Nat
    BY <1>6, <1>8, <1>10
  <2>2. SoundState([s EXCEPT !.files[h].at = at, !.files[h].ahead = <<>>])
    <3>1. PICK none \in String : none = <<>> /\ Len(none) = 0
      BY NoString
    <3>2. Len(none) < FILE_BUF /\ Len(none) <= at
      BY <2>1, <3>1, NoString
    <3>3. SoundState([s EXCEPT !.files[h].at = at, !.files[h].ahead = none])
      BY <1>11, <2>1, <3>2
    <3> QED BY <3>1, <3>3
  <2> QED BY <1>15, <2>2, BecomeKeeps
<1>16. (\E answer : \E at \in {s.files[h].at} \cup
                         (IF Len(served.data) < want THEN {served.at} ELSE {}) :
               Become([s EXCEPT !.files[h].at = at, !.files[h].ahead = <<>>], answer)) => FileInv'
  BY <1>15
<1> QED BY <1>1, <1>2, <1>4, <1>7, <1>12, <1>13, <1>14, <1>16

\* fs_write: into the buffer when there is room, past it otherwise.
LEMMA WriteKeeps ==
  ASSUME FileInv, NEW h \in Handle, NEW d \in Data, Write(h, d)
  PROVE  FileInv'
<1>1. PICK bad \in Bad :
       LET u       == Unread(State, h)
           spills  == Len(u.files[h].behind) + Len(d) > FILE_BUF
           s       == IF spills THEN Flushed(u, h, bad) ELSE u
       IN
       \/ \E answer : Become(u, answer)
       \/ \E answer : Become(s, answer)
       \/ /\ Len(d) < FILE_BUF
          /\ \E answer : Become([s EXCEPT !.files[h].behind = @ \o d], answer)
       \/ \E answer : Become([s EXCEPT !.disk = F!Overlaid(s.disk, s.files[h].at, d),
                                       !.files[h].at = @ + Len(d)], answer)
  BY DEF Write
<1>2. PICK u : u = Unread(State, h)
  OBVIOUS
<1>3. /\ SoundState(u)
      /\ u.files = [files EXCEPT ![h].at = @ - Len(files[h].ahead), ![h].ahead = <<>>]
  BY <1>2, StateFacts, UnreadSound
<1>4. PICK s : s = IF Len(u.files[h].behind) + Len(d) > FILE_BUF THEN Flushed(u, h, bad) ELSE u
  OBVIOUS
<1>5. SoundState(s)
  BY <1>3, <1>4, FlushedSound
<1>6. PICK x \in String, y \in [Handle -> FileType] : s = [disk |-> x, files |-> y]
  BY <1>5 DEF SoundState
<1>7. /\ y[h].open \in BOOLEAN /\ y[h].at \in Nat /\ y[h].ahead \in String
      /\ y[h].behind \in String /\ y[h] \in FileType /\ Sound(y[h])
      /\ Len(y[h].behind) \in Nat
  BY <1>5, <1>6, StringIs DEF SoundState, FileType
<1>8. d \in String /\ Len(d) \in Nat
  BY CallsAssumption, StringIs DEF String
<1>9. /\ y[h].open /\ y[h].ahead = <<>>
      /\ Len(y[h].behind) + Len(d) <= FILE_BUF \/ y[h].behind = <<>>
  <2>1. files[h] \in FileType /\ files[h].open
    BY StateFacts DEF Write
  <2>2. u.files[h] \in FileType /\ u.files[h].open /\ u.files[h].ahead = <<>>
    <3>1. u.files[h] = [[files[h] EXCEPT !.at = files[h].at - Len(files[h].ahead)] EXCEPT !.ahead = <<>>]
      BY <1>3, StateFacts
    <3>2. u.files[h].open = files[h].open /\ u.files[h].ahead = <<>>
      BY <2>1, <3>1 DEF FileType
    <3> QED BY <1>3, <2>1, <3>2 DEF SoundState
  <2>3. CASE Len(u.files[h].behind) + Len(d) > FILE_BUF
    <3>1. s.files[h] = Emptied(u.files[h], h, bad)
      BY <1>3, <1>4, <2>3 DEF Flushed, SoundState
    <3> QED BY <1>6, <2>2, <3>1, EmptiedIs
  <2>4. CASE ~(Len(u.files[h].behind) + Len(d) > FILE_BUF)
    <3>1. s = u
      BY <1>4, <2>4
    <3> QED BY <1>6, <1>7, <1>8, <2>2, <2>4, <3>1, NoString
  <2> QED BY <2>3, <2>4
<1>10. CASE \E answer : Become(u, answer)
  BY <1>3, <1>10, BecomeKeeps
<1>11. CASE \E answer : Become(s, answer)
  BY <1>5, <1>11, BecomeKeeps
<1>12. ASSUME Len(d) < FILE_BUF, NEW answer,
              Become([s EXCEPT !.files[h].behind = @ \o d], answer)
       PROVE  FileInv'
  <2>1. y[h].behind \o d \in String /\ Len(y[h].behind \o d) = Len(y[h].behind) + Len(d)
    BY <1>7, <1>8, JoinedIs
  <2>2. PICK f : f = [y[h] EXCEPT !.behind = y[h].behind \o d]
    OBVIOUS
  <2>3. /\ f \in FileType /\ f.ahead = <<>> /\ f.at = y[h].at /\ f.open
        /\ f.behind = y[h].behind \o d
    BY <1>7, <1>9, <2>1, <2>2 DEF FileType
  <2>4. Len(f.behind) <= FILE_BUF
    <3>1. y[h].behind = <<>> => Len(y[h].behind) = 0
      BY NoString
    <3> QED BY <1>7, <1>8, <1>9, <1>12, <2>1, <2>3, <3>1, NoString
  <2>5. Sound(f)
    BY <1>7, <2>3, <2>4, NoString DEF Sound
  <2>6. PICK t : t = [disk |-> x, files |-> [s.files EXCEPT ![h] = f]]
    OBVIOUS
  <2>7. [s EXCEPT !.files[h].behind = @ \o d] = t
    <3>1. [s EXCEPT !.files[h].behind = @ \o d] = [s EXCEPT !.files = [y EXCEPT ![h] = f]]
      BY <1>6, <2>2
    <3> QED BY <1>6, <2>6, <3>1
  <2>8. SoundState(t)
    BY <1>5, <2>3, <2>5, <2>6, ChangedSound
  <2> QED BY <1>12, <2>7, <2>8, BecomeKeeps
<1>13. ASSUME NEW answer,
              Become([s EXCEPT !.disk = F!Overlaid(s.disk, s.files[h].at, d),
                               !.files[h].at = @ + Len(d)], answer)
       PROVE  FileInv'
  <2>1. PICK z \in String : z = F!Overlaid(s.disk, s.files[h].at, d)
    BY <1>6, <1>7, <1>8, OverlaidType
  <2>2. PICK f : f = [y[h] EXCEPT !.at = y[h].at + Len(d)]
    OBVIOUS
  <2>3. /\ f \in FileType /\ f.ahead = <<>> /\ f.at = y[h].at + Len(d) /\ f.open
        /\ f.behind = y[h].behind
    BY <1>7, <1>8, <1>9, <2>2 DEF FileType
  <2>4. Sound(f)
    BY <1>7, <1>8, <2>3, NoString DEF Sound
  <2>5. PICK t : t = [disk |-> z, files |-> [s.files EXCEPT ![h] = f]]
    OBVIOUS
  <2>6. [s EXCEPT !.disk = F!Overlaid(s.disk, s.files[h].at, d),
                  !.files[h].at = @ + Len(d)] = t
    <3>1. PICK n : n = y[h].at + Len(d)
      OBVIOUS
    <3>2. s.disk = x /\ s.files = y /\ z = F!Overlaid(s.disk, s.files[h].at, d)
      BY <1>6, <2>1
    <3>3. [s EXCEPT !.disk = F!Overlaid(s.disk, s.files[h].at, d), !.files[h].at = @ + Len(d)]
            = [s EXCEPT !.disk = z, !.files = [y EXCEPT ![h].at = n]]
      BY <3>1, <3>2, Zenon
    <3>4. [y EXCEPT ![h].at = n] = [y EXCEPT ![h] = f]
      BY <2>2, <3>1
    <3>5. PICK w : w = [y EXCEPT ![h] = f]
      OBVIOUS
    <3>6. [s EXCEPT !.disk = z, !.files = w] = [disk |-> z, files |-> w]
      BY <1>6, BothChanged
    <3>7. [disk |-> z, files |-> w] = t
      BY <2>5, <3>2, <3>5
    <3>8. [s EXCEPT !.disk = F!Overlaid(s.disk, s.files[h].at, d), !.files[h].at = @ + Len(d)]
            = [s EXCEPT !.disk = z, !.files = w]
      BY <3>3, <3>4, <3>5
    <3> QED BY <3>6, <3>7, <3>8
  <2>7. SoundState(t)
    BY <1>5, <2>1, <2>3, <2>4, <2>5, ChangedSound
  <2> QED BY <1>13, <2>6, <2>7, BecomeKeeps
<1> QED BY <1>1, <1>2, <1>4, <1>10, <1>11, <1>12, <1>13

\* The read-ahead dropped, and the handle put somewhere.
LEMMA PlacedSound ==
  ASSUME NEW s, SoundState(s), NEW h \in Handle, s.files[h].open, s.files[h].behind = <<>>,
         NEW at \in Nat
  PROVE  /\ SoundState([s EXCEPT !.files[h].ahead = <<>>])
         /\ SoundState([[s EXCEPT !.files[h].ahead = <<>>] EXCEPT !.files[h].at = at])
<1>1. PICK x \in String, y \in [Handle -> FileType] : s = [disk |-> x, files |-> y]
  BY DEF SoundState
<1>2. /\ y[h].open /\ y[h].at \in Nat /\ y[h].behind = <<>> /\ y[h] \in FileType
  BY <1>1 DEF FileType
<1>3. PICK f : f = [y[h] EXCEPT !.ahead = <<>>]
  OBVIOUS
<1>4. f \in FileType /\ f.ahead = <<>> /\ f.behind = <<>> /\ f.open /\ f.at \in Nat
  BY <1>2, <1>3, NoString DEF FileType
<1>5. Sound(f)
  BY <1>4, NoString DEF Sound
<1>6. PICK z : z = [y EXCEPT ![h] = f]
  OBVIOUS
<1>7. PICK t : t = [disk |-> x, files |-> z]
  OBVIOUS
<1>8. [s EXCEPT !.files[h].ahead = <<>>] = t
  <2>1. [s EXCEPT !.files[h].ahead = <<>>] = [s EXCEPT !.files = z]
    BY <1>1, <1>3, <1>6
  <2> QED BY <1>1, <1>7, <2>1
<1>9. SoundState(t)
  BY <1>1, <1>4, <1>5, <1>6, <1>7, ChangedSound
<1>10. PICK g : g = [f EXCEPT !.at = at]
  OBVIOUS
<1>11. g \in FileType /\ g.ahead = <<>> /\ g.behind = <<>> /\ g.open /\ g.at = at
  BY <1>4, <1>10 DEF FileType
<1>12. Sound(g)
  BY <1>11, NoString DEF Sound
<1>13. PICK u : u = [disk |-> x, files |-> [t.files EXCEPT ![h] = g]]
  OBVIOUS
<1>14. [t EXCEPT !.files[h].at = at] = u
  <2>1. z[h] = f /\ t.files = z
    BY <1>6, <1>7
  <2>2. PICK w : w = [z EXCEPT ![h] = g]
    OBVIOUS
  <2>3. [t EXCEPT !.files[h].at = at] = [t EXCEPT !.files = w]
    BY <1>10, <2>1, <2>2
  <2>4. u = [disk |-> x, files |-> w]
    BY <1>13, <2>1, <2>2
  <2> QED BY <1>7, <2>3, <2>4
<1>15. SoundState(u)
  BY <1>9, <1>11, <1>12, <1>13, ChangedSound
<1> QED BY <1>8, <1>9, <1>14, <1>15

\* fs_seek: flushed, dry, and moved unless the new position is refused.
LEMMA SeekKeeps ==
  ASSUME FileInv, NEW h \in Handle, NEW off \in Offs, NEW origin \in F!Origins,
         Seek(h, off, origin)
  PROVE  FileInv'
<1>1. PICK bad \in Bad : \E target, answer :
       LET s   == Flushed(State, h, bad)
           dry == [s EXCEPT !.files[h].ahead = <<>>]
       IN
       \/ Become(s, answer)
       \/ target \in 0 .. MAX_LEN /\ Become([dry EXCEPT !.files[h].at = target], answer)
       \/ Become(dry, answer)
  BY DEF Seek
<1>2. PICK s : s = Flushed(State, h, bad)
  OBVIOUS
<1>3. SoundState(s)
  BY <1>2, StateFacts, FlushedSound
<1>4. s.files[h].open /\ s.files[h].behind = <<>> /\ s.files[h].at \in Nat
  <2>1. files[h].open /\ files[h] \in FileType
    BY StateFacts DEF Seek
  <2>2. s.files[h] = Emptied(files[h], h, bad)
    BY <1>2, StateFacts DEF Flushed
  <2> QED BY <2>1, <2>2, EmptiedIs DEF FileType
<1>5. PICK target, answer :
       \/ Become(s, answer)
       \/ /\ target \in 0 .. MAX_LEN
          /\ Become([[s EXCEPT !.files[h].ahead = <<>>] EXCEPT !.files[h].at = target], answer)
       \/ Become([s EXCEPT !.files[h].ahead = <<>>], answer)
  BY <1>1, <1>2
<1>6. CASE Become(s, answer)
  BY <1>3, <1>6, BecomeKeeps
<1>7. CASE /\ target \in 0 .. MAX_LEN
           /\ Become([[s EXCEPT !.files[h].ahead = <<>>] EXCEPT !.files[h].at = target], answer)
  <2>1. target \in Nat
    BY <1>7, CallsAssumption
  <2> QED BY <1>3, <1>4, <1>7, <2>1, PlacedSound, BecomeKeeps
<1>8. CASE Become([s EXCEPT !.files[h].ahead = <<>>], answer)
  BY <1>3, <1>4, <1>8, PlacedSound, BecomeKeeps
<1> QED BY <1>5, <1>6, <1>7, <1>8

\* The invariant is inductive.
LEMMA FilesKeep == FileInv /\ [Next]_vars => FileInv'
<1> SUFFICES ASSUME FileInv, [Next]_vars PROVE FileInv'
  OBVIOUS
<1>1. ASSUME NEW h \in Handle, NEW create \in BOOLEAN, Open(h, create) PROVE FileInv'
  BY <1>1, OpenKeeps
<1>2. ASSUME NEW h \in Handle, Close(h) PROVE FileInv'
  BY <1>2, CloseKeeps
<1>3. ASSUME NEW h \in Handle, NEW want \in Wants, Read(h, want) PROVE FileInv'
  BY <1>3, ReadKeeps
<1>4. ASSUME NEW h \in Handle, NEW d \in Data, Write(h, d) PROVE FileInv'
  BY <1>4, WriteKeeps
<1>5. ASSUME NEW h \in Handle, NEW off \in Offs, NEW origin \in F!Origins, Seek(h, off, origin)
      PROVE  FileInv'
  BY <1>5, SeekKeeps
<1>6. CASE CloseAll
  BY <1>6, CloseAllKeeps
<1>7. CASE UNCHANGED vars
  BY <1>7 DEF vars, FileInv, SoundState, State
<1> QED BY <1>1, <1>2, <1>3, <1>4, <1>5, <1>6, <1>7 DEF Next

\* It holds when the program starts.
LEMMA FilesStart == Init => FileInv
<1> SUFFICES ASSUME Init PROVE FileInv
  OBVIOUS
<1>1. disk \in String
  BY NoString, CallsAssumption DEF Init, String
<1>2. \A h \in Handle : files[h] = Closed
  BY DEF Init
<1>3. files \in [Handle -> FileType]
  BY ClosedSound DEF Init
<1> QED BY <1>1, <1>2, <1>3, ClosedSound DEF FileInv, SoundState, State, Init

\* So it holds always.
LEMMA FilesAlwaysSound == Spec => []FileInv
<1> QED BY FilesStart, FilesKeep, PTL DEF Spec

\* And it is stronger than what the program relies on.
LEMMA SoundIsOneOrOther == FileInv => OneOrOther
<1> SUFFICES ASSUME FileInv PROVE OneOrOther
  OBVIOUS
<1>1. \A h \in Handle : Sound(files[h])
  BY StateFacts
<1> QED BY <1>1 DEF OneOrOther, Sound

-----------------------------------------------------------------------------
(* A read sees every write.                                                 *)

\* The state a read serves from, when no flush fails: every write has landed, the
\* handle is where the program believes it, and has nothing of its own pending.
LEMMA ServedFrom ==
  ASSUME FileInv, NEW h \in Handle, NEW bad,
         \A g \in Handle : ~FlushFails(State, g, bad), Undisputed,
         NEW s, s = FlushedAliases(Flushed(State, h, bad), h, bad)
  PROVE  /\ SoundState(s) /\ s.disk = Merged
         /\ s.files[h] = Emptied(files[h], h, bad)
         /\ s.files[h].at = files[h].at + Len(files[h].behind)
<1>1. PICK own : own = Flushed(State, h, bad)
  OBVIOUS
<1>2. SoundState(own)
  BY <1>1, StateFacts, FlushedSound
<1>3. SoundState(s)
  <2>1. Handle \ {h} \in SUBSET Handle
    OBVIOUS
  <2> QED BY <1>1, <1>2, <2>1, FlushedInSound DEF FlushedAliases
<1>4. disk \in String /\ files \in [Handle -> FileType]
  BY StateFacts
<1>5. \A g \in Handle : files[g].behind # <<>> => g \notin bad
  BY StateFacts DEF FlushFails
<1>6. own.disk = F!Overlaid(disk, files[h].at, files[h].behind)
  <2>1. own.disk = Landed(disk, files[h], h, bad)
    BY <1>1, StateFacts DEF Flushed
  <2>2. CASE h \notin bad
    BY <2>1, <2>2 DEF Landed
  <2>3. CASE h \in bad
    <3>1. files[h].behind = <<>>
      BY <1>5, <2>3
    <3> QED BY <2>1, <2>3, <3>1 DEF Landed, F!Overlaid
  <2> QED BY <2>2, <2>3
<1>7. own.files \in [Handle -> FileType] /\ \A g \in Handle \ {h} : own.files[g] = files[g]
  BY <1>1, <1>2, <1>4, StateFacts DEF SoundState, Flushed
<1>8. own.files[h] = Emptied(files[h], h, bad)
  BY <1>1, <1>4, StateFacts DEF Flushed
<1>9. Dirty(own.files, Handle \ {h}) \ bad = Dirty(own.files, Handle \ {h})
  BY <1>5, <1>7 DEF Dirty
<1>10. s.disk = AllLanded(own.disk, own.files, Dirty(own.files, Handle \ {h}))
  BY <1>1, <1>9 DEF FlushedAliases, FlushedIn
<1>11. s.disk = Merged
  <2>1. \A g, k \in Handle : g # k => Pending(files[g]) \cap Pending(files[k]) = {}
    BY DEF Undisputed
  <2>2. AllLanded(F!Overlaid(disk, files[h].at, files[h].behind), own.files,
                  Dirty(own.files, Handle \ {h}))
          = AllLanded(disk, files, Dirty(files, Handle))
    BY <1>4, <1>7, <2>1, EveryWriteSeen
  <2> QED BY <1>6, <1>10, <2>2 DEF Merged
<1>12. s.files[h] = Emptied(files[h], h, bad)
  BY <1>1, <1>8 DEF FlushedAliases, FlushedIn
<1>13. s.files[h].at = files[h].at + Len(files[h].behind)
  <2>1. files[h] \in FileType
    BY <1>4
  <2>2. CASE h \notin bad
    BY <1>12, <2>1, <2>2, EmptiedIs
  <2>3. CASE h \in bad
    <3>1. files[h].behind = <<>>
      BY <1>5, <2>3
    <3>2. s.files[h] = files[h] /\ Len(files[h].behind) = 0 /\ files[h].at \in Nat
      BY <1>12, <2>1, <3>1, EmptiedIs, NoString DEF FileType
    <3> QED BY <3>2
  <2> QED BY <2>2, <2>3
<1> QED BY <1>3, <1>11, <1>12, <1>13

\* A read with nothing of its own read ahead answers the file as written.
LEMMA DryReadIsExact ==
  ASSUME FileInv, NEW h \in Handle, NEW want \in Wants,
         ret'.op = "read", files[h].ahead = <<>>, Undisputed, Read(h, want)
  PROVE  ret'.data = F!Slice(Merged, Pos(files[h]), want)
<1>1. PICK bad \in Bad :
       LET s == FlushedAliases(Flushed(State, h, bad), h, bad) IN
       \/ ret' = Error
       \/ /\ \A g \in Handle : ~FlushFails(State, g, bad)
          /\ ret' = Answer("read", Len(Served(s, h, want).data), Served(s, h, want).data)
  BY DEF Read, Become
<1>2. ret' # Error
  BY DEF Error, Answer
<1>3. PICK s : s = FlushedAliases(Flushed(State, h, bad), h, bad)
  OBVIOUS
<1>4. PICK v : v = Served(s, h, want)
  OBVIOUS
<1>5. (\A g \in Handle : ~FlushFails(State, g, bad)) /\ ret'.data = v.data
  BY <1>1, <1>2, <1>3, <1>4 DEF Answer
<1>6. /\ SoundState(s) /\ s.disk = Merged /\ s.files[h] = Emptied(files[h], h, bad)
      /\ s.files[h].at = files[h].at + Len(files[h].behind)
  BY <1>3, <1>5, ServedFrom
<1>7. files[h] \in FileType
  BY StateFacts
<1>8. s.files[h].ahead = <<>>
  BY <1>6, <1>7, EmptiedIs
<1>9. PICK x \in String, y \in [Handle -> FileType] : s = [disk |-> x, files |-> y]
  BY <1>6 DEF SoundState
<1>10. /\ y[h].ahead = <<>> /\ y[h].at = files[h].at + Len(files[h].behind) /\ y[h].at \in Nat
       /\ x = Merged
  BY <1>6, <1>8, <1>9 DEF FileType
<1>11. AheadRight(y[h], x)
  BY <1>10, NoString DEF AheadRight, Reads
<1>12. v.data = F!Slice(x, y[h].at - Len(y[h].ahead), want)
  <2>1. Len(y[h].ahead) < FILE_BUF /\ Len(y[h].ahead) <= y[h].at
    BY <1>10, NoString
  <2>2. want \in Nat
    BY CallsAssumption
  <2> QED BY <1>4, <1>9, <1>11, <2>1, <2>2, ServedRight
<1>13. y[h].at - Len(y[h].ahead) = Pos(files[h])
  <2>1. files[h].at \in Nat /\ Len(files[h].behind) \in Nat /\ Len(files[h].ahead) = 0
    BY <1>7, StringIs, NoString DEF FileType
  <2> QED BY <1>10, <2>1, NoString DEF Pos
<1> QED BY <1>5, <1>10, <1>12, <1>13

(* Whatever the host refuses and whichever handle is next, for any number  *)
(* of handles and any size of buffer: no buffer is ever both kinds, and a  *)
(* read that has nothing read ahead answers the file as every write has    *)
(* left it, when no byte is pending in two buffers.                        *)
THEOREM BuffersAlwaysAgree == Spec => BuffersAgree
<1>1. Spec => []OneOrOther
  BY FilesAlwaysSound, SoundIsOneOrOther, PTL
<1>2. FileInv /\ [Next]_vars =>
        [\A h \in Handle, want \in Wants :
           (ret'.op = "read" /\ files[h].ahead = <<>> /\ Undisputed /\ Read(h, want)) =>
             ret'.data = F!Slice(Merged, Pos(files[h]), want)]_vars
  BY DryReadIsExact
<1>3. Spec => DryReadsExact
  BY <1>2, FilesAlwaysSound, PTL DEF Spec, DryReadsExact
<1> QED BY <1>1, <1>3, PTL DEF BuffersAgree

-----------------------------------------------------------------------------
(* The everyday case is an unbuffered file.                                 *)

\* Two writes one behind the other are one of both strings.
LEMMA OverlaidTwice ==
  ASSUME NEW s \in String, NEW p \in Nat, NEW a \in String, NEW b \in String
  PROVE  F!Overlaid(F!Overlaid(s, p, a), p + Len(a), b) = F!Overlaid(s, p, a \o b)
<1>1. /\ Len(s) \in Nat /\ Len(a) \in Nat /\ Len(b) \in Nat
      /\ a = <<>> <=> Len(a) = 0
      /\ b = <<>> <=> Len(b) = 0
  BY StringIs
<1>2. PICK c \in String : c = a \o b /\ Len(c) = Len(a) + Len(b)
  BY JoinedIs
<1>3. \A i \in 1 .. Len(a) + Len(b) : c[i] = IF i <= Len(a) THEN a[i] ELSE b[i - Len(a)]
  BY <1>2, JoinedIs
<1>4. CASE a = <<>>
  <2>1. F!Overlaid(s, p, a) = s /\ p + Len(a) = p
    BY <1>1, <1>4 DEF F!Overlaid
  <2>2. \A i \in 1 .. Len(c) : c[i] = b[i]
    BY <1>1, <1>2, <1>3, <1>4
  <2>3. c = b
    BY <1>1, <1>2, <1>4, <2>2, SameString
  <2> QED BY <1>2, <2>1, <2>3
<1>5. CASE b = <<>>
  <2>1. F!Overlaid(F!Overlaid(s, p, a), p + Len(a), b) = F!Overlaid(s, p, a)
    BY <1>5 DEF F!Overlaid
  <2>2. \A i \in 1 .. Len(c) : c[i] = a[i]
    BY <1>1, <1>2, <1>3, <1>5
  <2>3. c = a
    BY <1>1, <1>2, <1>5, <2>2, SameString
  <2> QED BY <1>2, <2>1, <2>3
<1>6. CASE a # <<>> /\ b # <<>>
  <2>1. PICK j \in Nat : j = Len(a)
    BY <1>1
  <2>2. PICK k \in Nat : k = Len(b)
    BY <1>1
  <2>3. PICK l \in Nat : l = Len(s)
    BY <1>1
  <2>4. j > 0 /\ k > 0 /\ c # <<>> /\ Len(c) = j + k
    BY <1>1, <1>2, <1>6, <2>1, <2>2, StringIs
  <2>5. PICK m \in Nat : m = IF l <= p + j THEN p + j ELSE l
    <3>1. (IF l <= p + j THEN p + j ELSE l) \in Nat
      BY <2>1, <2>3
    <3> QED BY <3>1
  <2>6. PICK o \in String : /\ o = F!Overlaid(s, p, a) /\ Len(o) = m
                            /\ \A i \in 1 .. m :
                                 o[i] = IF i > p /\ i <= p + j THEN a[i - p]
                                        ELSE IF i <= l THEN s[i] ELSE 0
    BY <1>6, <2>1, <2>3, <2>5, OverlaidIs
  <2>7. PICK n \in Nat : n = IF m <= p + j + k THEN p + j + k ELSE m
    BY <2>5
  <2>8. p + j \in Nat
    OBVIOUS
  <2>9. PICK u \in String : /\ u = F!Overlaid(o, p + j, b) /\ Len(u) = n
                            /\ \A i \in 1 .. n :
                                 u[i] = IF i > p + j /\ i <= p + j + k THEN b[i - (p + j)]
                                        ELSE IF i <= m THEN o[i] ELSE 0
    BY <1>6, <2>2, <2>6, <2>7, <2>8, OverlaidIs
  <2>10. n = IF l <= p + (j + k) THEN p + (j + k) ELSE l
    BY <2>5, <2>7
  <2>11. PICK v \in String : /\ v = F!Overlaid(s, p, c) /\ Len(v) = n
                             /\ \A i \in 1 .. n :
                                  v[i] = IF i > p /\ i <= p + (j + k) THEN c[i - p]
                                         ELSE IF i <= l THEN s[i] ELSE 0
    <3>1. PICK q \in Nat : q = j + k
      OBVIOUS
    <3>2. Len(c) = q /\ c # <<>> /\ n = IF l <= p + q THEN p + q ELSE l
      BY <2>4, <2>10, <3>1
    <3>3. PICK v \in String : /\ v = F!Overlaid(s, p, c) /\ Len(v) = n
                             /\ \A i \in 1 .. n :
                                  v[i] = IF i > p /\ i <= p + q THEN c[i - p]
                                         ELSE IF i <= l THEN s[i] ELSE 0
      <4>0. c \in String
        BY <1>2
      <4>1. PICK v : v = F!Overlaid(s, p, c)
        OBVIOUS
      <4>2. v \in String /\ Len(v) = n
        BY <2>3, <3>1, <3>2, <4>0, <4>1, OverlaidIs
      <4>3. \A i \in 1 .. n :
                v[i] = IF i > p /\ i <= p + q THEN c[i - p]
                       ELSE IF i <= l THEN s[i] ELSE 0
        BY <2>3, <3>1, <3>2, <4>0, <4>1, OverlaidIs
      <4> QED BY <4>1, <4>2, <4>3
    <3> QED BY <3>1, <3>3
  <2>12. ASSUME NEW i \in 1 .. n PROVE u[i] = v[i]
    <3>1. CASE i <= p
      <4>1. u[i] = IF i <= m THEN o[i] ELSE 0
        BY <2>9, <3>1
      <4>2. v[i] = IF i <= l THEN s[i] ELSE 0
        BY <2>11, <3>1
      <4>3. i <= m /\ i \in 1 .. m
        BY <2>5, <3>1
      <4>4. o[i] = IF i <= l THEN s[i] ELSE 0
        BY <2>6, <3>1, <4>3
      <4> QED BY <4>1, <4>2, <4>3, <4>4
    <3>2. CASE i > p /\ i <= p + j
      <4>1. i \in 1 .. m
        BY <2>5, <3>2
      <4>2. u[i] = a[i - p]
        BY <2>6, <2>9, <3>2, <4>1
      <4>3. i - p \in 1 .. Len(a) + Len(b) /\ i - p <= Len(a)
        BY <2>1, <2>2, <3>2
      <4> QED BY <1>3, <2>11, <3>2, <4>2, <4>3
    <3>3. CASE i > p + j /\ i <= p + j + k
      <4>1. u[i] = b[i - (p + j)]
        BY <2>9, <3>3
      <4>2. /\ i - p \in 1 .. Len(a) + Len(b) /\ ~(i - p <= Len(a))
            /\ (i - p) - Len(a) = i - (p + j) /\ i > p /\ i <= p + (j + k)
        BY <2>1, <2>2, <3>3
      <4> QED BY <1>3, <2>11, <4>1, <4>2
    <3>4. CASE i > p + j + k
      <4>1. u[i] = IF i <= m THEN o[i] ELSE 0
        BY <2>9, <3>4
      <4>2. v[i] = IF i <= l THEN s[i] ELSE 0
        BY <2>11, <3>4
      <4>3. i <= m /\ i <= l /\ i \in 1 .. m
        BY <2>5, <2>7, <3>4
      <4>4. o[i] = s[i]
        BY <2>6, <3>4, <4>3
      <4> QED BY <4>1, <4>2, <4>3, <4>4
    <3> QED BY <3>1, <3>2, <3>3, <3>4
  <2>13. u = v
    BY <2>9, <2>11, <2>12, SameString
  <2> QED BY <1>2, <2>1, <2>6, <2>9, <2>11, <2>13
<1> QED BY <1>4, <1>5, <1>6

\* No handle but h is open.
OnlyOpen(fs, h) == \A g \in Handle \ {h} : fs[g] = Closed

\* The invariant of the everyday case: one handle, and what it has read ahead is
\* what the file has there.
CalmInv ==
  calm => /\ \A g, k \in Handle : files[g].open /\ files[k].open => g = k
          /\ \A h \in Handle : AheadRight(files[h], disk)

Where(f) == IF f.open THEN Pos(f) ELSE -1

\* With one handle open, what the file will be is its string laid over the file.
LEMMA SeenOf ==
  ASSUME NEW x \in String, NEW fs \in [Handle -> FileType], NEW h \in Handle, OnlyOpen(fs, h)
  PROVE  AllLanded(x, fs, Dirty(fs, Handle)) = F!Overlaid(x, fs[h].at, fs[h].behind)
<1>1. \A g \in Handle \ {h} : fs[g].behind = <<>>
  BY ClosedSound DEF OnlyOpen
<1>2. CASE fs[h].behind = <<>>
  <2>1. Dirty(fs, Handle) = {}
    BY <1>1, <1>2 DEF Dirty
  <2> QED BY <1>2, <2>1, NoneLanded DEF F!Overlaid
<1>3. CASE fs[h].behind # <<>>
  <2>1. Dirty(fs, Handle) = {h}
    BY <1>1, <1>3 DEF Dirty
  <2> QED BY <1>3, <2>1, OneLanded
<1> QED BY <1>2, <1>3

\* What a call on one handle shows of itself.
LEMMA CalmBecome ==
  ASSUME FileInv, CalmInv, calm, NEW h \in Handle,
         files[h].open \/ \A g \in Handle : ~files[g].open,
         NEW t, SoundState(t), NEW answer, Become(t, answer),
         \A g \in Handle \ {h} : t.files[g] = files[g], AheadRight(t.files[h], t.disk)
  PROVE  /\ CalmInv'
         /\ SeenFile = F!Overlaid(disk, files[h].at, files[h].behind)
         /\ SeenFile' = F!Overlaid(t.disk, t.files[h].at, t.files[h].behind)
         /\ SeenPlaces[h] = Where(files[h])
         /\ SeenPlaces' = [SeenPlaces EXCEPT ![h] = Where(t.files[h])]
         /\ SeenAnswer' = answer
<1>1. /\ disk' = t.disk /\ files' = t.files /\ ret' = answer /\ calm' = calm
  BY DEF Become
<1>2. /\ disk \in String /\ files \in [Handle -> FileType]
      /\ t.disk \in String /\ t.files \in [Handle -> FileType]
  BY StateFacts DEF SoundState
<1>3. OnlyOpen(files, h)
  <2>1. \A g \in Handle : Sound(files[g])
    BY StateFacts
  <2> QED BY <2>1 DEF OnlyOpen, Sound, CalmInv
<1>4. OnlyOpen(t.files, h)
  BY <1>3 DEF OnlyOpen
<1>5. CalmInv'
  <2>1. \A g \in Handle : t.files[g].open => g = h
    BY <1>4, ClosedSound DEF OnlyOpen
  <2>2. \A g \in Handle : AheadRight(t.files[g], t.disk)
    BY <1>4, ClosedSound DEF OnlyOpen, AheadRight
  <2> QED BY <1>1, <2>1, <2>2 DEF CalmInv
<1>6. SeenFile = F!Overlaid(disk, files[h].at, files[h].behind)
  BY <1>2, <1>3, SeenOf DEF SeenFile, Merged
<1>7. SeenFile' = F!Overlaid(t.disk, t.files[h].at, t.files[h].behind)
  <2>1. SeenFile' = AllLanded(t.disk, t.files, Dirty(t.files, Handle))
    BY <1>1 DEF SeenFile, Merged
  <2> QED BY <1>2, <1>4, <2>1, SeenOf
<1>8. SeenPlaces = [g \in Handle |-> Where(files[g])]
  BY DEF SeenPlaces, Where
<1>9. SeenPlaces' = [g \in Handle |-> Where(t.files[g])]
  BY <1>1 DEF SeenPlaces, Where
<1>10. SeenPlaces' = [SeenPlaces EXCEPT ![h] = Where(t.files[h])]
  BY <1>8, <1>9
<1>11. SeenAnswer' = answer
  BY <1>1 DEF SeenAnswer
<1> QED BY <1>5, <1>6, <1>7, <1>8, <1>10, <1>11

\* In the everyday case no flush fails.
LEMMA CalmBad == ASSUME calm PROVE Bad = {{}}
<1> QED BY DEF Bad, MayFail

\* A flush that works moves nothing and loses nothing.
LEMMA FlushShows ==
  ASSUME NEW r, SoundState(r), NEW h \in Handle, AheadRight(r.files[h], r.disk),
         NEW s, s = Flushed(r, h, {})
  PROVE  /\ SoundState(s)
         /\ s.disk = F!Overlaid(r.disk, r.files[h].at, r.files[h].behind)
         /\ \A g \in Handle \ {h} : s.files[g] = r.files[g]
         /\ s.files[h].behind = <<>> /\ s.files[h].ahead = r.files[h].ahead
         /\ s.files[h].open = r.files[h].open
         /\ s.files[h].at = r.files[h].at + Len(r.files[h].behind)
         /\ Pos(s.files[h]) = Pos(r.files[h])
         /\ AheadRight(s.files[h], s.disk)
<1>1. SoundState(s)
  BY FlushedSound
<1>2. PICK f \in FileType : f = r.files[h]
  BY DEF SoundState
<1>3. r.files \in [Handle -> FileType]
  BY DEF SoundState
<1>4. s.files[h] = Emptied(f, h, {}) /\ \A g \in Handle \ {h} : s.files[g] = r.files[g]
  BY <1>2, <1>3 DEF Flushed
<1>5. s.disk = F!Overlaid(r.disk, f.at, f.behind)
  BY <1>2 DEF Flushed, Landed
<1>6. /\ s.files[h].behind = <<>> /\ s.files[h].ahead = f.ahead
      /\ s.files[h].open = f.open /\ s.files[h].at = f.at + Len(f.behind)
      /\ f.behind = <<>> => s.files[h] = f
  BY <1>2, <1>4, EmptiedIs
<1>7. Pos(s.files[h]) = Pos(f)
  <2>1. f.at \in Nat /\ Len(f.ahead) \in Nat /\ Len(f.behind) \in Nat
    BY <1>2, StringIs DEF FileType
  <2> QED BY <1>6, <2>1, NoString DEF Pos
<1>8. AheadRight(s.files[h], s.disk)
  <2>1. CASE f.ahead = <<>>
    BY <1>6, <2>1 DEF AheadRight
  <2>2. CASE f.ahead # <<>>
    <3>1. f.behind = <<>>
      BY <1>2, <2>2 DEF SoundState, Sound
    <3>2. s.disk = r.disk
      BY <1>5, <3>1 DEF F!Overlaid
    <3> QED BY <1>2, <1>6, <3>1, <3>2
  <2> QED BY <2>1, <2>2
<1> QED BY <1>1, <1>2, <1>4, <1>5, <1>6, <1>7, <1>8

\* What the everyday case adds to the invariant.
LEMMA CalmFacts ==
  ASSUME FileInv, CalmInv, calm
  PROVE  /\ SoundState(State) /\ State.disk = disk /\ State.files = files
         /\ \A h \in Handle : AheadRight(files[h], disk)
         /\ \A h \in Handle : AheadRight(State.files[h], State.disk)
<1> QED BY StateFacts DEF CalmInv

\* An open handle is somewhere.
LEMMA PosIs ==
  ASSUME FileInv, NEW h \in Handle, files[h].open
  PROVE  Pos(files[h]) \in Nat /\ Where(files[h]) = Pos(files[h]) /\ Where(files[h]) # -1
<1>1. files[h] \in FileType /\ Sound(files[h])
  BY StateFacts
<1>2. files[h].at \in Nat /\ Len(files[h].ahead) \in Nat /\ Len(files[h].behind) \in Nat
  BY <1>1, StringIs DEF FileType
<1>3. Pos(files[h]) \in Nat
  BY <1>1, <1>2 DEF Pos, Sound
<1>4. Where(files[h]) = Pos(files[h])
  BY DEF Where
<1> QED BY <1>3, <1>4

\* Each call, in the everyday case, is the call of a file with no buffer.
LEMMA CloseShows ==
  ASSUME FileInv, CalmInv, calm, NEW h \in Handle, Close(h)
  PROVE  CalmInv' /\ Exact!Close(h)
<1>1. files[h].open
  BY DEF Close
<1>2. PICK s : s = Flushed(State, h, {})
  OBVIOUS
<1>3. Become([s EXCEPT !.files[h] = Closed], Answer("close", h, <<>>))
  BY <1>2, CalmBad DEF Close, FlushFails
<1>4. /\ SoundState(s) /\ s.disk = F!Overlaid(disk, files[h].at, files[h].behind)
      /\ \A g \in Handle \ {h} : s.files[g] = files[g]
  BY <1>2, CalmFacts, FlushShows
<1>5. PICK x \in String, y \in [Handle -> FileType] : s = [disk |-> x, files |-> y]
  BY <1>4 DEF SoundState
<1>6. PICK t : t = [disk |-> x, files |-> [s.files EXCEPT ![h] = Closed]]
  OBVIOUS
<1>7. [s EXCEPT !.files[h] = Closed] = t
  BY <1>5, <1>6
<1>8. SoundState(t)
  BY <1>4, <1>5, <1>6, ClosedSound, ChangedSound
<1>9. /\ t.files[h] = Closed /\ t.disk = s.disk /\ AheadRight(t.files[h], t.disk)
      /\ \A g \in Handle \ {h} : t.files[g] = files[g]
  BY <1>4, <1>5, <1>6, ClosedSound DEF AheadRight
<1>10. /\ CalmInv'
       /\ SeenFile = F!Overlaid(disk, files[h].at, files[h].behind)
       /\ SeenFile' = F!Overlaid(t.disk, t.files[h].at, t.files[h].behind)
       /\ SeenPlaces[h] = Where(files[h])
       /\ SeenPlaces' = [SeenPlaces EXCEPT ![h] = Where(t.files[h])]
       /\ SeenAnswer' = Answer("close", h, <<>>)
  BY <1>1, <1>3, <1>7, <1>8, <1>9, CalmBecome
<1>11. SeenFile' = SeenFile
  BY <1>4, <1>9, <1>10, ClosedSound DEF F!Overlaid
<1>12. SeenPlaces[h] # -1 /\ Where(t.files[h]) = -1
  BY <1>1, <1>9, <1>10, PosIs, ClosedSound DEF Where
<1> QED BY <1>10, <1>11, <1>12 DEF Exact!Close, Exact!Shut, Exact!Answer, Answer

\* Opening: no other handle is open, so there is nothing to flush.
LEMMA OpenShows ==
  ASSUME FileInv, CalmInv, calm, NEW h \in Handle, NEW create \in BOOLEAN, Open(h, create)
  PROVE  CalmInv' /\ Exact!Open(h, create)
<1>1. \A g \in Handle : ~files[g].open /\ files[g] = Closed
  BY StateFacts DEF Open, Sound
<1>2. PICK s : s = FlushedIn(State, Handle, {})
  OBVIOUS
<1>3. disk \in String /\ files \in [Handle -> FileType] /\ State.disk = disk /\ State.files = files
  BY StateFacts
<1>4. s = [disk |-> disk, files |-> files]
  <2>1. Dirty(files, Handle) \ {} = {}
    BY <1>1, ClosedSound DEF Dirty
  <2>2. AllLanded(disk, files, {}) = disk
    BY <1>3, NoneLanded
  <2>3. \A g \in Handle : Emptied(files[g], g, {}) = files[g]
    BY <1>1, <1>3, ClosedSound, EmptiedIs
  <2>4. [g \in Handle |-> IF g \in Handle THEN Emptied(files[g], g, {}) ELSE files[g]] = files
    BY <1>3, <2>3
  <2> QED BY <1>2, <1>3, <2>1, <2>2, <2>4 DEF FlushedIn
<1>5. PICK z \in String : z = IF create THEN <<>> ELSE disk
  BY <1>3, NoString
<1>6. PICK w : w = [files EXCEPT ![h] = Fresh]
  OBVIOUS
<1>7. PICK t : t = [disk |-> z, files |-> w]
  OBVIOUS
<1>8. Become(t, Answer("open", h, <<>>))
  <2>1. Become([s EXCEPT !.disk = IF create THEN <<>> ELSE @, !.files[h] = Fresh],
               Answer("open", h, <<>>))
    BY <1>2, CalmBad DEF Open
  <2>2. [s EXCEPT !.disk = IF create THEN <<>> ELSE @, !.files[h] = Fresh]
          = [s EXCEPT !.disk = z, !.files = w]
    BY <1>4, <1>5, <1>6
  <2>3. [s EXCEPT !.disk = z, !.files = w] = [disk |-> z, files |-> w]
    BY <1>4, BothChanged
  <2> QED BY <1>7, <2>1, <2>2, <2>3
<1>9. SoundState(t)
  BY <1>3, <1>5, <1>6, <1>7, StateFacts, ClosedSound DEF SoundState
<1>10. /\ t.files[h] = Fresh /\ t.disk = z /\ AheadRight(t.files[h], t.disk)
       /\ \A g \in Handle \ {h} : t.files[g] = files[g]
  BY <1>3, <1>6, <1>7 DEF AheadRight, Fresh
<1>11. /\ CalmInv'
       /\ SeenFile = F!Overlaid(disk, files[h].at, files[h].behind)
       /\ SeenFile' = F!Overlaid(t.disk, t.files[h].at, t.files[h].behind)
       /\ SeenPlaces[h] = Where(files[h])
       /\ SeenPlaces' = [SeenPlaces EXCEPT ![h] = Where(t.files[h])]
       /\ SeenAnswer' = Answer("open", h, <<>>)
  BY <1>1, <1>8, <1>9, <1>10, CalmBecome
<1>12. SeenFile = disk /\ SeenFile' = z
  BY <1>1, <1>10, <1>11 DEF F!Overlaid, Closed, Fresh
<1>13. SeenPlaces[h] = -1 /\ Where(t.files[h]) = 0
  BY <1>1, <1>10, <1>11, NoString DEF Where, Fresh, Pos
<1> QED BY <1>5, <1>11, <1>12, <1>13 DEF Exact!Open, Exact!Shut, Exact!Answer, Answer

\* The end of the program: what was pending lands.
LEMMA CloseAllShows ==
  ASSUME FileInv, CalmInv, calm, CloseAll
  PROVE  CalmInv' /\ Exact!CloseAll
<1>1. Become([FlushedIn(State, Handle, {}) EXCEPT !.files = [h \in Handle |-> Closed]],
             Answer("exit", 0, <<>>))
  BY CalmBad DEF CloseAll
<1>2. PICK s : s = FlushedIn(State, Handle, {})
  OBVIOUS
<1>3. s.disk = Merged /\ SoundState(s)
  <2>1. Dirty(files, Handle) \ {} = Dirty(files, Handle)
    OBVIOUS
  <2>2. Handle \in SUBSET Handle
    OBVIOUS
  <2> QED BY <1>2, <2>1, <2>2, StateFacts, FlushedInSound DEF FlushedIn, Merged
<1>4. PICK x \in String, y \in [Handle -> FileType] : s = [disk |-> x, files |-> y]
  BY <1>3 DEF SoundState
<1>5. PICK w \in [Handle -> FileType] : w = [h \in Handle |-> Closed]
  BY ClosedSound
<1>6. [s EXCEPT !.files = w] = [disk |-> x, files |-> w]
  BY <1>4
<1>7. disk' = x /\ files' = w /\ ret' = Answer("exit", 0, <<>>) /\ calm' = calm
  BY <1>1, <1>2, <1>5, <1>6 DEF Become
<1>8. SeenFile' = SeenFile
  <2>1. SeenFile = x
    BY <1>3, <1>4 DEF SeenFile
  <2>2. Dirty(w, Handle) = {}
    BY <1>5, ClosedSound DEF Dirty
  <2>3. SeenFile' = AllLanded(x, w, Dirty(w, Handle))
    BY <1>7 DEF SeenFile, Merged
  <2>4. AllLanded(x, w, {}) = x
    BY <1>5, NoneLanded
  <2> QED BY <2>1, <2>2, <2>3, <2>4
<1>9. SeenPlaces' = [h \in 1 .. N |-> -1]
  BY <1>5, <1>7, ClosedSound DEF SeenPlaces, Handle
<1>10. SeenAnswer' = Answer("exit", 0, <<>>)
  BY <1>7 DEF SeenAnswer
<1>11. CalmInv'
  BY <1>5, <1>7, ClosedSound DEF CalmInv, AheadRight
<1> QED BY <1>8, <1>9, <1>10, <1>11 DEF Exact!CloseAll, Exact!Shut, Exact!Answer, Answer

\* A seek: from where the program believes the handle to be.
LEMMA SeekShows ==
  ASSUME FileInv, CalmInv, calm, NEW h \in Handle, NEW off \in Offs, NEW origin \in F!Origins,
         Seek(h, off, origin)
  PROVE  CalmInv' /\ Exact!Seek(h, off, origin)
<1>1. files[h].open
  BY DEF Seek
<1>2. PICK s : s = Flushed(State, h, {})
  OBVIOUS
<1>3. /\ SoundState(s)
      /\ s.disk = F!Overlaid(disk, files[h].at, files[h].behind)
      /\ \A g \in Handle \ {h} : s.files[g] = files[g]
      /\ s.files[h].behind = <<>> /\ s.files[h].open
      /\ Pos(s.files[h]) = Pos(files[h])
  BY <1>1, <1>2, CalmFacts, FlushShows
<1>4. PICK target :
        /\ target = F!Base(origin, s.files[h].at, s.disk)
                      + (IF origin = "CUR" THEN off - Len(s.files[h].ahead) ELSE off)
        /\ target \in 0 .. MAX_LEN
        /\ Become([[s EXCEPT !.files[h].ahead = <<>>] EXCEPT !.files[h].at = target],
                  Answer("seek", target, <<>>))
  BY <1>2, CalmBad DEF Seek, FlushFails
<1>5. target \in Nat
  BY <1>4, CallsAssumption
<1>6. PICK x \in String, y \in [Handle -> FileType] : s = [disk |-> x, files |-> y]
  BY <1>3 DEF SoundState
<1>7. PICK t : t = [[s EXCEPT !.files[h].ahead = <<>>] EXCEPT !.files[h].at = target]
  OBVIOUS
<1>8. SoundState(t)
  BY <1>3, <1>5, <1>7, PlacedSound
<1>9. /\ t.disk = x /\ \A g \in Handle \ {h} : t.files[g] = files[g]
      /\ t.files[h] = [[y[h] EXCEPT !.ahead = <<>>] EXCEPT !.at = target]
  BY <1>3, <1>6, <1>7
<1>10. /\ t.files[h].ahead = <<>> /\ t.files[h].behind = <<>> /\ t.files[h].open
       /\ t.files[h].at = target
  BY <1>3, <1>6, <1>9 DEF FileType
<1>11. AheadRight(t.files[h], t.disk)
  BY <1>10 DEF AheadRight
<1>12. /\ CalmInv'
       /\ SeenFile = F!Overlaid(disk, files[h].at, files[h].behind)
       /\ SeenFile' = F!Overlaid(t.disk, t.files[h].at, t.files[h].behind)
       /\ SeenPlaces[h] = Where(files[h])
       /\ SeenPlaces' = [SeenPlaces EXCEPT ![h] = Where(t.files[h])]
       /\ SeenAnswer' = Answer("seek", target, <<>>)
  <2>1. Become(t, Answer("seek", target, <<>>))
    BY <1>4, <1>7
  <2>2. PICK answer : answer = Answer("seek", target, <<>>)
    OBVIOUS
  <2>3. Become(t, answer) /\ \A g \in Handle \ {h} : t.files[g] = files[g]
    BY <1>9, <2>1, <2>2
  <2>4. /\ CalmInv'
        /\ SeenFile = F!Overlaid(disk, files[h].at, files[h].behind)
        /\ SeenFile' = F!Overlaid(t.disk, t.files[h].at, t.files[h].behind)
        /\ SeenPlaces[h] = Where(files[h])
        /\ SeenPlaces' = [SeenPlaces EXCEPT ![h] = Where(t.files[h])]
        /\ SeenAnswer' = answer
    BY <1>1, <1>8, <1>11, <2>3, CalmBecome
  <2> QED BY <2>2, <2>4
<1>13. SeenFile = x /\ SeenFile' = x
  BY <1>3, <1>6, <1>9, <1>10, <1>12 DEF F!Overlaid
<1>14. SeenPlaces[h] = Pos(s.files[h]) /\ SeenPlaces[h] # -1
  BY <1>1, <1>3, <1>12, PosIs
<1>15. Where(t.files[h]) = target
  BY <1>5, <1>10, NoString DEF Where, Pos
<1>16. target = Exact!Base(origin, SeenPlaces[h], SeenFile) + off
  <2>1. PICK f \in FileType : f = s.files[h]
    BY <1>3 DEF SoundState
  <2>2. /\ f.at \in Nat /\ Len(f.ahead) \in Nat /\ Len(x) \in Nat /\ off \in Int
    BY <2>1, StringIs, CallsAssumption DEF FileType
  <2>3. SeenPlaces[h] = f.at - Len(f.ahead)
    BY <1>3, <1>14, <2>1, <2>2, NoString DEF Pos
  <2>4. target = F!Base(origin, f.at, x) + (IF origin = "CUR" THEN off - Len(f.ahead) ELSE off)
    BY <1>4, <1>6, <2>1
  <2>5. CASE origin = "SET"
    BY <1>13, <2>2, <2>4, <2>5 DEF F!Base, Exact!Base
  <2>6. CASE origin = "CUR"
    <3>1. target = f.at + (off - Len(f.ahead))
      BY <2>4, <2>6 DEF F!Base
    <3>2. Exact!Base(origin, SeenPlaces[h], SeenFile) = f.at - Len(f.ahead)
      BY <2>3, <2>6 DEF Exact!Base
    <3> QED BY <2>2, <3>1, <3>2
  <2>7. CASE origin = "END"
    BY <1>13, <2>2, <2>4, <2>7 DEF F!Base, Exact!Base
  <2> QED BY <2>5, <2>6, <2>7 DEF F!Origins
<1>17. SeenFile' = SeenFile /\ ~(target < 0)
  BY <1>5, <1>13
<1> QED
  BY <1>12, <1>14, <1>15, <1>16, <1>17 DEF Exact!Seek, Exact!Shut, Exact!Answer, Answer

\* A read: what was read ahead, then what the file has.
LEMMA ReadShows ==
  ASSUME FileInv, CalmInv, calm, NEW h \in Handle, NEW want \in Wants, Read(h, want)
  PROVE  CalmInv' /\ Exact!Read(h, want)
<1>1. files[h].open /\ \A g \in Handle : ~FlushFails(State, g, {})
  BY DEF Read, FlushFails
<1>2. PICK s : s = FlushedAliases(Flushed(State, h, {}), h, {})
  OBVIOUS
<1>3. PICK v : v = Served(s, h, want)
  OBVIOUS
<1>4. Become([s EXCEPT !.files[h].at = v.at, !.files[h].ahead = v.ahead],
             Answer("read", Len(v.data), v.data))
  BY <1>2, <1>3, CalmBad DEF Read, FlushFails, MayFail
<1>5. \A g \in Handle \ {h} : files[g] = Closed
  <2>1. \A g \in Handle : Sound(files[g])
    BY StateFacts
  <2> QED BY <1>1, <2>1 DEF CalmInv, Sound
<1>6. Undisputed
  <2>1. \A g \in Handle \ {h} : Pending(files[g]) = {}
    BY <1>5 DEF Pending, Closed
  <2> QED BY <2>1 DEF Undisputed
<1>7. /\ SoundState(s) /\ s.disk = Merged
      /\ s.files[h] = Emptied(files[h], h, {})
  BY <1>1, <1>2, <1>6, ServedFrom
<1>8. PICK own : own = Flushed(State, h, {})
  OBVIOUS
<1>9. /\ SoundState(own)
      /\ own.disk = F!Overlaid(disk, files[h].at, files[h].behind)
      /\ \A g \in Handle \ {h} : own.files[g] = files[g]
      /\ own.files[h].behind = <<>> /\ own.files[h].open
      /\ Pos(own.files[h]) = Pos(files[h])
      /\ AheadRight(own.files[h], own.disk)
  BY <1>1, <1>8, CalmFacts, FlushShows
<1>10. s.disk = own.disk /\ s.files[h] = own.files[h] /\ \A g \in Handle \ {h} : s.files[g] = files[g]
  <2>1. Dirty(own.files, Handle \ {h}) \ {} = {}
    BY <1>5, <1>9, ClosedSound DEF Dirty
  <2>2. AllLanded(own.disk, own.files, {}) = own.disk
    BY <1>9, NoneLanded DEF SoundState
  <2>3. s.disk = own.disk
    BY <1>2, <1>8, <2>1, <2>2 DEF FlushedAliases, FlushedIn
  <2>4. s.files[h] = own.files[h]
    BY <1>2, <1>8 DEF FlushedAliases, FlushedIn
  <2>5. ASSUME NEW g \in Handle \ {h} PROVE s.files[g] = files[g]
    <3>1. s.files[g] = Emptied(own.files[g], g, {})
      BY <1>2, <1>8 DEF FlushedAliases, FlushedIn
    <3>2. own.files[g] = Closed
      BY <1>5, <1>9
    <3> QED BY <1>5, <3>1, <3>2, ClosedSound, EmptiedIs
  <2> QED BY <2>3, <2>4, <2>5
<1>11. PICK x \in String, y \in [Handle -> FileType] : s = [disk |-> x, files |-> y]
  BY <1>7 DEF SoundState
<1>12. /\ y[h].behind = <<>> /\ y[h].open /\ y[h].at \in Nat /\ y[h].ahead \in String
       /\ Len(y[h].ahead) < FILE_BUF /\ Len(y[h].ahead) <= y[h].at /\ AheadRight(y[h], x)
       /\ Pos(y[h]) = Pos(files[h])
  <2>1. y[h] = own.files[h] /\ x = own.disk /\ y[h] \in FileType
    BY <1>10, <1>11
  <2>2. Sound(y[h])
    BY <1>9, <2>1 DEF SoundState
  <2> QED BY <1>9, <2>1, <2>2 DEF Sound, FileType
<1>13. want \in Nat
  BY CallsAssumption
<1>14. /\ v.data = F!Slice(x, y[h].at - Len(y[h].ahead), want)
       /\ v.at - Len(v.ahead) = y[h].at - Len(y[h].ahead) + Len(v.data)
       /\ AheadRight(v, x)
       /\ v.data \in String /\ v.at \in Nat /\ v.ahead \in String
       /\ Len(v.ahead) < FILE_BUF /\ Len(v.ahead) <= v.at
  BY <1>3, <1>11, <1>12, <1>13, ServedRight, ServedType
<1>15. PICK f : f = [[y[h] EXCEPT !.at = v.at] EXCEPT !.ahead = v.ahead]
  OBVIOUS
<1>16. f \in FileType /\ f.at = v.at /\ f.ahead = v.ahead /\ f.behind = <<>> /\ f.open
  <2>1. y[h] \in FileType
    BY <1>11
  <2> QED BY <1>12, <1>14, <1>15, <2>1 DEF FileType
<1>17. Sound(f) /\ AheadRight(f, x)
  BY <1>14, <1>16, NoString DEF Sound, AheadRight
<1>18. PICK t : t = [disk |-> x, files |-> [s.files EXCEPT ![h] = f]]
  OBVIOUS
<1>19. Become(t, Answer("read", Len(v.data), v.data))
  <2>1. [s EXCEPT !.files[h].at = v.at, !.files[h].ahead = v.ahead]
          = [s EXCEPT !.files = [y EXCEPT ![h] = f]]
    BY <1>11, <1>15
  <2>2. [s EXCEPT !.files[h].at = v.at, !.files[h].ahead = v.ahead] = t
    BY <1>11, <1>18, <2>1
  <2> QED BY <1>4, <2>2
<1>20. SoundState(t)
  BY <1>7, <1>16, <1>17, <1>18, ChangedSound
<1>21. t.disk = x /\ t.files[h] = f /\ \A g \in Handle \ {h} : t.files[g] = files[g]
  BY <1>10, <1>11, <1>18
<1>22. /\ CalmInv'
       /\ SeenFile = F!Overlaid(disk, files[h].at, files[h].behind)
       /\ SeenFile' = F!Overlaid(x, f.at, f.behind)
       /\ SeenPlaces[h] = Where(files[h])
       /\ SeenPlaces' = [SeenPlaces EXCEPT ![h] = Where(f)]
       /\ SeenAnswer' = Answer("read", Len(v.data), v.data)
  <2>1. AheadRight(t.files[h], t.disk)
    BY <1>17, <1>21
  <2>2. /\ CalmInv'
        /\ SeenFile = F!Overlaid(disk, files[h].at, files[h].behind)
        /\ SeenFile' = F!Overlaid(t.disk, t.files[h].at, t.files[h].behind)
        /\ SeenPlaces[h] = Where(files[h])
        /\ SeenPlaces' = [SeenPlaces EXCEPT ![h] = Where(t.files[h])]
        /\ SeenAnswer' = Answer("read", Len(v.data), v.data)
    BY <1>1, <1>19, <1>20, <1>21, <2>1, CalmBecome
  <2> QED BY <1>21, <2>2
<1>23. SeenFile = x /\ SeenFile' = SeenFile
  BY <1>9, <1>10, <1>11, <1>16, <1>22 DEF F!Overlaid
<1>24. /\ SeenPlaces[h] = Pos(files[h]) /\ SeenPlaces[h] # -1
       /\ Pos(files[h]) = y[h].at - Len(y[h].ahead)
  <2>1. Len(y[h].ahead) \in Nat
    BY <1>12, StringIs
  <2>2. Pos(y[h]) = y[h].at - Len(y[h].ahead)
    BY <1>12, <2>1, NoString DEF Pos
  <2> QED BY <1>1, <1>12, <1>22, <2>2, PosIs
<1>25. v.data = Exact!Slice(SeenFile, SeenPlaces[h], want)
  BY <1>14, <1>23, <1>24 DEF F!Slice, F!Min, Exact!Slice, Exact!Min
<1>26. Where(f) = SeenPlaces[h] + Len(v.data)
  <2>1. Len(v.ahead) \in Nat /\ v.at \in Nat /\ Len(v.data) \in Nat
    BY <1>14, StringIs
  <2>2. Where(f) = v.at - Len(v.ahead)
    BY <1>16, <2>1, NoString DEF Where, Pos
  <2> QED BY <1>14, <1>24, <2>2
<1> QED
  BY <1>22, <1>23, <1>24, <1>25, <1>26 DEF Exact!Read, Exact!Shut, Exact!Answer, Answer

\* Giving back what was read ahead changes nothing the program sees.
LEMMA UnreadShows ==
  ASSUME FileInv, CalmInv, calm, NEW h \in Handle, files[h].open,
         NEW u, u = Unread(State, h)
  PROVE  /\ SoundState(u) /\ u.disk = disk
         /\ \A g \in Handle \ {h} : u.files[g] = files[g]
         /\ u.files[h].open /\ u.files[h].ahead = <<>> /\ Pos(u.files[h]) = Pos(files[h])
         /\ u.files[h].behind = files[h].behind
         /\ F!Overlaid(disk, u.files[h].at, u.files[h].behind)
              = F!Overlaid(disk, files[h].at, files[h].behind)
<1>1. /\ SoundState(u) /\ u.disk = disk
      /\ u.files = [files EXCEPT ![h].at = @ - Len(files[h].ahead), ![h].ahead = <<>>]
  BY StateFacts, UnreadSound
<1>2. files[h] \in FileType /\ Sound(files[h]) /\ files \in [Handle -> FileType]
  BY StateFacts
<1>3. PICK f \in FileType : f = files[h]
  BY <1>2
<1>4. u.files[h] = [[f EXCEPT !.at = f.at - Len(f.ahead)] EXCEPT !.ahead = <<>>]
  BY <1>1, <1>2, <1>3
<1>5. /\ u.files[h].open /\ u.files[h].ahead = <<>> /\ u.files[h].behind = f.behind
      /\ u.files[h].at = f.at - Len(f.ahead)
  BY <1>3, <1>4 DEF FileType
<1>6. f.at \in Nat /\ Len(f.ahead) \in Nat /\ Len(f.behind) \in Nat
  BY <1>3, StringIs DEF FileType
<1>7. Pos(u.files[h]) = Pos(f)
  BY <1>5, <1>6, NoString DEF Pos
<1>8. F!Overlaid(disk, u.files[h].at, f.behind) = F!Overlaid(disk, f.at, f.behind)
  <2>1. CASE f.behind = <<>>
    BY <2>1 DEF F!Overlaid
  <2>2. CASE f.behind # <<>>
    <3>1. Len(f.ahead) = 0
      BY <1>2, <1>3, <2>2, NoString DEF Sound
    <3>2. u.files[h].at = f.at
      BY <1>5, <1>6, <3>1
    <3> QED BY <3>2
  <2> QED BY <2>1, <2>2
<1>9. \A g \in Handle \ {h} : u.files[g] = files[g]
  BY <1>1, <1>2
<1> QED BY <1>1, <1>3, <1>5, <1>7, <1>8, <1>9

\* A write shows if what comes of it reads as the file with the string laid over it.
LEMMA WrittenShows ==
  ASSUME FileInv, CalmInv, calm, NEW h \in Handle, files[h].open, NEW d \in String,
         NEW t, SoundState(t), Become(t, Answer("write", Len(d), <<>>)),
         \A g \in Handle \ {h} : t.files[g] = files[g],
         t.files[h].open, t.files[h].ahead = <<>>,
         Pos(t.files[h]) = Pos(files[h]) + Len(d),
         F!Overlaid(t.disk, t.files[h].at, t.files[h].behind)
           = F!Overlaid(F!Overlaid(disk, files[h].at, files[h].behind), Pos(files[h]), d)
  PROVE  CalmInv' /\ Exact!Write(h, d)
<1>1. AheadRight(t.files[h], t.disk)
  BY DEF AheadRight
<1>2. PICK answer : answer = Answer("write", Len(d), <<>>)
  OBVIOUS
<1>3. /\ CalmInv'
      /\ SeenFile = F!Overlaid(disk, files[h].at, files[h].behind)
      /\ SeenFile' = F!Overlaid(t.disk, t.files[h].at, t.files[h].behind)
      /\ SeenPlaces[h] = Where(files[h])
      /\ SeenPlaces' = [SeenPlaces EXCEPT ![h] = Where(t.files[h])]
      /\ SeenAnswer' = answer
  BY <1>1, <1>2, CalmBecome
<1>4. SeenPlaces[h] = Pos(files[h]) /\ SeenPlaces[h] # -1
  BY <1>3, PosIs
<1>5. Where(t.files[h]) = SeenPlaces[h] + Len(d)
  BY <1>4 DEF Where
<1>6. SeenFile' = Exact!Overlaid(SeenFile, SeenPlaces[h], d)
  <2>1. PICK o : o = F!Overlaid(disk, files[h].at, files[h].behind)
    OBVIOUS
  <2>2. PICK p : p = Pos(files[h])
    OBVIOUS
  <2>3. F!Overlaid(o, p, d) = Exact!Overlaid(o, p, d)
    BY DEF F!Overlaid, F!Max, Exact!Overlaid, Exact!Max
  <2>4. SeenFile' = F!Overlaid(o, p, d)
    BY <1>3, <2>1, <2>2
  <2> QED BY <1>3, <1>4, <2>1, <2>2, <2>3, <2>4
<1> QED
  BY <1>2, <1>3, <1>4, <1>5, <1>6 DEF Exact!Write, Exact!Shut, Exact!Answer, Answer

\* A write: buffered, spilled or past the buffer.
LEMMA WriteShows ==
  ASSUME FileInv, CalmInv, calm, NEW h \in Handle, NEW d \in Data, Write(h, d)
  PROVE  CalmInv' /\ Exact!Write(h, d)
<1> DEFINE seen == F!Overlaid(disk, files[h].at, files[h].behind)
<1>1. files[h].open
  BY DEF Write
<1>2. d \in String /\ Len(d) \in Nat
  BY CallsAssumption, StringIs DEF String
<1>3. PICK u : u = Unread(State, h)
  OBVIOUS
<1>4. /\ SoundState(u) /\ u.disk = disk
      /\ \A g \in Handle \ {h} : u.files[g] = files[g]
      /\ u.files[h].open /\ u.files[h].ahead = <<>> /\ Pos(u.files[h]) = Pos(files[h])
      /\ F!Overlaid(disk, u.files[h].at, u.files[h].behind) = seen
  BY <1>1, <1>3, UnreadShows
<1>5. PICK s : s = IF Len(u.files[h].behind) + Len(d) > FILE_BUF THEN Flushed(u, h, {}) ELSE u
  OBVIOUS
<1>6. /\ SoundState(s)
      /\ \A g \in Handle \ {h} : s.files[g] = files[g]
      /\ s.files[h].open /\ s.files[h].ahead = <<>> /\ Pos(s.files[h]) = Pos(files[h])
      /\ F!Overlaid(s.disk, s.files[h].at, s.files[h].behind) = seen
      /\ Len(s.files[h].behind) + Len(d) <= FILE_BUF \/ s.files[h].behind = <<>>
  <2>1. AheadRight(u.files[h], u.disk)
    BY <1>4 DEF AheadRight
  <2>2. CASE Len(u.files[h].behind) + Len(d) > FILE_BUF
    <3>1. /\ SoundState(s)
          /\ s.disk = F!Overlaid(u.disk, u.files[h].at, u.files[h].behind)
          /\ \A g \in Handle \ {h} : s.files[g] = u.files[g]
          /\ s.files[h].behind = <<>> /\ s.files[h].ahead = u.files[h].ahead
          /\ s.files[h].open = u.files[h].open
          /\ Pos(s.files[h]) = Pos(u.files[h])
      <4>1. s = Flushed(u, h, {})
        BY <1>5, <2>2
      <4>2. SoundState(u)
        BY <1>4
      <4> QED BY <2>1, <4>1, <4>2, FlushShows
    <3>2. F!Overlaid(s.disk, s.files[h].at, s.files[h].behind) = seen
      BY <1>4, <3>1 DEF F!Overlaid
    <3> HIDE DEF seen
    <3> QED BY <1>4, <3>1, <3>2
  <2>3. CASE ~(Len(u.files[h].behind) + Len(d) > FILE_BUF)
    <3>1. s = u
      BY <1>5, <2>3
    <3>2. Len(u.files[h].behind) \in Nat
      BY <1>4, StringIs DEF SoundState, FileType
    <3>3. Len(u.files[h].behind) + Len(d) <= FILE_BUF
      BY <1>2, <2>3, <3>2, NoString
    <3> HIDE DEF seen
    <3> QED BY <1>4, <3>1, <3>3
  <2> QED BY <2>2, <2>3
<1> HIDE DEF seen
<1>7. PICK answer : answer = Answer("write", Len(d), <<>>)
  OBVIOUS
<1>8. \/ d = <<>> /\ Become(u, answer)
      \/ d # <<>> /\ Len(d) < FILE_BUF /\ Become([s EXCEPT !.files[h].behind = @ \o d], answer)
      \/ /\ d # <<>> /\ Len(d) >= FILE_BUF
         /\ Become([s EXCEPT !.disk = F!Overlaid(s.disk, s.files[h].at, d),
                             !.files[h].at = @ + Len(d)], answer)
  BY <1>3, <1>5, <1>7, CalmBad DEF Write, FlushFails, MayFail
<1>9. PICK x \in String, y \in [Handle -> FileType] : s = [disk |-> x, files |-> y]
  BY <1>6 DEF SoundState
<1>10. /\ y[h] \in FileType /\ y[h].at \in Nat /\ y[h].behind \in String /\ Len(y[h].behind) \in Nat
       /\ y[h].open /\ y[h].ahead = <<>>
       /\ Pos(files[h]) = y[h].at + Len(y[h].behind)
       /\ F!Overlaid(x, y[h].at, y[h].behind) = seen
       /\ Len(y[h].behind) + Len(d) <= FILE_BUF \/ y[h].behind = <<>>
       /\ y[h].behind = <<>> <=> Len(y[h].behind) = 0
  <2>1. /\ y[h] \in FileType /\ y[h].at \in Nat /\ y[h].behind \in String
        /\ Len(y[h].behind) \in Nat /\ y[h].behind = <<>> <=> Len(y[h].behind) = 0
    BY StringIs DEF FileType
  <2>2. Pos(y[h]) = y[h].at + Len(y[h].behind)
    BY <1>6, <1>9, <2>1, NoString DEF Pos
  <2> QED BY <1>6, <1>9, <2>1, <2>2
<1>11. CASE d = <<>> /\ Become(u, answer)
  <2>1. F!Overlaid(u.disk, u.files[h].at, u.files[h].behind)
          = F!Overlaid(seen, Pos(files[h]), d)
    BY <1>4, <1>11 DEF F!Overlaid
  <2>2. Pos(u.files[h]) = Pos(files[h]) + Len(d)
    BY <1>1, <1>4, <1>11, NoString, PosIs
  <2>3. Become(u, Answer("write", Len(d), <<>>))
    BY <1>7, <1>11
  <2> QED BY <1>1, <1>2, <1>4, <2>1, <2>2, <2>3, WrittenShows DEF seen
<1>12. CASE d # <<>> /\ Len(d) < FILE_BUF /\ Become([s EXCEPT !.files[h].behind = @ \o d], answer)
  <2>1. PICK b \in String : b = y[h].behind \o d /\ Len(b) = Len(y[h].behind) + Len(d)
    BY <1>2, <1>10, JoinedIs
  <2>2. PICK f : f = [y[h] EXCEPT !.behind = b]
    OBVIOUS
  <2>3. /\ f \in FileType /\ f.ahead = <<>> /\ f.at = y[h].at /\ f.open /\ f.behind = b
    BY <1>10, <2>1, <2>2 DEF FileType
  <2>4. Len(b) <= FILE_BUF
    BY <1>2, <1>10, <1>12, <2>1, NoString
  <2>5. Sound(f)
    BY <2>3, <2>4, <1>10, NoString DEF Sound
  <2>6. PICK t : t = [disk |-> x, files |-> [s.files EXCEPT ![h] = f]]
    OBVIOUS
  <2>7. Become(t, answer)
    <3>1. [s EXCEPT !.files[h].behind = @ \o d] = [s EXCEPT !.files = [y EXCEPT ![h] = f]]
      BY <1>9, <2>1, <2>2
    <3>2. [s EXCEPT !.files[h].behind = @ \o d] = t
      BY <1>9, <2>6, <3>1
    <3> QED BY <1>12, <3>2
  <2>8. SoundState(t)
    BY <1>6, <1>9, <2>3, <2>5, <2>6, ChangedSound
  <2>9. t.disk = x /\ t.files[h] = f /\ \A g \in Handle \ {h} : t.files[g] = files[g]
    BY <1>6, <1>9, <2>6
  <2>10. F!Overlaid(x, f.at, f.behind) = F!Overlaid(seen, Pos(files[h]), d)
    <3>1. PICK p \in Nat, a \in String : p = y[h].at /\ a = y[h].behind
      BY <1>10
    <3>2. x \in String /\ d \in String
      BY <1>2, <1>9
    <3>4. p \in Nat /\ a \in String
      BY <3>1
    <3>3. F!Overlaid(F!Overlaid(x, p, a), p + Len(a), d) = F!Overlaid(x, p, a \o d)
      BY <3>2, <3>4, OverlaidTwice
    <3> QED BY <1>10, <2>1, <2>3, <3>1, <3>3
  <2>11. Pos(f) = Pos(files[h]) + Len(d)
    BY <1>2, <1>10, <2>1, <2>3, NoString DEF Pos
  <2> QED
    BY <1>1, <1>2, <1>7, <2>3, <2>7, <2>8, <2>9, <2>10, <2>11, WrittenShows DEF seen
<1>13. CASE /\ d # <<>> /\ Len(d) >= FILE_BUF
            /\ Become([s EXCEPT !.disk = F!Overlaid(s.disk, s.files[h].at, d),
                                !.files[h].at = @ + Len(d)], answer)
  <2>1. y[h].behind = <<>> /\ Len(y[h].behind) = 0
    <3>1. Len(y[h].behind) + Len(d) <= FILE_BUF => Len(y[h].behind) = 0
      BY <1>2, <1>10, <1>13, NoString
    <3> QED BY <1>10, <3>1
  <2>2. x = seen /\ Pos(files[h]) = y[h].at
    BY <1>10, <2>1 DEF F!Overlaid
  <2>3. PICK z \in String : z = F!Overlaid(x, y[h].at, d)
    BY <1>2, <1>10, OverlaidType
  <2>4. PICK n \in Nat : n = y[h].at + Len(d)
    BY <1>2, <1>10
  <2>5. PICK f : f = [y[h] EXCEPT !.at = n]
    OBVIOUS
  <2>6. f \in FileType /\ f.ahead = <<>> /\ f.at = n /\ f.open /\ f.behind = <<>>
    BY <1>10, <2>1, <2>4, <2>5 DEF FileType
  <2>7. Sound(f)
    BY <2>6, NoString DEF Sound
  <2>8. PICK w : w = [y EXCEPT ![h] = f]
    OBVIOUS
  <2>9. PICK t : t = [disk |-> z, files |-> [s.files EXCEPT ![h] = f]]
    OBVIOUS
  <2>10. t = [disk |-> z, files |-> w]
    BY <1>9, <2>8, <2>9
  <2>11. Become(t, answer)
    <3>1. s.disk = x /\ s.files = y /\ z = F!Overlaid(s.disk, s.files[h].at, d)
      BY <1>9, <2>3
    <3>2. [s EXCEPT !.disk = F!Overlaid(s.disk, s.files[h].at, d), !.files[h].at = @ + Len(d)]
            = [s EXCEPT !.disk = z, !.files = [y EXCEPT ![h].at = n]]
      BY <2>4, <3>1, Zenon
    <3>3. [y EXCEPT ![h].at = n] = w
      BY <2>5, <2>8
    <3>4. [s EXCEPT !.disk = z, !.files = w] = [disk |-> z, files |-> w]
      BY <1>9, BothChanged
    <3>5. [s EXCEPT !.disk = F!Overlaid(s.disk, s.files[h].at, d), !.files[h].at = @ + Len(d)] = t
      BY <2>10, <3>2, <3>3, <3>4
    <3> QED BY <1>13, <3>5
  <2>12. SoundState(t)
    BY <1>6, <2>3, <2>6, <2>7, <2>9, ChangedSound
  <2>13. t.disk = z /\ t.files[h] = f /\ \A g \in Handle \ {h} : t.files[g] = files[g]
    BY <1>6, <1>9, <2>8, <2>10
  <2>14. F!Overlaid(z, f.at, f.behind) = F!Overlaid(seen, Pos(files[h]), d)
    <3>1. F!Overlaid(z, f.at, f.behind) = z
      BY <2>6 DEF F!Overlaid
    <3> QED BY <2>2, <2>3, <3>1
  <2>15. Pos(f) = Pos(files[h]) + Len(d)
    BY <1>2, <1>10, <2>2, <2>4, <2>6, NoString DEF Pos
  <2> QED
    BY <1>1, <1>2, <1>7, <2>6, <2>11, <2>12, <2>13, <2>14, <2>15, WrittenShows DEF seen
<1> QED BY <1>8, <1>11, <1>12, <1>13

\* Every step is a step of the file with no buffer, or none at all.
LEMMA CalmKeeps ==
  FileInv /\ CalmInv /\ [Next]_vars =>
    CalmInv' /\ [Exact!Next]_<<SeenFile, SeenPlaces, SeenAnswer>>
<1> SUFFICES ASSUME FileInv, CalmInv, [Next]_vars
             PROVE  CalmInv' /\ [Exact!Next]_<<SeenFile, SeenPlaces, SeenAnswer>>
  OBVIOUS
<1>1. CASE ~calm
  <2>1. ~calm'
    <3>1. ASSUME NEW h \in Handle, NEW create \in BOOLEAN, Open(h, create) PROVE calm' = calm
      BY <3>1 DEF Open, Become
    <3>2. ASSUME NEW h \in Handle, Close(h) PROVE calm' = calm
      BY <3>2 DEF Close, Become
    <3>3. ASSUME NEW h \in Handle, NEW want \in Wants, Read(h, want) PROVE calm' = calm
      BY <3>3 DEF Read, Become
    <3>4. ASSUME NEW h \in Handle, NEW d \in Data, Write(h, d) PROVE calm' = calm
      BY <3>4 DEF Write, Become
    <3>5. ASSUME NEW h \in Handle, NEW off \in Offs, NEW origin \in F!Origins,
                 Seek(h, off, origin)
          PROVE  calm' = calm
      BY <3>5 DEF Seek, Become
    <3>6. CASE CloseAll
      BY <1>1, <3>6 DEF CloseAll, Become
    <3>7. CASE UNCHANGED vars
      BY <1>1, <3>7 DEF vars
    <3> QED BY <1>1, <3>1, <3>2, <3>3, <3>4, <3>5, <3>6, <3>7 DEF Next
  <2>2. UNCHANGED <<SeenFile, SeenPlaces, SeenAnswer>>
    BY <1>1, <2>1 DEF SeenFile, SeenPlaces, SeenAnswer
  <2> QED BY <2>1, <2>2 DEF CalmInv
<1>2. CASE calm /\ UNCHANGED vars
  <2>1. UNCHANGED <<SeenFile, SeenPlaces, SeenAnswer>>
    BY <1>2 DEF vars, SeenFile, SeenPlaces, SeenAnswer, Merged
  <2>2. CalmInv'
    BY <1>2 DEF vars, CalmInv
  <2> QED BY <2>1, <2>2
<1>3. CASE calm /\ Next
  <2>1. ASSUME NEW h \in Handle, NEW create \in BOOLEAN, Open(h, create)
        PROVE  CalmInv' /\ Exact!Next
    BY <1>3, <2>1, OpenShows DEF Exact!Next, Handle
  <2>2. ASSUME NEW h \in Handle, Close(h) PROVE CalmInv' /\ Exact!Next
    BY <1>3, <2>2, CloseShows DEF Exact!Next, Handle
  <2>3. ASSUME NEW h \in Handle, NEW want \in Wants, Read(h, want) PROVE CalmInv' /\ Exact!Next
    BY <1>3, <2>3, ReadShows DEF Exact!Next, Handle
  <2>4. ASSUME NEW h \in Handle, NEW d \in Data, Write(h, d) PROVE CalmInv' /\ Exact!Next
    BY <1>3, <2>4, WriteShows DEF Exact!Next, Handle
  <2>5. ASSUME NEW h \in Handle, NEW off \in Offs, NEW origin \in F!Origins, Seek(h, off, origin)
        PROVE  CalmInv' /\ Exact!Next
    <3>1. origin \in Exact!Origins
      BY DEF F!Origins, Exact!Origins
    <3> QED BY <1>3, <2>5, <3>1, SeekShows DEF Exact!Next, Handle
  <2>6. CASE CloseAll
    BY <1>3, <2>6, CloseAllShows DEF Exact!Next
  <2> QED BY <1>3, <2>1, <2>2, <2>3, <2>4, <2>5, <2>6 DEF Next
<1> QED BY <1>1, <1>2, <1>3

\* And so is the beginning.
LEMMA FilesStartExact == Init => CalmInv /\ Exact!Init
<1> SUFFICES ASSUME Init PROVE CalmInv /\ Exact!Init
  OBVIOUS
<1>1. /\ disk \in String /\ files \in [Handle -> FileType] /\ files = [h \in Handle |-> Closed]
      /\ ret = Answer("exit", 0, <<>>) /\ disk \in {<<>>} \cup Data
  BY FilesStart, StateFacts DEF Init
<1>2. CalmInv
  BY <1>1, ClosedSound DEF CalmInv, AheadRight
<1>3. Merged = disk
  <2>1. Dirty(files, Handle) = {}
    BY <1>1, ClosedSound DEF Dirty
  <2> QED BY <1>1, <2>1, NoneLanded DEF Merged
<1>4. SeenFile \in {<<>>} \cup Data
  BY <1>1, <1>3 DEF SeenFile
<1>5. SeenPlaces = [h \in 1 .. N |-> -1]
  BY <1>1, ClosedSound DEF SeenPlaces, Handle
<1>6. SeenAnswer = Answer("exit", 0, <<>>)
  BY <1>1 DEF SeenAnswer
<1> QED BY <1>2, <1>4, <1>5, <1>6 DEF Exact!Init, Exact!Shut, Exact!Answer, Answer

(* Refinement: in the everyday case every answer, every position and every *)
(* byte are those of a file with no buffer, whatever the buffer's size.    *)
THEOREM FilesAreExact == Spec => ExactSpec
<1>1. Spec => [](FileInv /\ CalmInv)
  BY FilesStart, FilesStartExact, FilesKeep, CalmKeeps, PTL DEF Spec
<1> QED
  BY <1>1, FilesStartExact, CalmKeeps, PTL DEF Spec, ExactSpec, Exact!Spec, Exact!specvars
=============================================================================
