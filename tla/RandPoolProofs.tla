---------------------------- MODULE RandPoolProofs ----------------------------
(* The levels of the random pools are never overstated, whatever interrupts     *)
(* what, and exact when nothing interrupts rand_get; nobody who asked first is  *)
(* given the 0 of an empty ring; and a FIDO2 message carried through again gets *)
(* the words it got before.                                                     *)
EXTENDS RandPool, SequenceTheorems, TLAPS

USE RandPoolAssumption DEF Sources

------------------------------------------------------------------------------
(* Arithmetic round the ring. *)

LEMMA SlotIs ==
    ASSUME NEW i \in Slots
    PROVE  i \in Int /\ 0 <= i /\ i < Size
BY DEF Slots

(* The next index, without the remainder. *)
LEMMA SuccIs ==
    ASSUME NEW i \in Slots
    PROVE  /\ Succ(i) = IF i = Size - 1 THEN 0 ELSE i + 1
           /\ Succ(i) \in Slots
  <1> USE DEF Slots
  <1>1. CASE i = Size - 1
    <2>1. (i + 1) % Size = 0 BY <1>1
    <2> QED BY <1>1, <2>1 DEF Succ
  <1>2. CASE i # Size - 1
    <2>1. i + 1 \in 0 .. Size - 1 BY <1>2
    <2>2. (i + 1) % Size = i + 1 BY <2>1
    <2> QED BY <1>2, <2>1, <2>2 DEF Succ
  <1> QED BY <1>1, <1>2

(* The way from one index to another, without the remainder. *)
LEMMA DistanceIs ==
    ASSUME NEW i \in Slots, NEW j \in Slots
    PROVE  /\ Distance(i, j) = IF j >= i THEN j - i ELSE j - i + Size
           /\ Distance(i, j) \in Slots
  <1> USE DEF Slots
  <1>1. CASE j >= i
    <2>1. j - i \in 0 .. Size - 1 BY <1>1
    <2>2. (j - i) % Size = j - i BY <2>1
    <2> QED BY <1>1, <2>1, <2>2 DEF Distance
  <1>2. CASE ~(j >= i)
    <2>1. j - i + Size \in 0 .. Size - 1 BY <1>2
    <2>2. (j - i) % Size = j - i + Size BY <1>2, <2>1
    <2> QED BY <1>2, <2>1, <2>2 DEF Distance
  <1> QED BY <1>1, <1>2

(* A step on at the far end lengthens the way, at the near end shortens it.     *)
LEMMA FarEnd ==
    ASSUME NEW i \in Slots, NEW j \in Slots, Succ(j) # i
    PROVE  Distance(i, Succ(j)) = Distance(i, j) + 1
  <1> DEFINE k == Succ(j)  d == Distance(i, j)  e == Distance(i, k)
  <1>1. k \in Slots /\ k = IF j = Size - 1 THEN 0 ELSE j + 1 BY SuccIs
  <1>2. d = IF j >= i THEN j - i ELSE j - i + Size BY DistanceIs
  <1>3. e = IF k >= i THEN k - i ELSE k - i + Size BY <1>1, DistanceIs
  <1>4. k # i OBVIOUS
  <1> HIDE DEF k, d, e
  <1>5. e = d + 1 BY <1>1, <1>2, <1>3, <1>4 DEF Slots
  <1> QED BY <1>5 DEF k, d, e

LEMMA NearEnd ==
    ASSUME NEW i \in Slots, NEW j \in Slots, i # j
    PROVE  Distance(Succ(i), j) = Distance(i, j) - 1
  <1> DEFINE k == Succ(i)  d == Distance(i, j)  e == Distance(k, j)
  <1>1. k \in Slots /\ k = IF i = Size - 1 THEN 0 ELSE i + 1 BY SuccIs
  <1>2. d = IF j >= i THEN j - i ELSE j - i + Size BY DistanceIs
  <1>3. e = IF j >= k THEN j - k ELSE j - k + Size BY <1>1, DistanceIs
  <1> HIDE DEF k, d, e
  <1>4. e = d - 1 BY <1>1, <1>2, <1>3 DEF Slots
  <1> QED BY <1>4 DEF k, d, e

(* An index between two others keeps its distance from the one after the last.  *)
LEMMA NotRound ==
    ASSUME NEW r \in Slots, NEW t \in Slots, NEW h \in Slots,
           Distance(r, t) + Distance(t, h) = Distance(r, h)
    PROVE  /\ Succ(h) # r => Succ(h) # t
           /\ t # h => Succ(t) # r
  <1> DEFINE a == Distance(r, t)  b == Distance(t, h)  d == Distance(r, h)
             k == Succ(h)  m == Succ(t)
  <1>1. /\ a = IF t >= r THEN t - r ELSE t - r + Size
        /\ b = IF h >= t THEN h - t ELSE h - t + Size
        /\ d = IF h >= r THEN h - r ELSE h - r + Size
    BY DistanceIs
  <1>2. k = IF h = Size - 1 THEN 0 ELSE h + 1 BY SuccIs
  <1>3. m = IF t = Size - 1 THEN 0 ELSE t + 1 BY SuccIs
  <1>4. a + b = d OBVIOUS
  <1> HIDE DEF a, b, d, k, m
  <1>5. k # r => k # t BY <1>1, <1>2, <1>4 DEF Slots
  <1>6. t # h => m # r BY <1>1, <1>3, <1>4 DEF Slots
  <1> QED BY <1>5, <1>6 DEF k, m

------------------------------------------------------------------------------
(* The operations on one ring. *)

(* A ring holds at most all slots but one. *)
LEMMA CountIs ==
    ASSUME NEW p \in Ring
    PROVE  /\ Count(p) \in Slots
           /\ Count(p) = 0 <=> p.head = p.tail
           /\ HasRewindPoint(p) => p.rewind_tail \in Slots
                                    /\ Distance(p.rewind_tail, p.head) \in Slots
  <1>1. p.head \in Slots /\ p.tail \in Slots /\ p.rewind_tail \in Slots \cup {-1}
    BY DEF Ring
  <1>2. HasRewindPoint(p) => p.rewind_tail \in Slots BY <1>1 DEF HasRewindPoint
  <1>3. Count(p) = Distance(p.tail, p.head) BY DEF Count
  <1>4. /\ Distance(p.tail, p.head) = IF p.head >= p.tail THEN p.head - p.tail
                                      ELSE p.head - p.tail + Size
        /\ Distance(p.tail, p.head) \in Slots
    BY <1>1, DistanceIs
  <1>5. HasRewindPoint(p) => Distance(p.rewind_tail, p.head) \in Slots
    BY <1>1, <1>2, DistanceIs
  <1>6. Count(p) = 0 <=> p.head = p.tail BY <1>1, <1>3, <1>4 DEF Slots
  <1> QED BY <1>2, <1>3, <1>4, <1>5, <1>6

(* A push adds one word, behind the rewind point too. *)
LEMMA PushedRing ==
    ASSUME NEW p \in Ring, InTurn(p), ~IsFull(p), NEW q, q = Pushed(p)
    PROVE  /\ q \in Ring /\ InTurn(q)
           /\ Count(q) = Count(p) + 1
           /\ q.level = p.level + 1
           /\ HasRewindPoint(q) <=> HasRewindPoint(p)
           /\ HasRewindPoint(p) =>
                /\ q.rewind_level = p.rewind_level + 1
                /\ Distance(q.rewind_tail, q.head) = Distance(p.rewind_tail, p.head) + 1
  <1> DEFINE h == p.head  t == p.tail  r == p.rewind_tail
  <1>1. /\ h \in Slots /\ t \in Slots /\ r \in Slots \cup {-1}
        /\ p.level \in Int /\ p.rewind_level \in Int /\ p.buf \in [Slots -> 0 .. 1]
    BY DEF Ring
  <1>2. Succ(h) \in Slots BY <1>1, SuccIs
  <1>3. /\ q.head = Succ(h) /\ q.tail = t /\ q.rewind_tail = r
        /\ q.level = p.level + 1
        /\ q.rewind_level = IF HasRewindPoint(p) THEN p.rewind_level + 1 ELSE p.rewind_level
    BY DEF Pushed, Ring
  <1>4. q \in Ring
    <2> DEFINE b == [p.buf EXCEPT ![h] = 1 - @]  k == Succ(h)  v == p.level + 1
               w == IF HasRewindPoint(p) THEN p.rewind_level + 1 ELSE p.rewind_level
    <2>1. b \in [Slots -> 0 .. 1] BY <1>1
    <2>2. k \in Slots /\ v \in Int /\ w \in Int BY <1>1, <1>2
    <2>3. q = [p EXCEPT !.buf = b, !.level = v, !.head = k, !.rewind_level = w]
      BY DEF Pushed
    <2> HIDE DEF b, k, v, w
    <2> QED BY <2>1, <2>2, <2>3 DEF Ring
  <1>5. Succ(h) # IF HasRewindPoint(p) THEN r ELSE t BY DEF IsFull, PushBase
  <1>6. Succ(h) # t
    <2>1. CASE HasRewindPoint(p)
      <3>1. r \in Slots /\ Distance(r, t) + Distance(t, h) = Distance(r, h)
        BY <1>1, <2>1 DEF InTurn, Count, HasRewindPoint
      <3> QED BY <1>1, <1>5, <2>1, <3>1, NotRound
    <2>2. CASE ~HasRewindPoint(p) BY <1>5, <2>2
    <2> QED BY <2>1, <2>2
  <1>7. Count(q) = Count(p) + 1
    BY <1>1, <1>3, <1>6, FarEnd DEF Count
  <1>8. HasRewindPoint(q) <=> HasRewindPoint(p) BY <1>3 DEF HasRewindPoint
  <1>9. ASSUME HasRewindPoint(p)
        PROVE  Distance(r, Succ(h)) = Distance(r, h) + 1
    <2>1. r \in Slots /\ Succ(h) # r BY <1>1, <1>5, <1>9 DEF HasRewindPoint
    <2> QED BY <1>1, <2>1, FarEnd
  <1>10. InTurn(q)
    <2> SUFFICES ASSUME HasRewindPoint(p)
                 PROVE  Distance(r, t) + Count(q) = Distance(r, Succ(h))
      BY <1>3, <1>8 DEF InTurn
    <2>1. Distance(r, t) + Count(p) = Distance(r, h) BY DEF InTurn
    <2>2. r \in Slots BY <1>1 DEF HasRewindPoint
    <2>3. Count(p) \in Int /\ Distance(r, t) \in Int /\ Distance(r, h) \in Int
      BY <1>1, <2>2, CountIs, DistanceIs, SlotIs
    <2> QED BY <1>7, <1>9, <2>1, <2>3
  <1> QED BY <1>3, <1>4, <1>7, <1>8, <1>9, <1>10

(* Moving the tail of a ring that is not empty takes one word out. *)
LEMMA MovedRing ==
    ASSUME NEW p \in Ring, InTurn(p), Count(p) >= 1, NEW q, q = TailMoved(p)
    PROVE  /\ q \in Ring /\ InTurn(q)
           /\ Count(q) = Count(p) - 1
           /\ q.level = p.level /\ q.rewind_level = p.rewind_level
           /\ q.rewind_tail = p.rewind_tail /\ q.head = p.head
           /\ HasRewindPoint(q) <=> HasRewindPoint(p)
  <1> DEFINE h == p.head  t == p.tail  r == p.rewind_tail
  <1>1. h \in Slots /\ t \in Slots /\ r \in Slots \cup {-1} BY DEF Ring
  <1>2. h # t BY CountIs
  <1>3. Succ(t) \in Slots BY <1>1, SuccIs
  <1>4. q = [p EXCEPT !.tail = Succ(t)] BY <1>2 DEF TailMoved
  <1>5. /\ q.head = h /\ q.tail = Succ(t) /\ q.rewind_tail = r
        /\ q.level = p.level /\ q.rewind_level = p.rewind_level
    BY <1>4 DEF Ring
  <1>6. q \in Ring BY <1>3, <1>4 DEF Ring
  <1>7. Count(q) = Count(p) - 1 BY <1>1, <1>2, <1>5, NearEnd DEF Count
  <1>8. HasRewindPoint(q) <=> HasRewindPoint(p) BY <1>5 DEF HasRewindPoint
  <1>9. InTurn(q)
    <2> SUFFICES ASSUME HasRewindPoint(p)
                 PROVE  Distance(r, Succ(t)) + Count(q) = Distance(r, h)
      BY <1>5, <1>8 DEF InTurn
    <2>1. r \in Slots /\ Distance(r, t) + Distance(t, h) = Distance(r, h)
      BY <1>1 DEF InTurn, Count, HasRewindPoint
    <2>2. Count(p) = Distance(t, h) BY DEF Count
    <2>3. Distance(r, Succ(t)) = Distance(r, t) + 1
      BY <1>1, <1>2, <2>1, FarEnd, NotRound
    <2>4. Distance(r, t) \in Int /\ Distance(t, h) \in Int
      BY <1>1, <2>1, DistanceIs, SlotIs
    <2> QED BY <1>7, <2>1, <2>2, <2>3, <2>4
  <1> QED BY <1>5, <1>6, <1>7, <1>8, <1>9

(* Rewinding gives back what was read since the rewind point; the new rewind    *)
(* point is the tail.                                                           *)
LEMMA RewoundRing ==
    ASSUME NEW p \in Ring, NEW q, q = WithRewindPoint(Rewound(p))
    PROVE  /\ q \in Ring /\ InTurn(q) /\ HasRewindPoint(q)
           /\ Count(q) = IF HasRewindPoint(p) THEN Distance(p.rewind_tail, p.head)
                                              ELSE Count(p)
           /\ q.level = IF HasRewindPoint(p) THEN p.rewind_level ELSE p.level
           /\ q.rewind_level = q.level
           /\ Distance(q.rewind_tail, q.head) = Count(q)
  <1> DEFINE m == Rewound(p)
  <1>1. /\ p.head \in Slots /\ p.tail \in Slots /\ p.level \in Int
        /\ p.rewind_tail \in Slots \cup {-1} /\ p.rewind_level \in Int
    BY DEF Ring
  <1>2. HasRewindPoint(p) => p.rewind_tail \in Slots BY <1>1 DEF HasRewindPoint
  <1>3. /\ m \in Ring /\ m.head = p.head
        /\ m.tail = IF HasRewindPoint(p) THEN p.rewind_tail ELSE p.tail
        /\ m.level = IF HasRewindPoint(p) THEN p.rewind_level ELSE p.level
    BY <1>1, <1>2 DEF Rewound, Ring
  <1>4. /\ q \in Ring /\ q.head = m.head /\ q.tail = m.tail /\ q.level = m.level
        /\ q.rewind_tail = m.tail /\ q.rewind_level = m.level
    BY <1>3 DEF WithRewindPoint, Ring
  <1>5. m.tail \in Slots /\ m.head \in Slots BY <1>3 DEF Ring
  <1>6. HasRewindPoint(q) BY <1>4, <1>5, SlotIs DEF HasRewindPoint
  <1>7. Distance(m.tail, m.tail) = 0
    <2>1. m.tail \in Int BY <1>5, SlotIs
    <2>2. Distance(m.tail, m.tail) = IF m.tail >= m.tail THEN m.tail - m.tail
                                     ELSE m.tail - m.tail + Size
      BY <1>5, DistanceIs
    <2> HIDE DEF m
    <2> QED BY <2>1, <2>2
  <1>8. InTurn(q)
    <2>1. Distance(m.tail, m.head) \in Int BY <1>5, DistanceIs, SlotIs
    <2> QED BY <1>4, <1>7, <2>1 DEF InTurn, Count
  <1>9. Count(q) = IF HasRewindPoint(p) THEN Distance(p.rewind_tail, p.head)
                                        ELSE Count(p)
    BY <1>3, <1>4 DEF Count
  <1>10. Distance(q.rewind_tail, q.head) = Count(q) BY <1>4 DEF Count
  <1> QED BY <1>3, <1>4, <1>6, <1>8, <1>9, <1>10

(* Clearing the rewind point changes nothing else. *)
LEMMA ClearedRing ==
    ASSUME NEW p \in Ring, NEW q, q = Cleared(p)
    PROVE  /\ q \in Ring /\ InTurn(q) /\ ~HasRewindPoint(q)
           /\ Count(q) = Count(p) /\ q.level = p.level
  <1>1. /\ q \in Ring /\ q.rewind_tail = -1
        /\ q.head = p.head /\ q.tail = p.tail /\ q.level = p.level
    BY DEF Cleared, Ring
  <1>2. ~HasRewindPoint(q) BY <1>1 DEF HasRewindPoint
  <1> QED BY <1>1, <1>2 DEF InTurn, Count

(* Storing a level changes nothing else. *)
LEMMA StoredRing ==
    ASSUME NEW p \in Ring, InTurn(p), NEW word, word # Zero, loaded \in Int,
           NEW q, q = LevelStored(p, word)
    PROVE  /\ q \in Ring /\ InTurn(q)
           /\ Count(q) = Count(p) /\ q.level = loaded - 1
           /\ q.rewind_level = p.rewind_level
           /\ q.rewind_tail = p.rewind_tail /\ q.head = p.head
           /\ HasRewindPoint(q) <=> HasRewindPoint(p)
  <1>1. q = [p EXCEPT !.level = loaded - 1] BY DEF LevelStored
  <1>2. /\ q \in Ring /\ q.rewind_tail = p.rewind_tail /\ q.rewind_level = p.rewind_level
        /\ q.head = p.head /\ q.tail = p.tail /\ q.level = loaded - 1
    BY <1>1 DEF Ring
  <1>3. HasRewindPoint(q) <=> HasRewindPoint(p) BY <1>2 DEF HasRewindPoint
  <1> QED BY <1>2, <1>3 DEF InTurn, Count
------------------------------------------------------------------------------
(* The words gathered. *)

Word == Int \X Int

(* A word of a ring that is not empty is not the 0 of an empty one. *)
LEMMA TakenIs ==
    ASSUME NEW p \in Ring, Count(p) >= 1
    PROVE  Taken(p) \in Word /\ Taken(p) # Zero
  <1>1. p.head # p.tail BY CountIs
  <1>2. p.tail \in Slots /\ p.buf \in [Slots -> 0 .. 1] BY DEF Ring
  <1>3. p.tail \in Int /\ 0 <= p.tail BY <1>2, SlotIs
  <1>4. p.buf[p.tail] \in Int BY <1>2
  <1>5. Taken(p) = <<p.tail, p.buf[p.tail]>> BY <1>1 DEF Taken
  <1> QED BY <1>3, <1>4, <1>5 DEF Word, Zero

NonZero(w) == \A k \in DOMAIN w : \A part \in DOMAIN w[k] : w[k][part] # Zero

(* Appending the first half of a word, or filler. *)
LEMMA WordAppended ==
    ASSUME NEW w \in Words, NonZero(w), NEW x \in Seq(Word),
           \A part \in DOMAIN x : x[part] # Zero,
           NEW v, v = Append(w, x)
    PROVE  /\ v \in Words /\ NonZero(v)
           /\ Len(v) = Len(w) + 1 /\ v # <<>> /\ v[Len(v)] = x
  <1>1. w \in Seq(Seq(Word)) BY DEF Words, Word
  <1>2. /\ v \in Seq(Seq(Word)) /\ Len(v) = Len(w) + 1 /\ v[Len(w) + 1] = x
        /\ \A k \in 1 .. Len(w) : v[k] = w[k]
    BY <1>1, AppendProperties
  <1>3. Len(w) \in Nat /\ DOMAIN v = 1 .. Len(w) + 1 /\ DOMAIN w = 1 .. Len(w)
    BY <1>1, <1>2
  <1>4. ASSUME NEW k \in DOMAIN v, NEW part \in DOMAIN v[k]
        PROVE  v[k][part] # Zero
    <2>1. CASE k = Len(w) + 1 BY <1>2, <1>4, <2>1
    <2>2. CASE k # Len(w) + 1
      <3>1. k \in DOMAIN w /\ v[k] = w[k] BY <1>2, <1>3, <2>2
      <3> QED BY <1>4, <3>1 DEF NonZero
    <2> QED BY <2>1, <2>2
  <1>5. v # <<>> BY <1>2, <1>3
  <1> QED BY <1>2, <1>4, <1>5 DEF NonZero, Words, Word

Extended(w, y) == [w EXCEPT ![Len(w)] = Append(w[Len(w)], y)]

(* Completing the last word. *)
LEMMA WordCompleted ==
    ASSUME NEW w \in Words, NonZero(w), w # <<>>, Len(w[Len(w)]) = 1,
           NEW y \in Word, y # Zero,
           NEW v, v = Extended(w, y)
    PROVE  /\ v \in Words /\ NonZero(v)
           /\ Len(v) = Len(w) /\ v # <<>> /\ Len(v[Len(v)]) = 2
           /\ w[Len(w)][1] # Zero
  <1> DEFINE n == Len(w)  x == w[n]  z == Append(x, y)
  <1>1. w \in Seq(Seq(Word)) /\ n \in Nat /\ n >= 1 /\ DOMAIN w = 1 .. n
    <2>1. w \in Seq(Seq(Word)) BY DEF Words, Word
    <2>2. n \in Nat /\ n # 0 BY <2>1, EmptySeq
    <2> QED BY <2>1, <2>2
  <1>2. x \in Seq(Word) /\ Len(x) = 1 /\ DOMAIN x = 1 .. 1
    <2>1. x \in Seq(Word) BY <1>1
    <2> QED BY <2>1
  <1>3. x[1] # Zero BY <1>1, <1>2 DEF NonZero
  <1>4. /\ z \in Seq(Word) /\ Len(z) = 2 /\ z[2] = y /\ z[1] = x[1]
        /\ DOMAIN z = 1 .. 2
    <2>1. z \in Seq(Word) /\ Len(z) = 1 + 1 /\ z[1 + 1] = y
          /\ \A k \in 1 .. 1 : z[k] = x[k]
      BY <1>2, AppendProperties
    <2> QED BY <2>1
  <1>5. v = [w EXCEPT ![n] = z] BY DEF Extended
  <1> HIDE DEF z
  <1>6. v \in Seq(Seq(Word)) /\ Len(v) = n /\ v[n] = z
        /\ \A k \in 1 .. n : k # n => v[k] = w[k]
    BY <1>1, <1>4, <1>5, ExceptSeq
  <1>7. DOMAIN v = 1 .. n BY <1>6, LenProperties
  <1>8. \A part \in DOMAIN v[n] : v[n][part] # Zero
    <2>1. v[n] = z BY <1>6
    <2>2. DOMAIN z = {1, 2} BY <1>4
    <2>3. z[1] # Zero /\ z[2] # Zero BY <1>3, <1>4
    <2> QED BY <2>1, <2>2, <2>3
  <1>9. \A k \in 1 .. n : k # n => \A part \in DOMAIN v[k] : v[k][part] # Zero
    BY <1>1, <1>6 DEF NonZero
  <1>10. NonZero(v) BY <1>7, <1>8, <1>9 DEF NonZero
  <1>11. Len(v[Len(v)]) = 2 BY <1>4, <1>6
  <1>12. v # <<>> BY <1>1, <1>6, EmptySeq
  <1> QED BY <1>3, <1>6, <1>10, <1>11, <1>12 DEF Words, Word
------------------------------------------------------------------------------
(* The invariant is inductive. *)

LEMMA NoZeroIs == NoZero <=> NonZero(words)
BY DEF NoZero, NonZero

LEMMA InitIInv == Init => IInv
  <1> SUFFICES ASSUME Init PROVE IInv OBVIOUS
  <1> USE DEF Init
  <1>1. 0 \in Slots BY DEF Slots
  <1>2. \A s \in Sources : pool[s] \in Ring
    BY <1>1 DEF Ring
  <1>3. TypeOK BY <1>1, <1>2 DEF TypeOK, Words
  <1>4. ASSUME NEW s \in Sources
        PROVE  InTurn(pool[s]) /\ LevelBounded(s)
    <2> DEFINE p == pool[s]
    <2>1. p.head = 0 /\ p.tail = 0 /\ p.level = 0 /\ p.rewind_level = 0
          /\ p.rewind_tail \in {0, -1}
      OBVIOUS
    <2>2. Distance(0, 0) = 0
      <3>1. Distance(0, 0) = IF 0 >= 0 THEN 0 - 0 ELSE 0 - 0 + Size
        BY <1>1, DistanceIs
      <3> QED BY <3>1
    <2>3. HasRewindPoint(p) => p.rewind_tail = 0 BY <2>1 DEF HasRewindPoint
    <2> HIDE DEF p
    <2>4. Count(p) = 0 BY <2>1, <2>2 DEF Count
    <2>5. InTurn(p) BY <2>1, <2>2, <2>3, <2>4 DEF InTurn
    <2>6. Ceiling(s) = 0 BY <2>4 DEF Ceiling, p
    <2>7. LevelBounded(s) BY <2>1, <2>2, <2>3, <2>6 DEF LevelBounded, p
    <2> QED BY <2>5, <2>7 DEF p
  <1>5. Promised BY DEF Promised
  <1>6. Clients BY DEF Clients, Words
  <1>7. NoZero BY DEF NoZero
  <1> QED BY <1>3, <1>4, <1>5, <1>6, <1>7 DEF IInv

(* What IInv says of one ring, for use with the lemmas above. *)
LEMMA RingOf ==
    ASSUME IInv, NEW s \in Sources
    PROVE  /\ pool[s] \in Ring /\ InTurn(pool[s]) /\ LevelBounded(s)
           /\ Count(pool[s]) \in Int /\ 0 <= Count(pool[s]) /\ Count(pool[s]) < Size
           /\ pool[s].level \in Int
  <1>1. pool[s] \in Ring /\ InTurn(pool[s]) /\ LevelBounded(s) BY DEF IInv, TypeOK
  <1>2. Count(pool[s]) \in Slots BY <1>1, CountIs
  <1> QED BY <1>1, <1>2, SlotIs DEF Ring

LEMMA PushStep ==
    ASSUME IInv, NEW s \in Sources, rand_push(s)
    PROVE  IInv'
  <1> USE DEF rand_push, user
  <1>1. CASE IsFull(pool[s])
    <2>1. irq' \in [Sources -> BOOLEAN] BY <1>1 DEF IInv, TypeOK
    <2>2. UNCHANGED <<pool, user, at, loaded>> BY <1>1
    <2> QED BY <2>1, <2>2
         DEF IInv, TypeOK, InTurn, LevelBounded, Ceiling, Promised, Clients, NoZero
  <1>2. CASE ~IsFull(pool[s])
    <2> DEFINE p == pool[s]  q == pool'[s]
    <2>1. pool' = [pool EXCEPT ![s] = Pushed(p)] /\ UNCHANGED irq BY <1>2
    <2>2. pool \in [Sources -> Ring] BY DEF IInv, TypeOK
    <2>3. q = Pushed(p) /\ \A t \in Sources : t # s => pool'[t] = pool[t]
      BY <2>1, <2>2
    <2>4. /\ p \in Ring /\ InTurn(p) /\ LevelBounded(s)
          /\ Count(p) \in Int /\ p.level \in Int
      BY RingOf
    <2> HIDE DEF p, q
    <2>5. /\ q \in Ring /\ InTurn(q)
          /\ Count(q) = Count(p) + 1
          /\ q.level = p.level + 1
          /\ HasRewindPoint(q) <=> HasRewindPoint(p)
          /\ HasRewindPoint(p) =>
               /\ q.rewind_level = p.rewind_level + 1
               /\ Distance(q.rewind_tail, q.head) = Distance(p.rewind_tail, p.head) + 1
      BY <1>2, <2>3, <2>4, PushedRing DEF p
    <2>6. pool' \in [Sources -> Ring] BY <2>1, <2>2, <2>3, <2>5
    <2>7. Ceiling(s)' = Ceiling(s) + 1 /\ Ceiling(s) \in Int
      BY <2>4, <2>5 DEF Ceiling, p, q
    <2>8. LevelBounded(s)'
      <3>1. HasRewindPoint(p) => /\ Distance(p.rewind_tail, p.head) \in Int
                                 /\ p.rewind_level \in Int
        BY <2>4, CountIs, SlotIs DEF Ring
      <3>2. loaded \in Int BY DEF IInv, Clients
      <3>3. /\ p.level <= Ceiling(s)
            /\ at = s => loaded <= Ceiling(s)
            /\ HasRewindPoint(p) => p.rewind_level <= Distance(p.rewind_tail, p.head)
        BY <2>4 DEF LevelBounded, p
      <3>4. /\ q.level <= Ceiling(s)'
            /\ at = s => loaded <= Ceiling(s)'
            /\ HasRewindPoint(q) => q.rewind_level <= Distance(q.rewind_tail, q.head)
        BY <2>4, <2>5, <2>7, <3>1, <3>2, <3>3
      <3>5. ASSUME ~Preempt
            PROVE  /\ q.level = Ceiling(s)'
                   /\ at # s
                   /\ HasRewindPoint(q) => q.rewind_level = Distance(q.rewind_tail, q.head)
        <4>1. /\ p.level = Ceiling(s)
              /\ HasRewindPoint(p) => p.rewind_level = Distance(p.rewind_tail, p.head)
          BY <2>4, <3>5 DEF LevelBounded, p
        <4>2. at = "idle" BY <3>5
        <4> QED BY <2>4, <2>5, <2>7, <3>1, <4>1, <4>2
      <3> QED BY <3>4, <3>5 DEF LevelBounded, q
    <2>9. ASSUME NEW t \in Sources, t # s
          PROVE  InTurn(pool[t])' /\ LevelBounded(t)'
      <3>1. pool'[t] = pool[t] BY <2>3, <2>9
      <3>2. InTurn(pool[t]) /\ LevelBounded(t) BY RingOf
      <3> QED BY <3>1, <3>2 DEF InTurn, LevelBounded, Ceiling
    <2>10. \A t \in Sources : Count(pool'[t]) >= Count(pool[t]) /\ Count(pool[t]) \in Int
                              /\ Count(pool'[t]) \in Int
      BY <2>3, <2>4, <2>5, RingOf DEF p, q
    <2>11. Promised'
      <3>1. Promised /\ words \in Words /\ need \in Int /\ Len(words) \in Int
        BY LenProperties DEF IInv, Clients, TypeOK, Words
      <3> QED BY <2>10, <3>1 DEF Promised
    <2>12. TypeOK'
      <3>1. \A t \in Sources : pool'[t].level <= Size
        <4>1. q.level <= Size
          <5>1. q.level <= Ceiling(s)' BY <2>8 DEF LevelBounded, q
          <5>2. Count(q) \in Slots BY <2>5, CountIs
          <5>3. Ceiling(s)' <= Count(q) + 1 BY <2>5, <5>2, SlotIs DEF Ceiling, q
          <5>4. q.level \in Int BY <2>5 DEF Ring
          <5>5. Ceiling(s)' \in Int BY <2>7
          <5> QED BY <5>1, <5>2, <5>3, <5>4, <5>5, SlotIs
        <4>2. \A t \in Sources : pool[t].level <= Size BY DEF IInv, TypeOK
        <4> QED BY <2>3, <4>1, <4>2 DEF q
      <3> QED BY <2>1, <2>6, <3>1 DEF IInv, TypeOK
    <2>13. Clients' /\ NoZero' BY DEF IInv, Clients, NoZero
    <2>14. InTurn(q) /\ LevelBounded(s)' BY <2>5, <2>8
    <2> QED BY <2>9, <2>11, <2>12, <2>13, <2>14 DEF IInv, q
  <1> QED BY <1>1, <1>2
(* The invariant for a ring and a level left alone. *)
LEMMA OtherRing ==
    ASSUME IInv, NEW t \in Sources, pool'[t] = pool[t],
           at' = t <=> at = t, at = t => loaded' = loaded
    PROVE  InTurn(pool[t])' /\ LevelBounded(t)'
  <1>1. InTurn(pool[t]) /\ LevelBounded(t) BY RingOf
  <1> QED BY <1>1 DEF InTurn, LevelBounded, Ceiling

(* Taking the first step of `level--' of ring s. *)
LEMMA LevelLoaded ==
    ASSUME IInv, NEW s \in Sources, at # s, Count(pool[s]) >= 1,
           pool'[s] = TailMoved(pool[s]), at' = s, loaded' = pool[s].level
    PROVE  /\ pool'[s] \in Ring
           /\ InTurn(pool[s])' /\ LevelBounded(s)'
           /\ pool'[s].level <= Size
           /\ Count(pool'[s]) = Count(pool[s]) - 1
  <1> DEFINE p == pool[s]  q == pool'[s]
  <1>1. /\ p \in Ring /\ InTurn(p) /\ LevelBounded(s) /\ p.level \in Int
        /\ Count(p) \in Int /\ Count(p) < Size
    BY RingOf
  <1>2. q = TailMoved(p) /\ Count(p) >= 1 OBVIOUS
  <1>3. /\ p.level <= Count(p)
        /\ HasRewindPoint(p) => p.rewind_level <= Distance(p.rewind_tail, p.head)
        /\ ~Preempt => /\ p.level = Count(p)
                       /\ HasRewindPoint(p) =>
                            p.rewind_level = Distance(p.rewind_tail, p.head)
    BY <1>1 DEF LevelBounded, Ceiling
  <1>4. Ceiling(s)' = Count(q) + 1 BY DEF Ceiling
  <1>5. loaded' = p.level OBVIOUS
  <1> HIDE DEF p, q
  <1>6. /\ q \in Ring /\ InTurn(q)
        /\ Count(q) = Count(p) - 1
        /\ q.level = p.level /\ q.rewind_level = p.rewind_level
        /\ q.rewind_tail = p.rewind_tail /\ q.head = p.head
        /\ HasRewindPoint(q) <=> HasRewindPoint(p)
    BY <1>1, <1>2, MovedRing
  <1>7. Ceiling(s)' = Count(p) BY <1>1, <1>4, <1>6
  <1>8. LevelBounded(s)' BY <1>3, <1>5, <1>6, <1>7 DEF LevelBounded, q
  <1>9. q.level <= Size BY <1>1, <1>3, <1>6
  <1> QED BY <1>6, <1>8, <1>9 DEF p, q

(* Taking the second step. *)
LEMMA LevelDone ==
    ASSUME IInv, NEW s \in Sources, at = s, at' # s, NEW word, word # Zero,
           pool'[s] = LevelStored(pool[s], word)
    PROVE  /\ pool'[s] \in Ring
           /\ InTurn(pool[s])' /\ LevelBounded(s)'
           /\ pool'[s].level <= Size
           /\ Count(pool'[s]) = Count(pool[s])
  <1> DEFINE p == pool[s]  q == pool'[s]
  <1>1. /\ p \in Ring /\ InTurn(p) /\ LevelBounded(s) /\ loaded \in Int
        /\ Count(p) \in Int /\ Count(p) < Size
    BY RingOf DEF IInv, Clients
  <1>2. q = LevelStored(p, word) OBVIOUS
  <1>3. /\ loaded <= Count(p) + 1
        /\ HasRewindPoint(p) => p.rewind_level <= Distance(p.rewind_tail, p.head)
        /\ ~Preempt => /\ loaded = Count(p) + 1
                       /\ HasRewindPoint(p) =>
                            p.rewind_level = Distance(p.rewind_tail, p.head)
    BY <1>1 DEF LevelBounded, Ceiling
  <1>4. Ceiling(s)' = Count(q) + 0 BY DEF Ceiling
  <1> HIDE DEF p, q
  <1>5. /\ q \in Ring /\ InTurn(q)
        /\ Count(q) = Count(p) /\ q.level = loaded - 1
        /\ q.rewind_level = p.rewind_level
        /\ q.rewind_tail = p.rewind_tail /\ q.head = p.head
        /\ HasRewindPoint(q) <=> HasRewindPoint(p)
    BY <1>1, <1>2, StoredRing
  <1>6. Ceiling(s)' = Count(p) BY <1>1, <1>4, <1>5
  <1>7. LevelBounded(s)' BY <1>1, <1>3, <1>5, <1>6 DEF LevelBounded, q
  <1>8. q.level <= Size BY <1>1, <1>3, <1>5
  <1> QED BY <1>5, <1>7, <1>8 DEF p, q

(* What a command was promised is there when it takes the first half of a word. *)
LEMMA BothThere ==
    ASSUME IInv, TakeRtc
    PROVE  Count(pool["RTC"]) >= 1 /\ Count(pool["TRNG"]) >= 1
  <1>1. /\ \A s \in Sources : /\ Count(pool[s]) \in Int /\ pool[s].level \in Int
                              /\ pool[s].level <= Count(pool[s])
        /\ need \in Int /\ Len(words) \in Int /\ Len(words) >= 0
    <2>1. need \in Int /\ words \in Seq(Seq(Int \X Int))
      BY DEF IInv, TypeOK, Clients, Words
    <2>2. Len(words) \in Nat BY <2>1, LenProperties
    <2>3. at = "idle" BY DEF TakeRtc
    <2>4. ASSUME NEW s \in Sources
          PROVE  Count(pool[s]) \in Int /\ pool[s].level \in Int
                 /\ pool[s].level <= Count(pool[s])
      BY <2>3, RingOf DEF LevelBounded, Ceiling
    <2> QED BY <2>1, <2>2, <2>4
  <1>2. rand_avail <= pool["RTC"].level /\ rand_avail <= pool["TRNG"].level
    BY <1>1 DEF rand_avail
  <1>3. rand_avail \in Int BY <1>1 DEF rand_avail
  <1>4. CASE client = "SIGNET" /\ words # <<>>
    BY <1>1, <1>4 DEF IInv, Promised, TakeRtc
  <1>5. CASE client = "SIGNET" /\ words = <<>>
    <2>1. rand_avail >= need /\ Len(words) < need BY <1>5 DEF TakeRtc
    <2> QED BY <1>1, <1>2, <1>3, <2>1
  <1>6. CASE client # "SIGNET"
    <2>1. rand_avail > 0 BY <1>6 DEF TakeRtc
    <2> QED BY <1>1, <1>2, <1>3, <2>1
  <1> QED BY <1>4, <1>5, <1>6

(* One ring after the other: what the two of them need for IInv.                *)
LEMMA Both ==
    ASSUME IInv, pool' = [s \in Sources |-> pool'[s]],
           \A s \in Sources : /\ pool'[s] \in Ring /\ pool'[s].level <= Size
                              /\ InTurn(pool[s])' /\ LevelBounded(s)',
           irq' \in [Sources -> BOOLEAN], client' \in {"NONE", "SIGNET", "CTAP"},
           need' \in 0 .. MaxNeed, Len(words') <= need', at' \in {"idle"} \cup Sources,
           Promised', Clients', NonZero(words')
    PROVE  IInv'
  <1>1. pool' \in [Sources -> Ring] OBVIOUS
  <1>2. TypeOK' BY <1>1 DEF TypeOK
  <1>3. NoZero' BY DEF NoZero, NonZero
  <1> QED BY <1>2, <1>3 DEF IInv

LEMMA TakeRtcStep ==
    ASSUME IInv, TakeRtc
    PROVE  IInv'
  <1> DEFINE rtc == pool["RTC"]  x == <<Taken(rtc)>>
  <1>1. at = "idle" /\ at' = "RTC" /\ loaded' = rtc.level
        /\ words' = Append(words, x) /\ Len(words) < need
        /\ UNCHANGED <<irq, client, need, first>>
    BY DEF TakeRtc
  <1>2. pool \in [Sources -> Ring] BY DEF IInv, TypeOK
  <1>3. pool'["RTC"] = TailMoved(rtc) /\ pool'["TRNG"] = pool["TRNG"]
        /\ pool' = [s \in Sources |-> pool'[s]]
    BY <1>2 DEF TakeRtc
  <1>4. Count(rtc) >= 1 /\ Count(pool["TRNG"]) >= 1 BY BothThere
  <1>5. /\ pool'["RTC"] \in Ring /\ pool'["RTC"].level <= Size
        /\ InTurn(pool["RTC"])' /\ LevelBounded("RTC")'
        /\ Count(pool'["RTC"]) = Count(rtc) - 1
    BY <1>1, <1>3, <1>4, LevelLoaded
  <1>6. /\ pool'["TRNG"] \in Ring /\ pool'["TRNG"].level <= Size
        /\ InTurn(pool["TRNG"])' /\ LevelBounded("TRNG")'
    BY <1>1, <1>2, <1>3, OtherRing DEF IInv, TypeOK
  <1>7. Taken(rtc) \in Word /\ Taken(rtc) # Zero BY <1>4, RingOf, TakenIs
  <1>8. words \in Words /\ NonZero(words) /\ need \in 0 .. MaxNeed
        /\ Len(words) \in Nat
    <2>1. words \in Words /\ NonZero(words) /\ need \in 0 .. MaxNeed
      BY NoZeroIs DEF IInv, Clients, TypeOK
    <2> QED BY <2>1, LenProperties DEF Words
  <1>9. /\ words' \in Words /\ NonZero(words')
        /\ Len(words') = Len(words) + 1 /\ words' # <<>>
        /\ words'[Len(words')] = x
    <2>1. x \in Seq(Word) /\ \A part \in DOMAIN x : x[part] # Zero BY <1>7
    <2> HIDE DEF x
    <2> QED BY <1>1, <1>8, <2>1, WordAppended
  <1>10. Clients'
    <2>1. loaded' \in Int BY <1>1, RingOf
    <2>2. Len(x) = 1 OBVIOUS
    <2> HIDE DEF x
    <2>3. client' # "NONE" \/ need' = 0 BY <1>1 DEF IInv, Clients
    <2> QED BY <1>1, <1>9, <2>1, <2>2, <2>3 DEF Clients
  <1>11. Promised'
    <2>1. \A s \in Sources : Count(pool[s]) \in Int /\ pool[s].level \in Int
      BY RingOf
    <2>2. ASSUME client = "SIGNET"
          PROVE  need - Len(words) <= Count(rtc) /\ need - Len(words) <= Count(pool["TRNG"])
      <3>1. CASE words # <<>> BY <1>1, <1>8, <2>1, <2>2, <3>1 DEF IInv, Promised
      <3>2. CASE words = <<>>
        <4>1. need <= rand_avail BY <1>8, <2>1, <2>2, <3>2 DEF TakeRtc, rand_avail
        <4>2. rand_avail <= rtc.level /\ rand_avail <= pool["TRNG"].level
          BY <2>1 DEF rand_avail
        <4>3. rtc.level <= Count(rtc) /\ pool["TRNG"].level <= Count(pool["TRNG"])
          BY <1>1, <2>1, RingOf DEF LevelBounded, Ceiling
        <4>4. rand_avail \in Int BY <2>1 DEF rand_avail
        <4> QED BY <1>8, <2>1, <4>1, <4>2, <4>3, <4>4
      <3> QED BY <3>1, <3>2
    <2>3. Count(pool'["TRNG"]) = Count(pool["TRNG"]) BY <1>3
    <2> HIDE DEF rtc, x
    <2>4. Count(rtc) \in Int BY <2>1 DEF rtc
    <2>5. client = "SIGNET" =>
            /\ need - Len(words') <= Count(pool'["RTC"])
            /\ need - Len(words') + 1 <= Count(pool'["TRNG"])
      BY <1>5, <1>8, <1>9, <2>1, <2>2, <2>3, <2>4
    <2> QED BY <1>1, <1>4, <2>3, <2>5 DEF Promised
  <1>12. Len(words') <= need' /\ need' \in 0 .. MaxNeed BY <1>1, <1>8, <1>9
  <1>13. irq' \in [Sources -> BOOLEAN] /\ client' \in {"NONE", "SIGNET", "CTAP"}
         /\ at' \in {"idle"} \cup Sources
    BY <1>1 DEF IInv, TypeOK
  <1> QED BY <1>3, <1>5, <1>6, <1>9, <1>10, <1>11, <1>12, <1>13, Both

LEMMA TakeTrngStep ==
    ASSUME IInv, TakeTrng
    PROVE  IInv'
  <1> DEFINE rtc == pool["RTC"]  trng == pool["TRNG"]  w == words[Len(words)]
             y == Taken(trng)
  <1>1. at = "RTC" /\ at' = "TRNG" /\ loaded' = trng.level
        /\ words' = [words EXCEPT ![Len(words)] = Append(@, y)]
        /\ UNCHANGED <<irq, client, need, first>>
    BY DEF TakeTrng
  <1>2. pool \in [Sources -> Ring] BY DEF IInv, TypeOK
  <1>3. pool'["RTC"] = LevelStored(rtc, w[1]) /\ pool'["TRNG"] = TailMoved(trng)
        /\ pool' = [s \in Sources |-> pool'[s]]
    BY <1>2 DEF TakeTrng
  <1>4. Count(trng) >= 1 BY <1>1 DEF IInv, Promised
  <1>5. words \in Words /\ NonZero(words) /\ need \in 0 .. MaxNeed
        /\ Len(words) \in Nat /\ Len(words) <= need /\ words # <<>> /\ Len(w) = 1
    <2>1. words \in Words /\ NonZero(words) /\ need \in 0 .. MaxNeed
          /\ Len(words) <= need /\ words # <<>> /\ Len(w) = 1
      BY <1>1, NoZeroIs DEF IInv, Clients, TypeOK
    <2> QED BY <2>1, LenProperties DEF Words
  <1>6. y \in Word /\ y # Zero BY <1>4, RingOf, TakenIs
  <1>7. /\ words' \in Words /\ NonZero(words')
        /\ Len(words') = Len(words) /\ words' # <<>> /\ Len(words'[Len(words')]) = 2
        /\ w[1] # Zero
    <2> DEFINE v == words'
    <2>1. v = Extended(words, y) BY <1>1 DEF Extended
    <2>2. words \in Words /\ NonZero(words) /\ words # <<>> /\ Len(words[Len(words)]) = 1
      BY <1>5
    <2> HIDE DEF y, v
    <2>3. /\ v \in Words /\ NonZero(v)
          /\ Len(v) = Len(words) /\ v # <<>> /\ Len(v[Len(v)]) = 2
          /\ words[Len(words)][1] # Zero
      BY <1>6, <2>1, <2>2, WordCompleted
    <2> QED BY <2>3 DEF v
  <1>8. /\ pool'["RTC"] \in Ring /\ pool'["RTC"].level <= Size
        /\ InTurn(pool["RTC"])' /\ LevelBounded("RTC")'
        /\ Count(pool'["RTC"]) = Count(rtc)
    <2> HIDE DEF w
    <2> QED BY <1>1, <1>3, <1>7, LevelDone
  <1>9. /\ pool'["TRNG"] \in Ring /\ pool'["TRNG"].level <= Size
        /\ InTurn(pool["TRNG"])' /\ LevelBounded("TRNG")'
        /\ Count(pool'["TRNG"]) = Count(trng) - 1
    BY <1>1, <1>3, <1>4, LevelLoaded
  <1>10. Clients'
    <2>1. loaded' \in Int BY <1>1, RingOf
    <2>2. client' # "NONE" \/ need' = 0 BY <1>1 DEF IInv, Clients
    <2> HIDE DEF w, y
    <2> QED BY <1>1, <1>7, <2>1, <2>2 DEF Clients
  <1>11. Promised'
    <2>1. Count(rtc) \in Int /\ Count(trng) \in Int BY RingOf
    <2>2. client = "SIGNET" =>
            need - Len(words) <= Count(rtc) /\ need - Len(words) + 1 <= Count(trng)
      BY <1>1, <1>5 DEF IInv, Promised
    <2> HIDE DEF rtc, trng, w, y
    <2>3. client = "SIGNET" =>
            /\ need - Len(words') <= Count(pool'["RTC"])
            /\ need - Len(words') + 0 <= Count(pool'["TRNG"])
      BY <1>5, <1>7, <1>8, <1>9, <2>1, <2>2
    <2> QED BY <1>1, <2>3 DEF Promised
  <1>12. Len(words') <= need' /\ need' \in 0 .. MaxNeed BY <1>1, <1>5, <1>7
  <1>13. irq' \in [Sources -> BOOLEAN] /\ client' \in {"NONE", "SIGNET", "CTAP"}
         /\ at' \in {"idle"} \cup Sources
    BY <1>1 DEF IInv, TypeOK
  <1> QED BY <1>3, <1>7, <1>8, <1>9, <1>10, <1>11, <1>12, <1>13, Both

LEMMA TakeDoneStep ==
    ASSUME IInv, TakeDone
    PROVE  IInv'
  <1> DEFINE w == words[Len(words)]
  <1>1. at = "TRNG" /\ at' = "idle" /\ loaded' = 0 /\ irq' \in [Sources -> BOOLEAN]
        /\ UNCHANGED user
    BY DEF TakeDone
  <1>2. pool \in [Sources -> Ring] BY DEF IInv, TypeOK
  <1>3. pool'["TRNG"] = LevelStored(pool["TRNG"], w[2]) /\ pool'["RTC"] = pool["RTC"]
        /\ pool' = [s \in Sources |-> pool'[s]]
    BY <1>2 DEF TakeDone
  <1>4. w[2] # Zero
    <2>1. words \in Seq(Seq(Word)) /\ words # <<>> /\ Len(w) = 2
      BY <1>1 DEF IInv, Clients, Words, Word
    <2>2. Len(words) \in DOMAIN words BY <2>1, EmptySeq, LenProperties
    <2>3. w \in Seq(Word) BY <2>1, <2>2
    <2>4. 2 \in DOMAIN w BY <2>1, <2>3, LenProperties
    <2> QED BY <2>2, <2>4 DEF IInv, NoZero
  <1>5. /\ pool'["TRNG"] \in Ring /\ pool'["TRNG"].level <= Size
        /\ InTurn(pool["TRNG"])' /\ LevelBounded("TRNG")'
        /\ Count(pool'["TRNG"]) = Count(pool["TRNG"])
    <2> HIDE DEF w
    <2> QED BY <1>1, <1>3, <1>4, LevelDone
  <1>6. /\ pool'["RTC"] \in Ring /\ pool'["RTC"].level <= Size
        /\ InTurn(pool["RTC"])' /\ LevelBounded("RTC")'
        /\ Count(pool'["RTC"]) = Count(pool["RTC"])
    BY <1>1, <1>2, <1>3, OtherRing DEF IInv, TypeOK
  <1>7. UNCHANGED <<client, need, words>> BY <1>1 DEF user
  <1>8. Clients' BY <1>1, <1>7 DEF IInv, Clients
  <1>9. Promised'
    <2>1. client = "SIGNET" /\ words # <<>> =>
            /\ need - Len(words) <= Count(pool["RTC"])
            /\ need - Len(words) + 0 <= Count(pool["TRNG"])
      BY <1>1 DEF IInv, Promised
    <2> QED BY <1>1, <1>5, <1>6, <1>7, <2>1 DEF Promised
  <1>10. NonZero(words') BY <1>7, NoZeroIs DEF IInv
  <1>11. /\ client' \in {"NONE", "SIGNET", "CTAP"} /\ need' \in 0 .. MaxNeed
         /\ Len(words') <= need' /\ at' \in {"idle"} \cup Sources
    BY <1>1, <1>7 DEF IInv, TypeOK
  <1> QED BY <1>1, <1>3, <1>5, <1>6, <1>8, <1>9, <1>10, <1>11, Both

LEMMA TakeFillerStep ==
    ASSUME IInv, TakeFiller
    PROVE  IInv'
  <1>1. /\ client = "CTAP" /\ at = "idle" /\ Len(words) < need
        /\ words' = Append(words, Filler)
        /\ UNCHANGED <<pool, irq, client, need, at, loaded>>
    BY DEF TakeFiller
  <1>2. words \in Words /\ NonZero(words) /\ need \in 0 .. MaxNeed
        /\ Len(words) \in Nat
    <2>1. words \in Words /\ NonZero(words) /\ need \in 0 .. MaxNeed
      BY NoZeroIs DEF IInv, Clients, TypeOK
    <2> QED BY <2>1, LenProperties DEF Words
  <1>3. /\ words' \in Words /\ NonZero(words')
        /\ Len(words') = Len(words) + 1 /\ words' # <<>>
    <2> DEFINE x == Filler
    <2>1. x \in Seq(Word) /\ \A part \in DOMAIN x : x[part] # Zero
      BY DEF Filler, Word, Zero
    <2> HIDE DEF x
    <2>2. words' = Append(words, x) BY <1>1 DEF x
    <2> QED BY <1>2, <2>1, <2>2, WordAppended
  <1>4. Clients' BY <1>1, <1>3 DEF IInv, Clients
  <1>5. Promised' BY <1>1 DEF Promised
  <1>6. Len(words') <= need' BY <1>1, <1>2, <1>3
  <1>7. \A s \in Sources : InTurn(pool[s])' /\ LevelBounded(s)'
    BY <1>1, OtherRing
  <1>8. TypeOK' BY <1>1, <1>6 DEF IInv, TypeOK
  <1>9. NoZero' BY <1>3 DEF NoZero, NonZero
  <1> QED BY <1>4, <1>5, <1>7, <1>8, <1>9 DEF IInv

LEMMA SignetStep ==
    ASSUME IInv, (\E n \in 1 .. MaxNeed : SignetCommand(n)) \/ SignetDone
    PROVE  IInv'
  <1>1. UNCHANGED <<pool, irq, first, at, loaded>> BY DEF SignetCommand, SignetDone
  <1>2. \A s \in Sources : InTurn(pool[s])' /\ LevelBounded(s)' BY <1>1, OtherRing
  <1>3. CASE \E n \in 1 .. MaxNeed : SignetCommand(n)
    <2>1. PICK n \in 1 .. MaxNeed : SignetCommand(n) BY <1>3
    <2>2. /\ client = "NONE" /\ client' = "SIGNET" /\ need' = n /\ words' = words
      BY <2>1 DEF SignetCommand
    <2>3. words = <<>>
      <3>1. Len(words) <= 0 /\ words \in Seq(Seq(Int \X Int))
        BY <2>2 DEF IInv, TypeOK, Clients, Words
      <3>2. Len(words) \in Nat BY <3>1, LenProperties
      <3> QED BY <3>1, <3>2, EmptySeq
    <2>4. at = "idle" BY <2>3 DEF IInv, Clients, TypeOK
    <2>5. Len(words') <= need' BY <2>2, <2>3
    <2>6. TypeOK' BY <1>1, <2>2, <2>5 DEF IInv, TypeOK
    <2>7. Promised' BY <1>1, <2>2, <2>3, <2>4 DEF Promised
    <2>8. Clients' BY <1>1, <2>2, <2>4 DEF IInv, Clients
    <2>9. NoZero' BY <2>2 DEF IInv, NoZero
    <2> QED BY <1>2, <2>6, <2>7, <2>8, <2>9 DEF IInv
  <1>4. CASE SignetDone
    <2>1. client' = "NONE" /\ need' = 0 /\ words' = <<>> /\ at = "idle"
      BY <1>4 DEF SignetDone
    <2>2. TypeOK' BY <1>1, <2>1 DEF IInv, TypeOK
    <2>3. Promised' BY <1>1, <2>1 DEF Promised
    <2>4. Clients' BY <1>1, <2>1 DEF IInv, Clients, Words
    <2>5. NoZero' BY <2>1 DEF NoZero
    <2> QED BY <1>2, <2>2, <2>3, <2>4, <2>5 DEF IInv
  <1> QED BY <1>3, <1>4

(* The ring of s after a rewind to a new rewind point. *)
LEMMA RewoundBounded ==
    ASSUME IInv, NEW s \in Sources, at = "idle", at' = "idle",
           pool'[s] = WithRewindPoint(Rewound(pool[s]))
    PROVE  /\ pool'[s] \in Ring /\ pool'[s].level <= Size
           /\ InTurn(pool[s])' /\ LevelBounded(s)'
  <1> DEFINE p == pool[s]  q == pool'[s]
  <1>1. /\ p \in Ring /\ InTurn(p) /\ LevelBounded(s)
        /\ Count(p) \in Slots
    BY RingOf, CountIs
  <1>2. /\ p.level <= Count(p)
        /\ HasRewindPoint(p) => p.rewind_level <= Distance(p.rewind_tail, p.head)
        /\ ~Preempt => /\ p.level = Count(p)
                       /\ HasRewindPoint(p) =>
                            p.rewind_level = Distance(p.rewind_tail, p.head)
    BY <1>1, SlotIs DEF LevelBounded, Ceiling
  <1>3. q = WithRewindPoint(Rewound(p)) OBVIOUS
  <1>4. Ceiling(s)' = Count(q) + 0 BY DEF Ceiling
  <1> HIDE DEF p, q
  <1>5. /\ q \in Ring /\ InTurn(q) /\ HasRewindPoint(q)
        /\ Count(q) = IF HasRewindPoint(p) THEN Distance(p.rewind_tail, p.head)
                                           ELSE Count(p)
        /\ q.level = IF HasRewindPoint(p) THEN p.rewind_level ELSE p.level
        /\ q.rewind_level = q.level
        /\ Distance(q.rewind_tail, q.head) = Count(q)
    BY <1>1, <1>3, RewoundRing
  <1>6. Count(q) \in Int /\ Count(q) < Size /\ q.level \in Int
    <2>1. Count(q) \in Slots BY <1>5, CountIs
    <2> QED BY <1>5, <2>1, SlotIs DEF Ring
  <1>7. q.level <= Count(q) /\ (~Preempt => q.level = Count(q)) BY <1>2, <1>5
  <1>8. Ceiling(s)' = Count(q) BY <1>4, <1>6
  <1>9. LevelBounded(s)' BY <1>5, <1>7, <1>8 DEF LevelBounded, q
  <1>10. q.level <= Size BY <1>6, <1>7
  <1> QED BY <1>5, <1>9, <1>10 DEF q

LEMMA ClearedBounded ==
    ASSUME IInv, NEW s \in Sources, at = "idle", at' = "idle",
           pool'[s] = Cleared(pool[s])
    PROVE  /\ pool'[s] \in Ring /\ pool'[s].level <= Size
           /\ InTurn(pool[s])' /\ LevelBounded(s)'
  <1> DEFINE p == pool[s]  q == pool'[s]
  <1>1. /\ p \in Ring /\ InTurn(p) /\ LevelBounded(s) /\ Count(p) \in Int
        /\ p.level <= Size
    BY RingOf DEF IInv, TypeOK
  <1>2. p.level <= Count(p) /\ (~Preempt => p.level = Count(p))
    BY <1>1 DEF LevelBounded, Ceiling
  <1>3. q = Cleared(p) OBVIOUS
  <1>4. Ceiling(s)' = Count(q) + 0 BY DEF Ceiling
  <1> HIDE DEF p, q
  <1>5. /\ q \in Ring /\ InTurn(q) /\ ~HasRewindPoint(q)
        /\ Count(q) = Count(p) /\ q.level = p.level
    BY <1>1, <1>3, ClearedRing
  <1>6. Ceiling(s)' = Count(p) BY <1>1, <1>4, <1>5
  <1>7. LevelBounded(s)' BY <1>2, <1>5, <1>6 DEF LevelBounded, q
  <1> QED BY <1>1, <1>5, <1>7 DEF q

LEMMA CtapMessageStep ==
    ASSUME IInv, NEW n \in 1 .. MaxNeed, CtapMessage(n)
    PROVE  IInv'
  <1>1. /\ client = "NONE" /\ client' = "CTAP" /\ need' = n
        /\ irq' \in [Sources -> BOOLEAN]
        /\ UNCHANGED <<words, first, at, loaded>>
    BY DEF CtapMessage
  <1>2. /\ pool' = [s \in Sources |-> pool'[s]]
        /\ \A s \in Sources : pool'[s] = WithRewindPoint(Cleared(pool[s]))
    BY DEF CtapMessage
  <1>3. words = <<>>
    <2>1. Len(words) <= 0 /\ words \in Seq(Seq(Int \X Int))
      BY <1>1 DEF IInv, TypeOK, Clients, Words
    <2>2. Len(words) \in Nat BY <2>1, LenProperties
    <2> QED BY <2>1, <2>2, EmptySeq
  <1>4. at = "idle" BY <1>3 DEF IInv, Clients, TypeOK
  <1>5. ASSUME NEW s \in Sources
        PROVE  /\ pool'[s] \in Ring /\ pool'[s].level <= Size
               /\ InTurn(pool[s])' /\ LevelBounded(s)'
    <2> DEFINE p == pool[s]  c == Cleared(p)  q == pool'[s]
    <2>1. /\ p \in Ring /\ LevelBounded(s) /\ Count(p) \in Int /\ p.level <= Size
      BY RingOf DEF IInv, TypeOK
    <2>2. p.level <= Count(p) /\ (~Preempt => p.level = Count(p))
      BY <1>4, <2>1 DEF LevelBounded, Ceiling
    <2>3. c \in Ring /\ ~HasRewindPoint(c) /\ Count(c) = Count(p) /\ c.level = p.level
      BY <2>1, ClearedRing
    <2>4. q = WithRewindPoint(Rewound(c)) BY <1>2, <2>3 DEF Rewound
    <2>5. Ceiling(s)' = Count(q) + 0 BY <1>1, <1>4 DEF Ceiling
    <2>6. at' # s BY <1>1, <1>4
    <2> HIDE DEF p, c, q
    <2>7. /\ q \in Ring /\ InTurn(q) /\ HasRewindPoint(q)
          /\ Count(q) = Count(p) /\ q.level = p.level /\ q.rewind_level = q.level
          /\ Distance(q.rewind_tail, q.head) = Count(q)
      BY <2>3, <2>4, RewoundRing
    <2>8. Ceiling(s)' = Count(q) BY <2>1, <2>5, <2>7
    <2>9. LevelBounded(s)' BY <2>2, <2>6, <2>7, <2>8 DEF LevelBounded, q
    <2> QED BY <2>1, <2>7, <2>9 DEF q
  <1>6. Promised' BY <1>1, <1>4 DEF Promised
  <1>7. Clients' BY <1>1, <1>4 DEF IInv, Clients
  <1>8. NonZero(words') BY <1>1, NoZeroIs DEF IInv
  <1>9. need' \in 0 .. MaxNeed /\ Len(words') <= need' /\ at' \in {"idle"} \cup Sources
    BY <1>1, <1>3, <1>4
  <1>10. client' \in {"NONE", "SIGNET", "CTAP"} BY <1>1
  <1> QED BY <1>1, <1>2, <1>5, <1>6, <1>7, <1>8, <1>9, <1>10, Both

LEMMA CtapEndStep ==
    ASSUME IInv, CtapRestart \/ CtapDone
    PROVE  IInv'
  <1>1. /\ client' \in {"NONE", "CTAP"} /\ at = "idle" /\ at' = "idle"
        /\ irq' \in [Sources -> BOOLEAN] /\ words' = <<>> /\ loaded' = loaded
        /\ need' \in 0 .. MaxNeed /\ (client' = "NONE" => need' = 0)
    <2>1. need \in 0 .. MaxNeed /\ irq \in [Sources -> BOOLEAN] /\ 0 \in 0 .. MaxNeed
      BY DEF IInv, TypeOK
    <2>2. CASE CtapRestart BY <2>1, <2>2 DEF CtapRestart
    <2>3. CASE CtapDone
      <3>1. /\ client' = "NONE" /\ at = "idle" /\ at' = "idle" /\ words' = <<>>
            /\ need' = 0 /\ loaded' = loaded /\ irq' = [s \in Sources |-> TRUE]
        BY <2>3 DEF CtapDone
      <3> QED BY <2>1, <3>1
    <2> QED BY <2>2, <2>3
  <1>2. pool' = [s \in Sources |-> pool'[s]] BY DEF CtapRestart, CtapDone
  <1>3. ASSUME NEW s \in Sources
        PROVE  /\ pool'[s] \in Ring /\ pool'[s].level <= Size
               /\ InTurn(pool[s])' /\ LevelBounded(s)'
    <2>1. CASE CtapRestart
      <3>1. pool'[s] = WithRewindPoint(Rewound(pool[s])) BY <2>1 DEF CtapRestart
      <3> QED BY <1>1, <3>1, RewoundBounded
    <2>2. CASE CtapDone
      <3>1. pool'[s] = Cleared(pool[s]) BY <2>2 DEF CtapDone
      <3> QED BY <1>1, <3>1, ClearedBounded
    <2> QED BY <2>1, <2>2
  <1>4. Promised' BY <1>1 DEF Promised
  <1>5. Clients' BY <1>1 DEF IInv, Clients, Words
  <1>6. NonZero(words') BY <1>1 DEF NonZero
  <1>7. Len(words') <= need' BY <1>1
  <1> QED BY <1>1, <1>2, <1>3, <1>4, <1>5, <1>6, <1>7, Both

LEMMA StutterStep ==
    ASSUME IInv, UNCHANGED vars
    PROVE  IInv'
BY DEF vars, user, IInv, TypeOK, InTurn, LevelBounded, Ceiling, Promised, Clients, NoZero

LEMMA NextIInv == IInv /\ [Next]_vars => IInv'
  <1> SUFFICES ASSUME IInv, [Next]_vars PROVE IInv' OBVIOUS
  <1>1. CASE \E s \in Sources : rand_push(s) BY <1>1, PushStep
  <1>2. CASE TakeRtc BY <1>2, TakeRtcStep
  <1>3. CASE TakeTrng BY <1>3, TakeTrngStep
  <1>4. CASE TakeDone BY <1>4, TakeDoneStep
  <1>5. CASE TakeFiller BY <1>5, TakeFillerStep
  <1>6. CASE (\E n \in 1 .. MaxNeed : SignetCommand(n)) \/ SignetDone
    BY <1>6, SignetStep
  <1>7. CASE \E n \in 1 .. MaxNeed : CtapMessage(n) BY <1>7, CtapMessageStep
  <1>8. CASE CtapRestart \/ CtapDone BY <1>8, CtapEndStep
  <1>9. CASE UNCHANGED vars BY <1>9, StutterStep
  <1> QED BY <1>1, <1>2, <1>3, <1>4, <1>5, <1>6, <1>7, <1>8, <1>9 DEF Next

------------------------------------------------------------------------------
(* IInv, on which the theorems below rest, holds of every state: rand_push,     *)
(* rand_get and the rewinding functions of rand.c preserve it step by step.     *)
THEOREM Inductive == Spec => []IInv
BY InitIInv, NextIInv, PTL DEF Spec

(* The fields of struct rand_src_state stay in their ranges, the level at most  *)
(* the length of the ring, whatever interrupts rand_get.                        *)
THEOREM TypeCorrect == Spec => []TypeOK
  <1>1. IInv => TypeOK BY DEF IInv
  <1> QED BY <1>1, Inductive, PTL

(* No level counts more words than rand_src_get can take: an update of `level'  *)
(* that an interrupt undoes only ever makes the ring look emptier, and so does  *)
(* the level that rand_rewind restores.                                         *)
THEOREM LevelsNotOverstated == Spec => []NeverOverstated
  <1>1. IInv => NeverOverstated
    <2> SUFFICES ASSUME IInv, NEW s \in Sources
                 PROVE  /\ Level(s) <= Count(pool[s])
                        /\ HasRewindPoint(pool[s]) =>
                              pool[s].rewind_level
                                <= Distance(pool[s].rewind_tail, pool[s].head)
      BY DEF NeverOverstated
    <2>1. LevelBounded(s) /\ Count(pool[s]) \in Int /\ pool[s].level \in Int
          /\ loaded \in Int
      BY RingOf DEF IInv, Clients
    <2> QED BY <2>1 DEF LevelBounded, Ceiling, Level
  <1> QED BY <1>1, Inductive, PTL

(* A command that asked rand_avail before rand_get is never handed the 0 of an  *)
(* empty ring, in either half of a word.                                        *)
THEOREM NoZeroGiven == Spec => []NoZero
  <1>1. IInv => NoZero BY DEF IInv
  <1> QED BY <1>1, Inductive, PTL

(* Where the interrupts cannot come between the two halves of `level--', the    *)
(* level is what the ring holds.                                                *)
THEOREM LevelExact ==
    ASSUME ~Preempt
    PROVE  Spec => []LevelIsCount
  <1>1. IInv => LevelIsCount
    <2> SUFFICES ASSUME IInv, at = "idle", NEW s \in Sources
                 PROVE  pool[s].level = Count(pool[s])
      BY DEF LevelIsCount
    <2>1. LevelBounded(s) /\ Count(pool[s]) \in Int BY RingOf
    <2> QED BY <2>1 DEF LevelBounded, Ceiling
  <1> QED BY <1>1, Inductive, PTL

------------------------------------------------------------------------------
(* A message carried through again gets the words it got before. *)

LEMMA SameDistance ==
    ASSUME NEW r \in Slots, NEW i \in Slots, NEW j \in Slots,
           Distance(r, i) = Distance(r, j)
    PROVE  i = j
  <1> DEFINE d == Distance(r, i)  e == Distance(r, j)
  <1>1. /\ d = IF i >= r THEN i - r ELSE i - r + Size
        /\ e = IF j >= r THEN j - r ELSE j - r + Size
    BY DistanceIs
  <1>2. d = e OBVIOUS
  <1> HIDE DEF d, e
  <1> QED BY <1>1, <1>2 DEF Slots

(* A word read is kept by all that leaves the slots, the head and the rewind    *)
(* point alone ...                                                              *)
SameHold(p, q) ==
    q.buf = p.buf /\ q.head = p.head /\ q.rewind_tail = p.rewind_tail

LEMMA HoldsSame ==
    ASSUME NEW p \in Ring
    PROVE  /\ SameHold(p, p)
           /\ SameHold(p, TailMoved(p))
           /\ \A word : SameHold(p, LevelStored(p, word))
           /\ HasRewindPoint(p) => SameHold(p, WithRewindPoint(Rewound(p)))
  <1>1. SameHold(p, p) BY DEF SameHold
  <1>2. SameHold(p, TailMoved(p)) BY DEF SameHold, TailMoved, Ring
  <1>3. \A word : SameHold(p, LevelStored(p, word)) BY DEF SameHold, LevelStored, Ring
  <1>4. HasRewindPoint(p) => SameHold(p, WithRewindPoint(Rewound(p)))
    BY DEF SameHold, WithRewindPoint, Rewound, Ring
  <1> QED BY <1>1, <1>2, <1>3, <1>4

(* ... and by a push, which never comes round to the rewind point. *)
LEMMA HeldPushed ==
    ASSUME NEW p \in Ring, InTurn(p), HasRewindPoint(p), ~IsFull(p),
           NEW q, q = Pushed(p), NEW n \in Nat, NEW x, Held(p, x, n)
    PROVE  Held(q, x, n)
  <1> DEFINE i == x[1]  r == p.rewind_tail  h == p.head
  <1>1. /\ i \in Slots /\ x = <<i, p.buf[i]>> /\ Distance(r, i) = n
        /\ n < Distance(r, h)
    BY DEF Held
  <1>2. p.buf \in [Slots -> 0 .. 1] /\ h \in Slots
    BY DEF Ring
  <1>3. i # h BY <1>1
  <1>4. q.buf = [p.buf EXCEPT ![h] = 1 - @] /\ q.rewind_tail = r
    BY DEF Pushed, Ring
  <1>5. q.buf[i] = p.buf[i] BY <1>1, <1>2, <1>3, <1>4
  <1>6. Distance(q.rewind_tail, q.head) = Distance(r, h) + 1 BY PushedRing
  <1>7. Distance(r, h) \in Slots BY CountIs
  <1>8. n < Distance(q.rewind_tail, q.head) BY <1>1, <1>6, <1>7, SlotIs
  <1> QED BY <1>1, <1>4, <1>5, <1>8 DEF Held

(* The word taken next is the one at the tail. *)
LEMMA TakenHeld ==
    ASSUME NEW p \in Ring, InTurn(p), HasRewindPoint(p), Count(p) >= 1,
           NEW n \in Nat, Distance(p.rewind_tail, p.tail) = n,
           NEW q, q = TailMoved(p)
    PROVE  Held(q, Taken(p), n) /\ Distance(q.rewind_tail, q.tail) = n + 1
  <1> DEFINE h == p.head  t == p.tail  r == p.rewind_tail  c == Count(p)
  <1>1. h \in Slots /\ t \in Slots /\ r \in Slots BY CountIs DEF Ring
  <1>2. h # t BY CountIs
  <1>3. q = [p EXCEPT !.tail = Succ(t)] BY <1>2 DEF TailMoved
  <1>4. q.tail = Succ(t) /\ q.head = h /\ q.rewind_tail = r /\ q.buf = p.buf
    BY <1>3 DEF Ring
  <1>5. n + c = Distance(r, h) /\ c \in Int BY CountIs, SlotIs DEF InTurn
  <1>6. n < Distance(r, h) BY <1>5
  <1>7. Taken(p) = <<t, p.buf[t]>> BY <1>2 DEF Taken
  <1>8. Held(q, Taken(p), n) BY <1>1, <1>4, <1>6, <1>7 DEF Held
  <1>9. Succ(t) # r BY <1>1, <1>2, NotRound DEF InTurn, Count
  <1>10. Distance(r, Succ(t)) = n + 1 BY <1>1, <1>9, FarEnd
  <1> QED BY <1>4, <1>8, <1>10

(* So all words read stay, if the rings are only pushed to or read from. *)
LEMMA AllHeldKept ==
    ASSUME NEW P, NEW Q, NEW w \in Words, AllHeld(P, w),
           \A s \in Sources, n \in Nat : \A x :
              Held(P[s], x, n) => Held(Q[s], x, n)
    PROVE  AllHeld(Q, w)
  <1> SUFFICES ASSUME NEW k \in DOMAIN w, Plain(w, k), NEW part \in DOMAIN w[k]
               PROVE  Held(Q[From(part)], w[k][part], k - 1)
    BY DEF AllHeld
  <1>1. Held(P[From(part)], w[k][part], k - 1) BY DEF AllHeld
  <1>2. k - 1 \in Nat BY DEF Words
  <1>3. From(part) \in Sources BY DEF From
  <1> QED BY <1>1, <1>2, <1>3

LEMMA SameHeld ==
    ASSUME NEW P, NEW Q, \A s \in Sources : SameHold(P[s], Q[s]),
           NEW w \in Words, AllHeld(P, w)
    PROVE  AllHeld(Q, w)
  <1>1. \A s \in Sources, n \in Nat : \A x :
           Held(P[s], x, n) => Held(Q[s], x, n)
    BY DEF SameHold, Held
  <1> QED BY <1>1, AllHeldKept

(* A new word, or filler, at the end. *)
LEMMA AppendedWords ==
    ASSUME NEW w \in Words, NEW x \in Seq(Word)
    PROVE  LET v == Append(w, x)
           IN  /\ Len(v) = Len(w) + 1 /\ v \in Words
               /\ \A k \in DOMAIN v : v[k] = IF k = Len(v) THEN x ELSE w[k]
  <1> DEFINE v == Append(w, x)
  <1>1. w \in Seq(Seq(Word)) BY DEF Words, Word
  <1>2. /\ v \in Seq(Seq(Word)) /\ Len(v) = Len(w) + 1 /\ v[Len(w) + 1] = x
        /\ \A k \in 1 .. Len(w) : v[k] = w[k]
    BY <1>1, AppendProperties
  <1>3. Len(w) \in Nat /\ DOMAIN v = 1 .. Len(w) + 1
    BY <1>1, <1>2
  <1> HIDE DEF v
  <1> QED BY <1>2, <1>3 DEF Words, Word, v

LEMMA AppendedHeld ==
    ASSUME NEW Q, NEW w \in Words, AllHeld(Q, w), NEW x \in Seq(Word),
           Plain(w, Len(w)) /\ x # Filler =>
               \A part \in DOMAIN x : Held(Q[From(part)], x[part], Len(w))
    PROVE  LET v == Append(w, x)
           IN  /\ AllHeld(Q, v)
               /\ Plain(v, Len(v)) => Plain(w, Len(w)) /\ x # Filler
  <1> DEFINE v == Append(w, x)
  <1>1. w \in Seq(Seq(Word)) BY DEF Words, Word
  <1>2. /\ v \in Seq(Seq(Word)) /\ Len(v) = Len(w) + 1 /\ v[Len(w) + 1] = x
        /\ \A k \in 1 .. Len(w) : v[k] = w[k]
    BY <1>1, AppendProperties
  <1>3. Len(w) \in Nat /\ DOMAIN v = 1 .. Len(w) + 1 /\ DOMAIN w = 1 .. Len(w)
    BY <1>1, <1>2
  <1>4. ASSUME NEW k \in 1 .. Len(w), Plain(v, k) PROVE Plain(w, k)
    BY <1>2, <1>3, <1>4 DEF Plain
  <1>5. Plain(v, Len(v)) => Plain(w, Len(w)) /\ x # Filler
    BY <1>2, <1>3 DEF Plain
  <1>6. ASSUME NEW k \in DOMAIN v, Plain(v, k), NEW part \in DOMAIN v[k]
        PROVE  Held(Q[From(part)], v[k][part], k - 1)
    <2>1. CASE k = Len(w) + 1
      <3>1. Held(Q[From(part)], x[part], Len(w)) BY <1>2, <1>5, <1>6, <2>1
      <3>2. k - 1 = Len(w) BY <1>3, <2>1
      <3> QED BY <1>2, <2>1, <3>1, <3>2
    <2>2. CASE k # Len(w) + 1
      <3>1. k \in 1 .. Len(w) BY <1>3, <2>2
      <3>2. Plain(w, k) /\ v[k] = w[k] BY <1>2, <1>4, <1>6, <3>1
      <3> QED BY <1>3, <1>6, <3>1, <3>2 DEF AllHeld
    <2> QED BY <2>1, <2>2
  <1> QED BY <1>2, <1>5, <1>6 DEF AllHeld

LEMMA AppendWord ==
    ASSUME NEW x \in Seq(Word), NEW y \in Word
    PROVE  LET z == Append(x, y)
           IN  /\ z \in Seq(Word) /\ Len(z) = Len(x) + 1 /\ z[Len(x) + 1] = y
               /\ \A k \in 1 .. Len(x) : z[k] = x[k]
  BY AppendProperties

LEMMA SecondPart ==
    ASSUME NEW x \in Seq(Word), Len(x) = 1, NEW y \in Word
    PROVE  LET z == Append(x, y)
           IN  /\ z \in Seq(Word) /\ Len(z) = 2 /\ z[2] = y /\ z[1] = x[1]
               /\ DOMAIN z = 1 .. 2
               /\ x # Filler
  <1> DEFINE z == Append(x, y)
  <1>1. z \in Seq(Word) /\ Len(z) = Len(x) + 1 /\ z[Len(x) + 1] = y
        /\ \A k \in 1 .. Len(x) : z[k] = x[k]
    BY AppendWord, Zenon
  <1>2. Len(Filler) = 2 BY DEF Filler
  <1>3. ASSUME x = Filler PROVE FALSE
    <2>1. Len(x) = 2 BY <1>2, <1>3, Zenon
    <2>2. 1 # 2 OBVIOUS
    <2> QED BY <2>1, <2>2, Zenon
  <1> QED BY <1>1, <1>3

(* The second part of the last word. *)
LEMMA ExtendedWords ==
    ASSUME NEW w \in Words, w # <<>>, Len(w[Len(w)]) = 1, NEW y \in Word
    PROVE  LET v == Extended(w, y)
           IN  /\ v \in Words /\ Len(v) = Len(w) /\ Len(v[Len(w)]) = 2
               /\ \A k \in DOMAIN v : k # Len(w) => v[k] = w[k]
  <1> DEFINE n == Len(w)  x == w[n]  z == Append(x, y)  v == Extended(w, y)
  <1>1. w \in Seq(Seq(Word)) /\ n \in Nat /\ n >= 1
    <2>1. w \in Seq(Seq(Word)) BY DEF Words, Word
    <2>2. n \in Nat /\ n # 0 BY <2>1, EmptySeq
    <2> QED BY <2>1, <2>2
  <1>2. x \in Seq(Word) /\ Len(x) = 1
    <2>1. x \in Seq(Word) BY <1>1
    <2> QED BY <2>1
  <1>3. z \in Seq(Word) /\ Len(z) = 2
    <2> HIDE DEF x
    <2> QED BY <1>2, SecondPart
  <1>4. v = [w EXCEPT ![n] = z] BY DEF Extended
  <1> HIDE DEF z
  <1>5. v \in Seq(Seq(Word)) /\ Len(v) = n /\ v[n] = z
        /\ \A k \in 1 .. n : k # n => v[k] = w[k]
    BY <1>1, <1>3, <1>4, ExceptSeq
  <1>6. DOMAIN v = 1 .. n BY <1>5, LenProperties
  <1> HIDE DEF v, x
  <1> QED BY <1>3, <1>5, <1>6 DEF Words, Word, v

LEMMA ExtendedHeld ==
    ASSUME NEW Q, NEW w \in Words, AllHeld(Q, w), w # <<>>,
           Len(w[Len(w)]) = 1, NEW y \in Word,
           Plain(w, Len(w)) => Held(Q["TRNG"], y, Len(w) - 1)
    PROVE  LET v == Extended(w, y)
           IN  AllHeld(Q, v) /\ (Plain(v, Len(v)) => Plain(w, Len(w)))
  <1> DEFINE n == Len(w)  x == w[n]  z == Append(x, y)  v == Extended(w, y)
  <1>1. w \in Seq(Seq(Word)) /\ n \in Nat /\ n >= 1 /\ DOMAIN w = 1 .. n
    <2>1. w \in Seq(Seq(Word)) BY DEF Words, Word
    <2>2. n \in Nat /\ n # 0 BY <2>1, EmptySeq
    <2> QED BY <2>1, <2>2
  <1>2. x \in Seq(Word) /\ Len(x) = 1 /\ DOMAIN x = 1 .. 1
    <2>1. x \in Seq(Word) BY <1>1
    <2> QED BY <2>1
  <1>3. /\ z \in Seq(Word) /\ Len(z) = 2 /\ z[2] = y /\ z[1] = x[1]
        /\ DOMAIN z = 1 .. 2
    <2> HIDE DEF x
    <2> QED BY <1>2, SecondPart
  <1>4. v = [w EXCEPT ![n] = z] BY DEF Extended
  <1>5. x # Filler
    <2> HIDE DEF x
    <2> QED BY <1>2, SecondPart
  <1> HIDE DEF z
  <1>6. v \in Seq(Seq(Word)) /\ Len(v) = n /\ v[n] = z
        /\ \A k \in 1 .. n : k # n => v[k] = w[k]
    BY <1>1, <1>3, <1>4, ExceptSeq
  <1>7. DOMAIN v = 1 .. n BY <1>6, LenProperties
  <1> HIDE DEF x
  <1>8. ASSUME NEW k \in 1 .. n, Plain(v, k) PROVE Plain(w, k)
    <2> SUFFICES ASSUME NEW j \in 1 .. k PROVE w[j] # Filler BY DEF Plain
    <2>1. v[j] # Filler BY <1>8 DEF Plain
    <2>2. CASE j = n BY <1>5, <2>2 DEF x
    <2>3. CASE j # n
      <3>1. j \in 1 .. n BY <1>1
      <3>2. v[j] = w[j] BY <1>6, <2>3, <3>1
      <3> QED BY <2>1, <3>2
    <2> QED BY <2>2, <2>3
  <1>9. ASSUME NEW k \in DOMAIN v, Plain(v, k), NEW part \in DOMAIN v[k]
        PROVE  Held(Q[From(part)], v[k][part], k - 1)
    <2>1. Plain(w, k) BY <1>7, <1>8, <1>9
    <2>2. CASE k # n
      <3>1. v[k] = w[k] BY <1>6, <1>7, <2>2
      <3> QED BY <1>1, <1>7, <1>9, <2>1, <3>1 DEF AllHeld
    <2>3. CASE k = n
      <3>1. v[k] = z /\ part \in {1, 2} BY <1>3, <1>6, <1>9, <2>3
      <3>2. CASE part = 1
        <4>1. 1 \in DOMAIN w[n] BY <1>2 DEF x
        <4>2. Held(Q[From(1)], w[n][1], n - 1) BY <1>1, <2>1, <2>3, <4>1 DEF AllHeld
        <4> QED BY <1>3, <2>3, <3>1, <3>2, <4>2 DEF x
      <3>3. CASE part = 2
        <4>1. From(part) = "TRNG" /\ v[k][part] = y BY <1>3, <3>1, <3>3 DEF From
        <4> QED BY <2>1, <2>3, <4>1
      <3> QED BY <3>1, <3>2, <3>3
    <2> QED BY <2>2, <2>3
  <1>10. Plain(v, Len(v)) => Plain(w, Len(w))
    <2>1. n \in 1 .. n BY <1>1
    <2>2. Plain(v, n) => Plain(w, n) BY <1>8, <2>1
    <2> QED BY <1>6, <2>2
  <1> HIDE DEF v
  <1>11. AllHeld(Q, v) BY <1>9 DEF AllHeld
  <1> QED BY <1>10, <1>11 DEF v

(* What the steps of a message need to know. *)
LEMMA Facts ==
    ASSUME IInv, ReplayInv
    PROVE  /\ words \in Words /\ first \in Words
           /\ Len(words) \in Nat /\ need \in Nat /\ Len(words) <= need
           /\ client = "NONE" => words = <<>>
           /\ at # "idle" => words # <<>>
           /\ client = "CTAP" => \A s \in Sources : HasRewindPoint(pool[s])
  <1>1. /\ words \in Words /\ first \in Words /\ need \in 0 .. MaxNeed
        /\ Len(words) <= need
        /\ client = "NONE" => need = 0
        /\ at # "idle" => words # <<>>
        /\ client = "CTAP" => \A s \in Sources : HasRewindPoint(pool[s])
    BY DEF IInv, TypeOK, Clients, ReplayInv, TwoParts
  <1>2. Len(words) \in Nat BY <1>1 DEF Words
  <1>3. need \in Nat BY <1>1
  <1>4. client = "NONE" => words = <<>>
    <2> SUFFICES ASSUME client = "NONE" PROVE words = <<>> OBVIOUS
    <2>1. Len(words) = 0 BY <1>1, <1>2
    <2> QED BY <1>1, <2>1, EmptySeq DEF Words
  <1> QED BY <1>1, <1>2, <1>3, <1>4

LEMMA AllHeldEmpty ==
    ASSUME NEW Q
    PROVE  AllHeld(Q, <<>>)
  BY DEF AllHeld

LEMMA PushReplays ==
    ASSUME IInv, ReplayInv, NEW s \in Sources, rand_push(s)
    PROVE  ReplayInv'
  <1>1. UNCHANGED <<client, need, words, first, at, loaded>>
    BY DEF rand_push, user
  <1>2. /\ TwoParts'
        /\ client' # "CTAP" => first' = <<>>
    BY <1>1 DEF ReplayInv, TwoParts
  <1> SUFFICES ASSUME client = "CTAP"
               PROVE  /\ \A t \in Sources : HasRewindPoint(pool'[t])
                      /\ AllHeld(pool', words) /\ AllHeld(pool', first)
                      /\ \A t \in Sources : pool'[t].rewind_tail = pool[t].rewind_tail
                                            /\ pool'[t].tail = pool[t].tail
    BY <1>1, <1>2 DEF ReplayInv, ReadSince
  <1>3. /\ pool \in [Sources -> Ring] /\ \A t \in Sources : HasRewindPoint(pool[t])
        /\ words \in Words /\ first \in Words
        /\ AllHeld(pool, words) /\ AllHeld(pool, first)
    BY Facts DEF IInv, TypeOK, ReplayInv
  <1>4. CASE IsFull(pool[s])
    <2>1. pool' = pool BY <1>4 DEF rand_push
    <2> QED BY <1>3, <2>1
  <1>5. CASE ~IsFull(pool[s])
    <2> DEFINE q == Pushed(pool[s])
    <2>1. pool' = [pool EXCEPT ![s] = q] BY <1>5 DEF rand_push
    <2>2. pool'[s] = q /\ \A t \in Sources : t # s => pool'[t] = pool[t]
      BY <1>3, <2>1
    <2>3. pool[s] \in Ring /\ InTurn(pool[s]) BY RingOf
    <2>4. q.rewind_tail = pool[s].rewind_tail /\ q.tail = pool[s].tail
      BY <2>3 DEF Pushed, Ring
    <2>5. HasRewindPoint(q) BY <1>3, <2>4 DEF HasRewindPoint
    <2> HIDE DEF q
    <2>6. ASSUME NEW t \in Sources, NEW n \in Nat, NEW x, Held(pool[t], x, n)
          PROVE  Held(pool'[t], x, n)
      <3>1. CASE t # s BY <2>2, <2>6, <3>1
      <3>2. CASE t = s
        <4>1. HasRewindPoint(pool[s]) BY <1>3
        <4>2. Held(q, x, n) BY <1>5, <2>3, <2>6, <3>2, <4>1, HeldPushed DEF q
        <4> QED BY <2>2, <3>2, <4>2
      <3> QED BY <3>1, <3>2
    <2>7. AllHeld(pool', words) /\ AllHeld(pool', first)
      BY <1>3, <2>6, AllHeldKept
    <2> QED BY <1>3, <2>2, <2>4, <2>5, <2>7
  <1> QED BY <1>4, <1>5

LEMMA TakeRtcReplays ==
    ASSUME IInv, ReplayInv, TakeRtc
    PROVE  ReplayInv'
  <1> DEFINE rtc == pool["RTC"]  x == <<Taken(rtc)>>
  <1>1. /\ at = "idle" /\ at' = "RTC" /\ words' = Append(words, x)
        /\ UNCHANGED <<client, need, first>>
    BY DEF TakeRtc
  <1>2. /\ pool \in [Sources -> Ring] /\ words \in Words /\ first \in Words
        /\ Len(words) \in Nat
    BY Facts DEF IInv, TypeOK
  <1>3. pool'["RTC"] = TailMoved(rtc) /\ pool'["TRNG"] = pool["TRNG"]
    BY <1>2 DEF TakeRtc
  <1>4. /\ rtc \in Ring /\ InTurn(rtc) /\ Count(rtc) >= 1
    BY BothThere, RingOf
  <1>5. x \in Seq(Word) /\ Len(x) = 1 /\ DOMAIN x = {1} /\ x[1] = Taken(rtc)
    <2>1. Taken(rtc) \in Word BY <1>4, TakenIs
    <2> QED BY <2>1
  <1>6. \A s \in Sources : SameHold(pool[s], pool'[s])
    BY <1>2, <1>3, HoldsSame
  <1>7. ASSUME client = "CTAP"
        PROVE  /\ AllHeld(pool', words) /\ AllHeld(pool', first)
               /\ \A s \in Sources : HasRewindPoint(pool'[s])
               /\ Plain(words, Len(words)) =>
                    /\ Held(pool'["RTC"], Taken(rtc), Len(words))
                    /\ Distance(pool'["RTC"].rewind_tail, pool'["RTC"].tail)
                          = Len(words) + 1
                    /\ Distance(pool'["TRNG"].rewind_tail, pool'["TRNG"].tail)
                          = Len(words)
    <2>1. /\ AllHeld(pool, words) /\ AllHeld(pool, first)
          /\ \A s \in Sources : HasRewindPoint(pool[s])
          /\ Plain(words, Len(words)) =>
               /\ Distance(rtc.rewind_tail, rtc.tail) = Len(words)
               /\ Distance(pool["TRNG"].rewind_tail, pool["TRNG"].tail) = Len(words)
      BY <1>1, <1>2, <1>7 DEF ReplayInv, ReadSince
    <2>2. AllHeld(pool', words) /\ AllHeld(pool', first)
      BY <1>2, <1>6, <2>1, SameHeld
    <2>3. \A s \in Sources : HasRewindPoint(pool'[s])
      BY <1>6, <2>1 DEF HasRewindPoint, SameHold
    <2>4. HasRewindPoint(rtc) BY <2>1
    <2> HIDE DEF rtc
    <2>5. Plain(words, Len(words)) =>
            /\ Held(pool'["RTC"], Taken(rtc), Len(words))
            /\ Distance(pool'["RTC"].rewind_tail, pool'["RTC"].tail) = Len(words) + 1
      BY <1>2, <1>3, <1>4, <2>1, <2>4, TakenHeld
    <2> QED BY <1>3, <2>1, <2>2, <2>3, <2>5
  <1> HIDE DEF x
  <1>8. /\ words' \in Words /\ Len(words') = Len(words) + 1
        /\ \A k \in DOMAIN words' : words'[k] = IF k = Len(words') THEN x ELSE words[k]
    BY <1>1, <1>2, <1>5, AppendedWords
  <1>9. TwoParts'
    <2>1. \A k \in DOMAIN words : Len(words[k]) = 2
      BY <1>1 DEF ReplayInv, TwoParts
    <2>2. ASSUME NEW k \in DOMAIN words'
          PROVE  Len(words'[k]) = IF k = Len(words') THEN 1 ELSE 2
      <3>1. CASE k = Len(words') BY <1>5, <1>8, <3>1
      <3>2. CASE k # Len(words')
        <4>1. k \in DOMAIN words BY <1>2, <1>8, <3>2 DEF Words
        <4> QED BY <1>8, <2>1, <3>2, <4>1
      <3> QED BY <3>1, <3>2
    <2> QED BY <1>1, <2>2 DEF ReplayInv, TwoParts
  <1>10. CASE client = "CTAP"
    <2>1. Plain(words, Len(words)) /\ x # Filler =>
             \A part \in DOMAIN x : Held(pool'[From(part)], x[part], Len(words))
      BY <1>5, <1>7, <1>10 DEF From
    <2>2. /\ AllHeld(pool', words')
          /\ Plain(words', Len(words')) => Plain(words, Len(words))
      BY <1>1, <1>2, <1>5, <1>7, <1>10, <2>1, AppendedHeld
    <2>3. Plain(words', Len(words')) =>
             /\ Distance(pool'["RTC"].rewind_tail, pool'["RTC"].tail) = Len(words')
             /\ Distance(pool'["TRNG"].rewind_tail, pool'["TRNG"].tail)
                   = Len(words') - 1
      BY <1>2, <1>7, <1>8, <1>10, <2>2
    <2> QED BY <1>1, <1>7, <1>9, <1>10, <2>2, <2>3 DEF ReplayInv, ReadSince
  <1>11. CASE client # "CTAP"
    BY <1>1, <1>9, <1>11 DEF ReplayInv
  <1> QED BY <1>10, <1>11

LEMMA TakeTrngReplays ==
    ASSUME IInv, ReplayInv, TakeTrng
    PROVE  ReplayInv'
  <1> DEFINE trng == pool["TRNG"]  y == Taken(trng)  n == Len(words)
  <1>1. /\ at = "RTC" /\ at' = "TRNG" /\ words' = Extended(words, y)
        /\ UNCHANGED <<client, need, first>>
    BY DEF TakeTrng, Extended
  <1>2. /\ pool \in [Sources -> Ring] /\ words \in Words /\ first \in Words
        /\ words # <<>> /\ n \in Nat /\ Len(words[n]) = 1
    BY <1>1, Facts DEF IInv, TypeOK, Clients
  <1>3. /\ pool'["TRNG"] = TailMoved(trng)
        /\ \E word : pool'["RTC"] = LevelStored(pool["RTC"], word)
    BY <1>2 DEF TakeTrng
  <1>4. /\ trng \in Ring /\ InTurn(trng) /\ Count(trng) >= 1
    BY <1>1, RingOf DEF IInv, Promised
  <1>5. y \in Word BY <1>4, TakenIs
  <1>6. \A s \in Sources : SameHold(pool[s], pool'[s])
    BY <1>2, <1>3, HoldsSame
  <1>7. ASSUME client = "CTAP"
        PROVE  /\ AllHeld(pool', words) /\ AllHeld(pool', first)
               /\ \A s \in Sources : HasRewindPoint(pool'[s])
               /\ Plain(words, n) =>
                    /\ Held(pool'["TRNG"], y, n - 1)
                    /\ Distance(pool'["RTC"].rewind_tail, pool'["RTC"].tail) = n
                    /\ Distance(pool'["TRNG"].rewind_tail, pool'["TRNG"].tail) = n
    <2>1. /\ AllHeld(pool, words) /\ AllHeld(pool, first)
          /\ \A s \in Sources : HasRewindPoint(pool[s])
          /\ Plain(words, n) =>
               /\ Distance(pool["RTC"].rewind_tail, pool["RTC"].tail) = n
               /\ Distance(trng.rewind_tail, trng.tail) = n - 1
      BY <1>1, <1>7 DEF ReplayInv, ReadSince
    <2>2. AllHeld(pool', words) /\ AllHeld(pool', first)
      BY <1>2, <1>6, <2>1, SameHeld
    <2>3. \A s \in Sources : HasRewindPoint(pool'[s])
      BY <1>6, <2>1 DEF HasRewindPoint, SameHold
    <2>4. HasRewindPoint(trng) BY <2>1
    <2>5. n - 1 \in Nat /\ n - 1 + 1 = n
      <3>1. n # 0 BY <1>2, EmptySeq DEF Words
      <3> HIDE DEF n
      <3> QED BY <1>2, <3>1
    <2>6. pool'["RTC"].tail = pool["RTC"].tail
          /\ pool'["RTC"].rewind_tail = pool["RTC"].rewind_tail
      BY <1>2, <1>3 DEF LevelStored, Ring
    <2> HIDE DEF trng, n
    <2>7. Plain(words, n) =>
            /\ Held(pool'["TRNG"], Taken(trng), n - 1)
            /\ Distance(pool'["TRNG"].rewind_tail, pool'["TRNG"].tail) = n - 1 + 1
      BY <1>3, <1>4, <2>1, <2>4, <2>5, TakenHeld
    <2> QED BY <2>1, <2>2, <2>3, <2>5, <2>6, <2>7
  <1> HIDE DEF y
  <1>8. /\ words' \in Words /\ Len(words') = n
        /\ \A k \in DOMAIN words' : k # n => words'[k] = words[k]
        /\ Len(words'[n]) = 2
    BY <1>1, <1>2, <1>5, ExtendedWords
  <1>9. TwoParts'
    <2>1. \A k \in DOMAIN words : k # n => Len(words[k]) = 2
      BY <1>1 DEF ReplayInv, TwoParts
    <2>2. DOMAIN words' = DOMAIN words BY <1>2, <1>8 DEF Words
    <2>3. \A k \in DOMAIN words' : Len(words'[k]) = 2
      BY <1>8, <2>1, <2>2
    <2> QED BY <1>1, <2>3 DEF ReplayInv, TwoParts
  <1>10. CASE client = "CTAP"
    <2>1. /\ AllHeld(pool', words')
          /\ Plain(words', Len(words')) => Plain(words, n)
      BY <1>1, <1>2, <1>5, <1>7, <1>10, ExtendedHeld
    <2>2. Plain(words', Len(words')) =>
             /\ Distance(pool'["RTC"].rewind_tail, pool'["RTC"].tail) = Len(words')
             /\ Distance(pool'["TRNG"].rewind_tail, pool'["TRNG"].tail)
                   = Len(words') - 0
      BY <1>2, <1>7, <1>8, <1>10, <2>1
    <2> QED BY <1>1, <1>7, <1>9, <1>10, <2>1, <2>2 DEF ReplayInv, ReadSince
  <1>11. CASE client # "CTAP"
    BY <1>1, <1>9, <1>11 DEF ReplayInv
  <1> QED BY <1>10, <1>11

LEMMA TakeDoneReplays ==
    ASSUME IInv, ReplayInv, TakeDone
    PROVE  ReplayInv'
  <1>1. /\ at = "TRNG" /\ at' = "idle"
        /\ UNCHANGED <<client, need, words, first>>
    BY DEF TakeDone, user
  <1>2. /\ pool \in [Sources -> Ring] /\ words \in Words /\ first \in Words
    BY Facts DEF IInv, TypeOK
  <1>3. /\ pool'["RTC"] = pool["RTC"]
        /\ \E word : pool'["TRNG"] = LevelStored(pool["TRNG"], word)
    BY <1>2 DEF TakeDone
  <1>4. \A s \in Sources : /\ SameHold(pool[s], pool'[s])
                           /\ pool'[s].tail = pool[s].tail
                           /\ pool'[s].rewind_tail = pool[s].rewind_tail
    <2>1. /\ SameHold(pool["RTC"], pool'["RTC"])
          /\ pool'["RTC"].tail = pool["RTC"].tail
          /\ pool'["RTC"].rewind_tail = pool["RTC"].rewind_tail
      BY <1>3 DEF SameHold
    <2>2. PICK word : pool'["TRNG"] = LevelStored(pool["TRNG"], word) BY <1>3
    <2>3. pool["TRNG"] \in Ring BY <1>2
    <2>4. SameHold(pool["TRNG"], pool'["TRNG"]) BY <2>2, <2>3, HoldsSame
    <2>5. /\ pool'["TRNG"].tail = pool["TRNG"].tail
          /\ pool'["TRNG"].rewind_tail = pool["TRNG"].rewind_tail
      BY <2>2, <2>3 DEF LevelStored, Ring
    <2> QED BY <2>1, <2>4, <2>5
  <1>5. TwoParts' BY <1>1 DEF ReplayInv, TwoParts
  <1>6. CASE client = "CTAP"
    <2>1. /\ AllHeld(pool, words) /\ AllHeld(pool, first)
          /\ \A s \in Sources : HasRewindPoint(pool[s])
          /\ Plain(words, Len(words)) =>
               /\ ReadSince("RTC", Len(words)) /\ ReadSince("TRNG", Len(words) - 0)
      BY <1>1, <1>6 DEF ReplayInv
    <2>2. AllHeld(pool', words) /\ AllHeld(pool', first)
      BY <1>2, <1>4, <2>1, SameHeld
    <2>3. \A s \in Sources : HasRewindPoint(pool'[s])
      BY <1>4, <2>1 DEF HasRewindPoint
    <2> QED BY <1>1, <1>4, <1>5, <1>6, <2>1, <2>2, <2>3 DEF ReplayInv, ReadSince
  <1>7. CASE client # "CTAP"
    BY <1>1, <1>5, <1>7 DEF ReplayInv
  <1> QED BY <1>6, <1>7

LEMMA TakeFillerReplays ==
    ASSUME IInv, ReplayInv, TakeFiller
    PROVE  ReplayInv'
  <1> DEFINE x == Filler
  <1>1. /\ at = "idle" /\ client = "CTAP" /\ words' = Append(words, x)
        /\ UNCHANGED <<pool, irq, client, need, first, at, loaded>>
    BY DEF TakeFiller
  <1>2. words \in Words /\ Len(words) \in Nat BY Facts
  <1>3. x \in Seq(Word) /\ Len(x) = 2 BY DEF Filler, Word
  <1> HIDE DEF x
  <1>4. /\ words' \in Words /\ Len(words') = Len(words) + 1
        /\ \A k \in DOMAIN words' : words'[k] = IF k = Len(words') THEN x ELSE words[k]
    BY <1>1, <1>2, <1>3, AppendedWords
  <1>5. AllHeld(pool, words') /\ ~Plain(words', Len(words'))
    <2>1. AllHeld(pool, words) /\ x = Filler BY <1>1 DEF ReplayInv, x
    <2> QED BY <1>1, <1>2, <1>3, <2>1, AppendedHeld
  <1>6. TwoParts'
    <2>1. \A k \in DOMAIN words : Len(words[k]) = 2
      BY <1>1 DEF ReplayInv, TwoParts
    <2>2. ASSUME NEW k \in DOMAIN words' PROVE Len(words'[k]) = 2
      <3>1. CASE k = Len(words') BY <1>3, <1>4, <3>1
      <3>2. CASE k # Len(words')
        <4>1. k \in DOMAIN words BY <1>2, <1>4, <3>2 DEF Words
        <4> QED BY <1>4, <2>1, <3>2, <4>1
      <3> QED BY <3>1, <3>2
    <2> QED BY <1>1, <2>2 DEF ReplayInv, TwoParts
  <1> QED BY <1>1, <1>5, <1>6 DEF ReplayInv

LEMMA SignetReplays ==
    ASSUME IInv, ReplayInv, (\E n \in 1 .. MaxNeed : SignetCommand(n)) \/ SignetDone
    PROVE  ReplayInv'
  <1>1. /\ client # "CTAP" /\ client' # "CTAP" /\ UNCHANGED <<first, at>>
        /\ words' = words \/ words' = <<>>
    BY DEF SignetCommand, SignetDone
  <1>2. TwoParts' BY <1>1 DEF ReplayInv, TwoParts
  <1> QED BY <1>1, <1>2 DEF ReplayInv

(* A new message, or the same one from the start. *)
LEMMA NewRewindPoint ==
    ASSUME NEW p \in Ring
    PROVE  LET q == WithRewindPoint(p)
           IN  HasRewindPoint(q) /\ Distance(q.rewind_tail, q.tail) = 0
  <1>1. p.tail \in Slots BY DEF Ring
  <1>2. Distance(p.tail, p.tail) = 0
    <2>1. p.tail \in Int BY <1>1, SlotIs
    <2> QED BY <1>1, <2>1, DistanceIs
  <1>3. WithRewindPoint(p).rewind_tail = p.tail /\ WithRewindPoint(p).tail = p.tail
    BY DEF WithRewindPoint, Ring
  <1> QED BY <1>1, <1>2, <1>3, SlotIs DEF HasRewindPoint

LEMMA CtapMessageReplays ==
    ASSUME IInv, ReplayInv, NEW n \in 1 .. MaxNeed, CtapMessage(n)
    PROVE  ReplayInv'
  <1>1. /\ client = "NONE" /\ UNCHANGED <<words, first, at>>
        /\ \A s \in Sources : pool'[s] = WithRewindPoint(Cleared(pool[s]))
    BY DEF CtapMessage
  <1>2. words = <<>> /\ first = <<>> /\ at \in {"idle"} \cup Sources
    BY <1>1, Facts DEF ReplayInv, IInv, TypeOK
  <1>3. at = "idle" BY <1>2, Facts
  <1>4. \A s \in Sources : /\ HasRewindPoint(pool'[s])
                           /\ Distance(pool'[s].rewind_tail, pool'[s].tail) = 0
    <2>1. \A s \in Sources : Cleared(pool[s]) \in Ring BY RingOf, ClearedRing
    <2> QED BY <1>1, <2>1, NewRewindPoint
  <1>5. TwoParts' BY <1>1 DEF ReplayInv, TwoParts
  <1>6. AllHeld(pool', <<>>) BY AllHeldEmpty
  <1>7. Len(<<>>) = 0 OBVIOUS
  <1> QED BY <1>1, <1>2, <1>3, <1>4, <1>5, <1>6, <1>7 DEF ReplayInv, ReadSince

LEMMA CtapRestartReplays ==
    ASSUME IInv, ReplayInv, CtapRestart
    PROVE  ReplayInv'
  <1>1. /\ client = "CTAP" /\ at = "idle" /\ UNCHANGED <<client, at>>
        /\ first' = words /\ words' = <<>>
        /\ \A s \in Sources : pool'[s] = WithRewindPoint(Rewound(pool[s]))
    BY DEF CtapRestart
  <1>2. words \in Words BY Facts
  <1>3. \A s \in Sources : /\ pool[s] \in Ring /\ Rewound(pool[s]) \in Ring
                           /\ HasRewindPoint(pool[s])
    <2>1. \A s \in Sources : pool[s] \in Ring /\ HasRewindPoint(pool[s])
      BY <1>1, Facts DEF IInv, TypeOK
    <2>2. ASSUME NEW s \in Sources PROVE Rewound(pool[s]) \in Ring
      <3> DEFINE p == pool[s]
      <3>1. p \in Ring /\ HasRewindPoint(p) BY <2>1
      <3> HIDE DEF p
      <3>2. p.rewind_tail \in Slots /\ p.rewind_level \in Int
        BY <3>1 DEF Ring, HasRewindPoint
      <3>3. Rewound(p) \in Ring BY <3>1, <3>2 DEF Rewound, Ring
      <3> QED BY <3>3 DEF p
    <2> QED BY <2>1, <2>2
  <1>4. \A s \in Sources : /\ HasRewindPoint(pool'[s])
                           /\ Distance(pool'[s].rewind_tail, pool'[s].tail) = 0
    BY <1>1, <1>3, NewRewindPoint
  <1>5. AllHeld(pool', words)
    <2>1. \A s \in Sources : SameHold(pool[s], pool'[s]) BY <1>1, <1>3, HoldsSame
    <2>2. AllHeld(pool, words) BY <1>1 DEF ReplayInv
    <2> QED BY <1>2, <2>1, <2>2, SameHeld
  <1>6. TwoParts'
    <2>1. \A k \in DOMAIN words : Len(words[k]) = 2
      BY <1>1 DEF ReplayInv, TwoParts
    <2> QED BY <1>1, <1>2, <2>1 DEF TwoParts
  <1>7. AllHeld(pool', <<>>) BY AllHeldEmpty
  <1>8. Len(<<>>) = 0 OBVIOUS
  <1> QED BY <1>1, <1>4, <1>5, <1>6, <1>7, <1>8 DEF ReplayInv, ReadSince

LEMMA CtapDoneReplays ==
    ASSUME IInv, ReplayInv, CtapDone
    PROVE  ReplayInv'
  <1>1. client' = "NONE" /\ words' = <<>> /\ first' = <<>> BY DEF CtapDone
  <1>2. TwoParts' BY <1>1 DEF TwoParts, Words
  <1> QED BY <1>1, <1>2 DEF ReplayInv

LEMMA NextReplays == IInv /\ ReplayInv /\ [Next]_vars => ReplayInv'
  <1> SUFFICES ASSUME IInv, ReplayInv, [Next]_vars PROVE ReplayInv' OBVIOUS
  <1>1. CASE \E s \in Sources : rand_push(s) BY <1>1, PushReplays
  <1>2. CASE TakeRtc BY <1>2, TakeRtcReplays
  <1>3. CASE TakeTrng BY <1>3, TakeTrngReplays
  <1>4. CASE TakeDone BY <1>4, TakeDoneReplays
  <1>5. CASE TakeFiller BY <1>5, TakeFillerReplays
  <1>6. CASE (\E n \in 1 .. MaxNeed : SignetCommand(n)) \/ SignetDone
    BY <1>6, SignetReplays
  <1>7. CASE \E n \in 1 .. MaxNeed : CtapMessage(n) BY <1>7, CtapMessageReplays
  <1>8. CASE CtapRestart BY <1>8, CtapRestartReplays
  <1>9. CASE CtapDone BY <1>9, CtapDoneReplays
  <1>10. CASE UNCHANGED vars
    BY <1>10 DEF vars, user, ReplayInv, TwoParts, ReadSince
  <1> QED
    BY <1>1, <1>2, <1>3, <1>4, <1>5, <1>6, <1>7, <1>8, <1>9, <1>10 DEF Next

(* Two words read at the same distance from the rewind point are the same. *)
LEMMA HeldIsReplayed == IInv /\ ReplayInv => Replayed
  <1> SUFFICES ASSUME IInv, ReplayInv,
                      NEW k \in DOMAIN words \cap DOMAIN first,
                      \A j \in 1 .. k : Filler \notin {words[j], first[j]},
                      NEW part \in DOMAIN words[k]
               PROVE  words[k][part] = first[k][part]
    BY DEF Replayed
  <1>1. client = "CTAP"
    <2>1. first # <<>> OBVIOUS
    <2> QED BY <2>1 DEF ReplayInv
  <1>2. Plain(words, k) /\ Plain(first, k) BY DEF Plain
  <1>3. part \in DOMAIN first[k]
    <2>1. words[k] \in Seq(Int \X Int) /\ first[k] \in Seq(Int \X Int)
      BY Facts DEF Words
    <2>2. Len(first[k]) = 2 /\ Len(words[k]) \in {1, 2}
      BY DEF ReplayInv, TwoParts
    <2> QED BY <2>1, <2>2
  <1> DEFINE s == From(part)  p == pool[s]
             x == words[k][part]  y == first[k][part]
  <1>4. Held(p, x, k - 1) BY <1>1, <1>2 DEF ReplayInv, AllHeld
  <1>5. Held(p, y, k - 1) BY <1>1, <1>2, <1>3 DEF ReplayInv, AllHeld
  <1>6. p.rewind_tail \in Slots
    <2>1. s \in Sources BY DEF From
    <2> QED BY <1>1, <2>1, RingOf, CountIs DEF ReplayInv
  <1> HIDE DEF p, x, y
  <1>7. x[1] = y[1] BY <1>4, <1>5, <1>6, SameDistance DEF Held
  <1>8. x = y BY <1>4, <1>5, <1>7 DEF Held
  <1> QED BY <1>8 DEF x, y

(* A FIDO2 message carried through again, because it had run out of words or    *)
(* had to wait for the button, is given the words it was given before: rand_push *)
(* stops short of the rewind point, and rand_rewind goes back to it.            *)
THEOREM SameWordsAgain == Spec => []Replayed
  <1>1. Init => ReplayInv
    BY DEF Init, ReplayInv, TwoParts, Words
  <1> QED
    BY <1>1, InitIInv, NextIInv, NextReplays, HeldIsReplayed, PTL DEF Spec
==============================================================================
