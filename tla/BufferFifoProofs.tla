--------------------------- MODULE BufferFifoProofs ---------------------------
(* Proofs about the buffer ring for every number of buffers, buffer size and    *)
(* transfer length.                                                             *)
EXTENDS BufferFifo, TLAPS

------------------------------------------------------------------------------
(* What the operations on struct bufferFIFO do, field by field. *)

(* bufferFIFO_execStage marks the stage as running and nothing else. *)
LEMMA ExecFields ==
    ASSUME NEW b \in FifoStruct, NEW s \in StageIdx
    PROVE  LET e == bufferFIFO_execStage(b, s)
           IN /\ e \in FifoStruct
              /\ e.numStages = b.numStages
              /\ e.bufferSize = b.bufferSize
              /\ e.stageReadIndex = b.stageReadIndex
              /\ e.stageWriteIndex = b.stageWriteIndex
              /\ e.stalled = b.stalled
              /\ e.stageProcessing = [b.stageProcessing EXCEPT ![s] = TRUE]
              /\ e.processing = b.processing
              /\ e.stall_index = b.stall_index
              /\ e.exec = b.exec \cup {s}
BY DEF bufferFIFO_execStage, FifoStruct

(* Handing over a buffer moves both indices of the stage by one. *)
LEMMA AdvanceFields ==
    ASSUME NEW b \in FifoStruct, NEW s \in StageIdx, NEW l \in Nat
    PROVE  LET a == Advance(b, s, l)
           IN /\ a \in FifoStruct
              /\ a.numStages = b.numStages
              /\ a.bufferSize = [b.bufferSize EXCEPT ![WriteBuffer(b, s)] = l]
              /\ a.stageReadIndex = [b.stageReadIndex EXCEPT ![s] = @ + 1]
              /\ a.stageWriteIndex = [b.stageWriteIndex EXCEPT ![s] = @ + 1]
              /\ a.stalled = b.stalled
              /\ a.stageProcessing = [b.stageProcessing EXCEPT ![s] = FALSE]
              /\ a.processing = b.processing
              /\ a.stall_index = b.stall_index
              /\ a.exec = {}
  <1>1. b.stageReadIndex[s] + 1 \in Nat /\ b.stageWriteIndex[s] + 1 \in Nat
    BY DEF FifoStruct
  <1> QED BY <1>1 DEF Advance, FifoStruct

(* The loop over _stall_index stops, at the first stage that is not drained. *)
LEMMA StallIndexStops ==
    ASSUME NEW b \in FifoStruct, b.stall_index <= b.numStages
    PROVE  LET k == NextStallIndex(b)
           IN /\ k \in b.stall_index .. b.numStages
              /\ \A s \in b.stall_index .. k - 1 : Drained(b, s)
              /\ k < b.numStages => ~Drained(b, k)
  <1> DEFINE lo == b.stall_index  n == b.numStages
             Stops(k) == /\ \A s \in lo .. k - 1 : Drained(b, s)
                         /\ k < n => ~Drained(b, k)
  <1>1. lo \in 0 .. 4 /\ n \in 2 .. 4 /\ lo <= n
    BY DEF FifoStruct, MaxStages
  <1> HIDE DEF lo, n
  <1>2. \E k \in lo .. n : Stops(k)
    <2>1. CASE \A s \in lo .. n - 1 : Drained(b, s)
      <3>1. Stops(n) BY <1>1, <2>1
      <3> QED BY <1>1, <3>1
    <2>2. CASE \E s \in lo .. n - 1 : ~Drained(b, s)
      <3>1. PICK k \in lo .. n - 1 :
               /\ ~Drained(b, k)
               /\ \A s \in lo .. n - 1 : s < k => Drained(b, s)
        <4>1. CASE lo <= 0 /\ 0 < n /\ ~Drained(b, 0) BY <1>1, <4>1
        <4>2. CASE lo <= 1 /\ 1 < n /\ ~Drained(b, 1)
                   /\ (lo <= 0 => Drained(b, 0)) BY <1>1, <4>2
        <4>3. CASE lo <= 2 /\ 2 < n /\ ~Drained(b, 2)
                   /\ \A s \in {0, 1} : lo <= s => Drained(b, s) BY <1>1, <4>3
        <4>4. CASE lo <= 3 /\ 3 < n /\ ~Drained(b, 3)
                   /\ \A s \in {0, 1, 2} : lo <= s => Drained(b, s) BY <1>1, <4>4
        <4> QED BY <1>1, <2>2, <4>1, <4>2, <4>3, <4>4
      <3>2. Stops(k) BY <1>1, <3>1
      <3> QED BY <1>1, <3>2
    <2> QED BY <2>1, <2>2
  <1>3. NextStallIndex(b) = CHOOSE k \in lo .. n : Stops(k)
    BY DEF NextStallIndex, lo, n
  <1>4. NextStallIndex(b) \in lo .. n /\ Stops(NextStallIndex(b))
    BY <1>2, <1>3
  <1> QED BY <1>4 DEF lo, n

(* Completion detection changes only stall_index and processing. *)
LEMMA DetectFields ==
    ASSUME NEW b \in FifoStruct, b.stall_index <= b.numStages
    PROVE  LET d == DetectCompletion(b)
           IN /\ d \in FifoStruct
              /\ d.numStages = b.numStages
              /\ d.bufferSize = b.bufferSize
              /\ d.stageReadIndex = b.stageReadIndex
              /\ d.stageWriteIndex = b.stageWriteIndex
              /\ d.stalled = b.stalled
              /\ d.stageProcessing = b.stageProcessing
              /\ d.exec = b.exec
              /\ d.stall_index <= d.numStages
              /\ d.processing => b.processing
              /\ d.processing => \A s \in b.stall_index .. d.stall_index - 1 :
                                    Drained(b, s)
              /\ b.processing /\ ~d.processing =>
                    \A s \in b.stall_index .. b.numStages - 1 : Drained(b, s)
  <1> DEFINE k == NextStallIndex(b)
  <1>1. /\ k \in b.stall_index .. b.numStages
        /\ \A s \in b.stall_index .. k - 1 : Drained(b, s)
    BY StallIndexStops
  <1>2. b.stall_index \in 0 .. MaxStages /\ b.numStages \in 2 .. MaxStages
    BY DEF FifoStruct
  <1>3. k \in 0 .. MaxStages /\ k <= b.numStages
    BY <1>1, <1>2 DEF MaxStages
  <1> HIDE DEF k
  <1>4. CASE ~b.processing
    BY <1>4, <1>2 DEF DetectCompletion, FifoStruct
  <1>5. CASE b.processing
    <2>1. DetectCompletion(b) = [b EXCEPT !.stall_index = k,
                                          !.processing = k # b.numStages]
      BY <1>5 DEF DetectCompletion, k
    <2> QED BY <2>1, <1>1, <1>3, <1>5 DEF FifoStruct
  <1> QED BY <1>4, <1>5

(* The index comparisons of bufferFIFO_stageStalled. *)
NoBuffer(b, s) ==
    \/ s # 0 /\ b.stageReadIndex[s] = b.stageWriteIndex[s - 1]
    \/ s = 0 /\ b.stageWriteIndex[0] =
                    b.stageReadIndex[b.numStages - 1] + BufferCount

(* Trying to launch stage t: it runs afterwards unless something holds it back. *)
LEMMA LaunchFields ==
    ASSUME NEW b \in FifoStruct, NEW t \in StageIdx
    PROVE  LET e == ExecUnlessStalled(b, t)
           IN /\ e \in FifoStruct
              /\ e.numStages = b.numStages
              /\ e.bufferSize = b.bufferSize
              /\ e.stageReadIndex = b.stageReadIndex
              /\ e.stageWriteIndex = b.stageWriteIndex
              /\ e.stalled = b.stalled
              /\ e.processing = b.processing
              /\ e.stall_index = b.stall_index
              /\ \/ /\ e.exec = b.exec \cup {t}
                    /\ ~b.stageProcessing[t] /\ ~b.stalled[t] /\ ~NoBuffer(b, t)
                    /\ e.stageProcessing = [b.stageProcessing EXCEPT ![t] = TRUE]
                 \/ /\ e.exec = b.exec
                    /\ b.stageProcessing[t] \/ b.stalled[t] \/ NoBuffer(b, t)
                    /\ e.stageProcessing = b.stageProcessing
BY ExecFields DEF ExecUnlessStalled, bufferFIFO_stageStalled, NoBuffer

(* What bufferFIFO_processingComplete leaves in p: stage s, of a FIFO that was  *)
(* in b, hands over a buffer of length l.                                       *)
HandedOver(b, p, s, l) ==
    LET nx == (s + 1) % b.numStages
    IN /\ p \in FifoStruct
       /\ p.numStages = b.numStages
       /\ p.bufferSize = [b.bufferSize EXCEPT ![WriteBuffer(b, s)] = l]
       /\ p.stageReadIndex = [b.stageReadIndex EXCEPT ![s] = @ + 1]
       /\ p.stageWriteIndex = [b.stageWriteIndex EXCEPT ![s] = @ + 1]
       /\ p.stalled = b.stalled
       /\ p.stall_index <= p.numStages
       /\ p.exec \subseteq {s, nx}
       /\ \A t \in StageIdx :
             p.stageProcessing[t] <=> (t # s /\ b.stageProcessing[t])
                                      \/ t \in p.exec
       /\ \A t \in p.exec : /\ ~b.stalled[t] /\ ~NoBuffer(p, t)
                            /\ t # s => ~b.stageProcessing[t]
       /\ \A t \in {s, nx} : p.stageProcessing[t] \/ b.stalled[t]
                              \/ NoBuffer(p, t)
       /\ p.processing => \A t \in b.stall_index .. p.stall_index - 1 :
                             Drained(p, t)
       /\ b.processing /\ ~p.processing =>
             \A t \in b.stall_index .. b.numStages - 1 : Drained(p, t)

LEMMA CompleteFields ==
    ASSUME NEW b \in FifoStruct, b.stall_index <= b.numStages,
           NEW s \in 0 .. b.numStages - 1, NEW l \in Nat
    PROVE  HandedOver(b, bufferFIFO_processingComplete(b, s, l), s, l)
  <1> DEFINE n  == b.numStages
             nx == (s + 1) % n
             a  == Advance(b, s, l)
             e1 == ExecUnlessStalled(a, s)
             e2 == ExecUnlessStalled(e1, nx)
             p  == DetectCompletion(e2)
  <1>1. n \in 2 .. 4 /\ s \in StageIdx /\ nx \in StageIdx /\ nx # s
    <2>1. n \in 2 .. 4 BY DEF FifoStruct, MaxStages
    <2>2. CASE s = n - 1
      <3>1. nx = 0 BY <2>1, <2>2
      <3> QED BY <2>1, <2>2, <3>1 DEF StageIdx, MaxStages
    <2>3. CASE s < n - 1
      <3>1. nx = s + 1 BY <2>1, <2>3
      <3> QED BY <2>1, <2>3, <3>1 DEF StageIdx, MaxStages
    <2> QED BY <2>1, <2>2, <2>3
  <1>2. bufferFIFO_processingComplete(b, s, l) = p
    BY DEF bufferFIFO_processingComplete
  <1>3. /\ a \in FifoStruct
        /\ a.numStages = n
        /\ a.bufferSize = [b.bufferSize EXCEPT ![WriteBuffer(b, s)] = l]
        /\ a.stageReadIndex = [b.stageReadIndex EXCEPT ![s] = @ + 1]
        /\ a.stageWriteIndex = [b.stageWriteIndex EXCEPT ![s] = @ + 1]
        /\ a.stalled = b.stalled
        /\ a.stageProcessing = [b.stageProcessing EXCEPT ![s] = FALSE]
        /\ a.processing = b.processing
        /\ a.stall_index = b.stall_index
        /\ a.exec = {}
    BY <1>1, AdvanceFields
  <1> HIDE DEF a, nx
  <1>4. /\ e1 \in FifoStruct
        /\ e1.numStages = n
        /\ e1.bufferSize = a.bufferSize
        /\ e1.stageReadIndex = a.stageReadIndex
        /\ e1.stageWriteIndex = a.stageWriteIndex
        /\ e1.stalled = b.stalled
        /\ e1.processing = b.processing
        /\ e1.stall_index = b.stall_index
        /\ \/ /\ e1.exec = {s} /\ ~b.stalled[s] /\ ~NoBuffer(a, s)
              /\ e1.stageProcessing = [a.stageProcessing EXCEPT ![s] = TRUE]
           \/ /\ e1.exec = {} /\ (b.stalled[s] \/ NoBuffer(a, s))
              /\ e1.stageProcessing = a.stageProcessing
    <2>1. ~a.stageProcessing[s] BY <1>1, <1>3 DEF FifoStruct
    <2>2. /\ e1 \in FifoStruct
          /\ e1.numStages = a.numStages
          /\ e1.bufferSize = a.bufferSize
          /\ e1.stageReadIndex = a.stageReadIndex
          /\ e1.stageWriteIndex = a.stageWriteIndex
          /\ e1.stalled = a.stalled
          /\ e1.processing = a.processing
          /\ e1.stall_index = a.stall_index
          /\ \/ /\ e1.exec = a.exec \cup {s}
                /\ ~a.stageProcessing[s] /\ ~a.stalled[s] /\ ~NoBuffer(a, s)
                /\ e1.stageProcessing = [a.stageProcessing EXCEPT ![s] = TRUE]
             \/ /\ e1.exec = a.exec
                /\ a.stageProcessing[s] \/ a.stalled[s] \/ NoBuffer(a, s)
                /\ e1.stageProcessing = a.stageProcessing
      BY <1>1, <1>3, LaunchFields
    <2> HIDE DEF e1
    <2> QED BY <1>3, <2>1, <2>2
  <1> HIDE DEF e1
  <1>5. /\ e2 \in FifoStruct
        /\ e2.numStages = n
        /\ e2.bufferSize = a.bufferSize
        /\ e2.stageReadIndex = a.stageReadIndex
        /\ e2.stageWriteIndex = a.stageWriteIndex
        /\ e2.stalled = b.stalled
        /\ e2.processing = b.processing
        /\ e2.stall_index = b.stall_index
        /\ \/ /\ e2.exec = e1.exec \cup {nx}
              /\ ~e1.stageProcessing[nx] /\ ~b.stalled[nx] /\ ~NoBuffer(e1, nx)
              /\ e2.stageProcessing = [e1.stageProcessing EXCEPT ![nx] = TRUE]
           \/ /\ e2.exec = e1.exec
              /\ e1.stageProcessing[nx] \/ b.stalled[nx] \/ NoBuffer(e1, nx)
              /\ e2.stageProcessing = e1.stageProcessing
    <2>1. e1 \in FifoStruct /\ nx \in StageIdx BY <1>1, <1>4
    <2>2. /\ e2 \in FifoStruct
          /\ e2.numStages = e1.numStages
          /\ e2.bufferSize = e1.bufferSize
          /\ e2.stageReadIndex = e1.stageReadIndex
          /\ e2.stageWriteIndex = e1.stageWriteIndex
          /\ e2.stalled = e1.stalled
          /\ e2.processing = e1.processing
          /\ e2.stall_index = e1.stall_index
          /\ \/ /\ e2.exec = e1.exec \cup {nx}
                /\ ~e1.stageProcessing[nx] /\ ~e1.stalled[nx] /\ ~NoBuffer(e1, nx)
                /\ e2.stageProcessing = [e1.stageProcessing EXCEPT ![nx] = TRUE]
             \/ /\ e2.exec = e1.exec
                /\ e1.stageProcessing[nx] \/ e1.stalled[nx] \/ NoBuffer(e1, nx)
                /\ e2.stageProcessing = e1.stageProcessing
      BY <2>1, LaunchFields
    <2> HIDE DEF e2
    <2> QED BY <1>4, <2>2
  <1> HIDE DEF e2
  <1>6. /\ p \in FifoStruct
        /\ p.numStages = n
        /\ p.bufferSize = a.bufferSize
        /\ p.stageReadIndex = a.stageReadIndex
        /\ p.stageWriteIndex = a.stageWriteIndex
        /\ p.stalled = b.stalled
        /\ p.stageProcessing = e2.stageProcessing
        /\ p.exec = e2.exec
        /\ p.stall_index <= p.numStages
        /\ p.processing => b.processing
        /\ p.processing => \A t \in b.stall_index .. p.stall_index - 1 :
                              Drained(e2, t)
        /\ b.processing /\ ~p.processing =>
              \A t \in b.stall_index .. n - 1 : Drained(e2, t)
    BY <1>5, DetectFields
  <1> HIDE DEF p
  <1>7. \A t \in StageIdx : /\ NoBuffer(p, t) <=> NoBuffer(a, t)
                            /\ NoBuffer(e1, t) <=> NoBuffer(a, t)
    BY <1>3, <1>4, <1>6 DEF NoBuffer
  <1>8. \A t : Drained(e2, t) => Drained(p, t)
    BY <1>5, <1>6 DEF Drained
  <1>9. /\ \A t \in StageIdx : t # s => (a.stageProcessing[t] <=> b.stageProcessing[t])
        /\ ~a.stageProcessing[s]
    BY <1>1, <1>3 DEF FifoStruct
  <1>10. /\ p.exec \subseteq {s, nx}
         /\ \A t \in StageIdx :
               p.stageProcessing[t] <=> (t # s /\ b.stageProcessing[t])
                                        \/ t \in p.exec
         /\ \A t \in p.exec : /\ ~b.stalled[t] /\ ~NoBuffer(p, t)
                              /\ t # s => ~b.stageProcessing[t]
         /\ \A t \in {s, nx} : p.stageProcessing[t] \/ b.stalled[t]
                                \/ NoBuffer(p, t)
    <2>1. /\ a.stageProcessing \in [StageIdx -> BOOLEAN]
          /\ e1.stageProcessing \in [StageIdx -> BOOLEAN]
          /\ e2.stageProcessing \in [StageIdx -> BOOLEAN]
      BY <1>3, <1>4, <1>5 DEF FifoStruct
    <2> QED BY <1>1, <1>4, <1>5, <1>6, <1>7, <1>9, <2>1
  <1> HIDE DEF p, a, e1, e2
  <1>11. HandedOver(b, p, s, l)
    BY <1>3, <1>6, <1>8, <1>10 DEF HandedOver, nx
  <1> QED BY <1>2, <1>11

(* Stalling a stage stops it and nothing else. *)
LEMMA StallFields ==
    ASSUME NEW b \in FifoStruct, NEW s \in StageIdx
    PROVE  LET e == bufferFIFO_stallStage(b, s)
           IN /\ e \in FifoStruct
              /\ e.numStages = b.numStages
              /\ e.bufferSize = b.bufferSize
              /\ e.stageReadIndex = b.stageReadIndex
              /\ e.stageWriteIndex = b.stageWriteIndex
              /\ e.stalled = [b.stalled EXCEPT ![s] = TRUE]
              /\ e.stageProcessing = [b.stageProcessing EXCEPT ![s] = FALSE]
              /\ e.processing = b.processing
              /\ e.stall_index = b.stall_index
              /\ e.exec = b.exec
BY DEF bufferFIFO_stallStage, FifoStruct

(* The state in which bufferFIFO_start leaves a transfer of n stages. *)
LEMMA StartFields ==
    ASSUME NEW b \in FifoStruct, NEW n \in 2 .. MaxStages, NEW l \in Nat
    PROVE  LET p == bufferFIFO_start([b EXCEPT !.numStages = n], l)
           IN /\ p \in FifoStruct
              /\ p.numStages = n
              /\ p.processing
              /\ p.stall_index = 0
              /\ p.exec = {0}
              /\ \A s \in StageIdx :
                    /\ s < n => /\ p.stageReadIndex[s] = FirstReadIndex(n, s)
                                /\ p.stageWriteIndex[s] = FirstWriteIndex(n, s)
                                /\ ~p.stalled[s]
                                /\ p.stageProcessing[s] <=> s = 0
                    /\ s >= n => (p.stageProcessing[s] <=> b.stageProcessing[s])
  <1> DEFINE c  == [b EXCEPT !.numStages = n]
             bs == [i \in Buffers |-> IF i = FirstWriteIndex(n, 0) THEN l ELSE 0]
             sp == [s \in StageIdx |-> IF s < n THEN FALSE ELSE b.stageProcessing[s]]
             st == [s \in StageIdx |-> IF s < n THEN FALSE ELSE b.stalled[s]]
             ri == [s \in StageIdx |->
                      IF s < n THEN FirstReadIndex(n, s) ELSE b.stageReadIndex[s]]
             wi == [s \in StageIdx |->
                      IF s < n THEN FirstWriteIndex(n, s) ELSE b.stageWriteIndex[s]]
             z  == [c EXCEPT !.processing = TRUE, !.stall_index = 0,
                             !.bufferSize = bs, !.stageProcessing = sp,
                             !.stalled = st, !.stageReadIndex = ri,
                             !.stageWriteIndex = wi, !.exec = {}]
             q  == bufferFIFO_execStage(z, 0)
  <1>1. /\ c \in FifoStruct /\ c.numStages = n
        /\ c.stageProcessing = b.stageProcessing /\ c.stalled = b.stalled
        /\ c.stageReadIndex = b.stageReadIndex
        /\ c.stageWriteIndex = b.stageWriteIndex
    BY DEF FifoStruct
  <1>2. bufferFIFO_start(c, l) = q
    BY <1>1 DEF bufferFIFO_start
  <1>3. \A s \in StageIdx : s < n => /\ FirstReadIndex(n, s) \in Nat
                                     /\ FirstWriteIndex(n, s) \in Nat
    BY DEF FirstReadIndex, FirstWriteIndex, StageIdx, MaxStages
  <1>4. /\ bs \in [Buffers -> Nat]
        /\ ri \in [StageIdx -> Nat]
        /\ wi \in [StageIdx -> Nat]
    BY <1>3 DEF FifoStruct
  <1>5. sp \in [StageIdx -> BOOLEAN] /\ st \in [StageIdx -> BOOLEAN]
    BY DEF FifoStruct
  <1>6. \A s \in StageIdx :
          /\ ri[s] = IF s < n THEN FirstReadIndex(n, s) ELSE b.stageReadIndex[s]
          /\ wi[s] = IF s < n THEN FirstWriteIndex(n, s) ELSE b.stageWriteIndex[s]
          /\ s < n => ~sp[s] /\ ~st[s]
          /\ s >= n => (sp[s] <=> b.stageProcessing[s])
    BY DEF StageIdx, MaxStages
  <1> HIDE DEF c, bs, sp, st, ri, wi
  <1>7. /\ z \in FifoStruct /\ z.numStages = n /\ z.processing
        /\ z.stall_index = 0 /\ z.exec = {}
        /\ z.stageProcessing = sp /\ z.stalled = st
        /\ z.stageReadIndex = ri /\ z.stageWriteIndex = wi
    <2> DEFINE y == [c EXCEPT !.processing = TRUE, !.stall_index = 0,
                              !.bufferSize = bs, !.exec = {}]
               x == [y EXCEPT !.stageProcessing = sp, !.stalled = st]
    <2>1. y \in FifoStruct /\ y.numStages = n /\ y.processing
          /\ y.stall_index = 0 /\ y.exec = {}
      <3>1. 0 \in 0 .. MaxStages BY DEF MaxStages
      <3> QED BY <1>1, <1>4, <3>1 DEF FifoStruct
    <2>2. z = [x EXCEPT !.stageReadIndex = ri, !.stageWriteIndex = wi]
      BY <1>1 DEF FifoStruct
    <2> HIDE DEF y
    <2>3. x \in FifoStruct /\ x.numStages = n /\ x.processing
          /\ x.stall_index = 0 /\ x.exec = {}
          /\ x.stageProcessing = sp /\ x.stalled = st
      BY <1>5, <2>1 DEF FifoStruct
    <2> HIDE DEF x, z
    <2>4. ri \in [StageIdx -> Nat] /\ wi \in [StageIdx -> Nat] BY <1>4
    <2>5. z \in FifoStruct BY <2>2, <2>3, <2>4 DEF FifoStruct
    <2>6. z.stageReadIndex = ri /\ z.stageWriteIndex = wi
      BY <2>2, <2>3 DEF FifoStruct
    <2>7. /\ z.numStages = n /\ z.processing
          /\ z.stall_index = 0 /\ z.exec = {}
          /\ z.stageProcessing = sp /\ z.stalled = st
      BY <2>2, <2>3 DEF FifoStruct
    <2> QED BY <2>5, <2>6, <2>7
  <1> HIDE DEF z
  <1>8. 0 \in StageIdx BY DEF StageIdx, MaxStages
  <1>9. /\ q \in FifoStruct /\ q.numStages = n /\ q.processing
        /\ q.stall_index = 0 /\ q.exec = {0}
        /\ q.stageReadIndex = ri /\ q.stageWriteIndex = wi /\ q.stalled = st
        /\ q.stageProcessing = [sp EXCEPT ![0] = TRUE]
    BY <1>7, <1>8, ExecFields
  <1> HIDE DEF q
  <1>10. ASSUME NEW s \in StageIdx
         PROVE  /\ s < n => /\ q.stageReadIndex[s] = FirstReadIndex(n, s)
                            /\ q.stageWriteIndex[s] = FirstWriteIndex(n, s)
                            /\ ~q.stalled[s]
                            /\ q.stageProcessing[s] <=> s = 0
                /\ s >= n => (q.stageProcessing[s] <=> b.stageProcessing[s])
    <2>1. s \in Int /\ n \in Int /\ n > 0 BY DEF StageIdx, MaxStages
    <2>2. s # 0 => q.stageProcessing[s] = sp[s]
      BY <1>5, <1>8, <1>9
    <2>3. q.stageProcessing[0]
      BY <1>5, <1>8, <1>9
    <2> QED BY <1>6, <1>9, <2>1, <2>2, <2>3
  <1> QED BY <1>2, <1>9, <1>10 DEF c

------------------------------------------------------------------------------
(* Arithmetic. *)

LEMMA Division ==
    ASSUME NEW x \in Nat
    PROVE  /\ x = BufferCount * (x \div BufferCount) + (x % BufferCount)
           /\ x % BufferCount \in Buffers
           /\ x \div BufferCount \in Nat
BY BufferCountAssumption DEF Buffers

LEMMA Gap ==
    ASSUME NEW p \in Int, NEW q \in Int, p < q, NEW m \in Nat
    PROVE  m * q >= m * p + m
  <1>1. PICK d \in Nat : q = p + 1 + d
    <2>1. q - p - 1 \in Nat /\ q = p + 1 + (q - p - 1) OBVIOUS
    <2> QED BY <2>1
  <1>2. m * q = m * p + m + m * d BY <1>1
  <1>3. m * d >= 0 /\ m * p \in Int /\ m * d \in Int OBVIOUS
  <1> QED BY <1>2, <1>3

(* Two indices less than a ring apart denote different buffers. *)
LEMMA Modulus ==
    ASSUME NEW x \in Nat, NEW y \in Nat, x < y, y < x + BufferCount
    PROVE  x % BufferCount # y % BufferCount
  <1> SUFFICES ASSUME x % BufferCount = y % BufferCount PROVE FALSE OBVIOUS
  <1> DEFINE p == x \div BufferCount   q == y \div BufferCount
             r == x % BufferCount      m == BufferCount
             mp == m * p               mq == m * q
  <1>1. /\ x = mp + r /\ y = mq + r /\ r \in 0 .. m - 1
        /\ p \in Nat /\ q \in Nat
    BY Division DEF Buffers
  <1>2. mp \in Int /\ mq \in Int /\ m \in Nat
    BY <1>1, BufferCountAssumption
  <1>3. CASE p < q BY Gap, <1>1, <1>2, <1>3
  <1>4. CASE q < p BY Gap, <1>1, <1>2, <1>4
  <1>5. CASE p = q BY <1>1, <1>2, <1>5
  <1> QED BY <1>1, <1>3, <1>4, <1>5

(* A transfer shrinks by one chunk at a time and never grows. *)
LEMMA RestStep ==
    ASSUME NEW t \in Nat, NEW k \in Nat
    PROVE  /\ Rest(t, k) \in Nat
           /\ ChunkSize(t, k) \in Nat
           /\ Rest(t, k + 1) = Rest(t, k) - ChunkSize(t, k)
  <1> DEFINE m == MaxBufferSize  a == k * m
  <1>1. m \in Nat \ {0} BY BufferFifoAssumption
  <1>2. a \in Nat /\ (k + 1) * m = a + m BY <1>1
  <1> HIDE DEF a, m
  <1>3. /\ Rest(t, k) = IF t <= a THEN 0 ELSE t - a
        /\ Rest(t, k + 1) = IF t <= a + m THEN 0 ELSE t - (a + m)
    BY <1>2 DEF Rest, a, m
  <1>4. ChunkSize(t, k) = IF Rest(t, k) <= m THEN Rest(t, k) ELSE m
    BY DEF ChunkSize, Smaller, m
  <1> QED BY <1>1, <1>2, <1>3, <1>4

LEMMA RestMonotonic ==
    ASSUME NEW t \in Nat, NEW j \in Nat, NEW k \in Nat, j <= k
    PROVE  Rest(t, k) <= Rest(t, j)
  <1> DEFINE m == MaxBufferSize  a == m * j  b == m * k
  <1>1. m \in Nat \ {0} BY BufferFifoAssumption
  <1>2. a \in Nat /\ b \in Nat /\ a <= b
    <2>1. CASE j = k BY <1>1, <2>1
    <2>2. CASE j < k
      <3>1. b >= a + m BY <1>1, <2>2, Gap
      <3> QED BY <1>1, <3>1
    <2> QED BY <2>1, <2>2
  <1>3. k * m = b /\ j * m = a BY <1>1
  <1> HIDE DEF a, b, m
  <1>4. /\ Rest(t, j) = IF t <= a THEN 0 ELSE t - a
        /\ Rest(t, k) = IF t <= b THEN 0 ELSE t - b
    BY <1>3 DEF Rest, a, b, m
  <1> QED BY <1>2, <1>4

LEMMA RestZero ==
    ASSUME NEW t \in Nat
    PROVE  Rest(t, 0) = t
  <1>1. 0 * MaxBufferSize = 0 BY BufferFifoAssumption
  <1> QED BY <1>1 DEF Rest

------------------------------------------------------------------------------
(* The inductive invariant of the ring, one operation after the other.          *)

LEMMA StageIdxIs == StageIdx = {0, 1, 2, 3}
BY DEF StageIdx, MaxStages

LEMMA StageIdxFacts ==
    ASSUME NEW b, NEW lft, NEW ln, NEW fin, RingType(b, lft, ln, fin)
    PROVE  /\ b \in FifoStruct
           /\ b.numStages \in {2, 3, 4}
           /\ StagesOf(b) \subseteq StageIdx
           /\ 0 \in StagesOf(b)
           /\ b.numStages - 1 \in StagesOf(b)
           /\ \A s \in StagesOf(b) : /\ b.stageReadIndex[s] \in Nat
                                     /\ b.stageWriteIndex[s] \in Nat
                                     /\ Passed(b, s) \in Int
  <1>1. b \in FifoStruct BY DEF RingType
  <1>2. b.numStages \in {2, 3, 4} BY <1>1 DEF FifoStruct, MaxStages
  <1>3. /\ StagesOf(b) \subseteq StageIdx
        /\ 0 \in StagesOf(b)
        /\ b.numStages - 1 \in StagesOf(b)
    BY <1>2, StageIdxIs DEF StagesOf
  <1>4. \A s \in StagesOf(b) : b.stageReadIndex[s] \in Nat /\ b.stageWriteIndex[s] \in Nat
    BY <1>1, <1>3 DEF FifoStruct
  <1>5. \A s \in StagesOf(b) : Passed(b, s) \in Int
    BY <1>2, <1>3, <1>4, StageIdxIs DEF Passed, FirstReadIndex
  <1> QED BY <1>1, <1>2, <1>3, <1>4, <1>5

(* The ring before the first transfer.                                          *)
LEMMA RingZeroed ==
    ASSUME NEW t \in Nat, NEW lft \in [StageIdx -> Nat], NEW ln \in [StageIdx -> Nat],
           \A s \in StageIdx : lft[s] = 0
    PROVE  RingInv(ZeroedFifo, t, lft, ln, {})
  <1> DEFINE b == ZeroedFifo
  <1>1. /\ b.numStages = 2 /\ b.stall_index = 0 /\ b.exec = {}
        /\ b.processing = FALSE
        /\ b.bufferSize = [i \in Buffers |-> 0]
        /\ b.stageReadIndex = [s \in StageIdx |-> 0]
        /\ b.stageWriteIndex = [s \in StageIdx |-> 0]
        /\ b.stalled = [s \in StageIdx |-> FALSE]
        /\ b.stageProcessing = [s \in StageIdx |-> FALSE]
    BY DEF ZeroedFifo
  <1>2. RingType(b, lft, ln, {})
    BY <1>1 DEF RingType, ZeroedFifo, FifoStruct, MaxStages, StageIdx
  <1> HIDE DEF b
  <1>3. /\ StagesOf(b) = {0, 1}
        /\ \A s \in StagesOf(b) : Passed(b, s) = 0 /\ ~InFlight(b, {}, s)
    BY <1>1, StageIdxIs DEF StagesOf, Passed, FirstReadIndex, InFlight
  <1>4. IndicesInStep(b) /\ InOrder(b) /\ InputReady(b, {})
    BY <1>1, <1>3, BufferCountAssumption, StageIdxIs
    DEF IndicesInStep, InOrder, InputReady, FirstWriteIndex
  <1>5. SizesInPlace(b, t)
    BY <1>3 DEF SizesInPlace, Between
  <1>6. Accounts(b, t, lft, ln, {}) /\ Quiet(b, lft, {}) /\ DrainedUpTo(b) /\ Woken(b, {})
    BY <1>1, <1>3, StageIdxIs DEF Accounts, Quiet, DrainedUpTo, Woken
  <1>7. RingInv(b, t, lft, ln, {})
    BY <1>2, <1>4, <1>5, <1>6 DEF RingInv
  <1> QED BY <1>7 DEF b

(* Every stage begins at the indices of its predecessor.                        *)
Started(b, n) ==
    /\ b \in FifoStruct /\ b.numStages = n /\ b.processing /\ b.stall_index = 0
    /\ b.exec = {0}
    /\ \A s \in StageIdx :
          /\ s < n => /\ b.stageReadIndex[s] = FirstReadIndex(n, s)
                      /\ b.stageWriteIndex[s] = FirstWriteIndex(n, s)
                      /\ ~b.stalled[s]
                      /\ b.stageProcessing[s] <=> s = 0
          /\ s >= n => ~b.stageProcessing[s]

(* Starting a transfer, when no stage is left running by the one before.        *)
LEMMA StartStarts ==
    ASSUME NEW b \in FifoStruct, \A s \in StageIdx : ~b.stageProcessing[s],
           NEW n \in 2 .. MaxStages, NEW l \in Nat
    PROVE  Started(bufferFIFO_start([b EXCEPT !.numStages = n], l), n)
  <1>1. \A s \in StageIdx : ~b.stageProcessing[s] OBVIOUS
  <1> DEFINE p == bufferFIFO_start([b EXCEPT !.numStages = n], l)
  <1>2. /\ p \in FifoStruct
        /\ p.numStages = n
        /\ p.processing
        /\ p.stall_index = 0
        /\ p.exec = {0}
        /\ \A s \in StageIdx :
              /\ s < n => /\ p.stageReadIndex[s] = FirstReadIndex(n, s)
                          /\ p.stageWriteIndex[s] = FirstWriteIndex(n, s)
                          /\ ~p.stalled[s]
                          /\ p.stageProcessing[s] <=> s = 0
              /\ s >= n => (p.stageProcessing[s] <=> b.stageProcessing[s])
    BY StartFields
  <1> HIDE DEF p
  <1>3. Started(p, n) BY <1>1, <1>2 DEF Started
  <1> QED BY <1>3 DEF p

LEMMA RingStart ==
    ASSUME NEW n \in StageCounts, NEW tot \in Nat \ {0}, NEW b2, Started(b2, n),
           NEW lft2 \in [StageIdx -> Nat], \A s \in 0 .. n - 1 : lft2[s] = tot,
           NEW ln2 \in [StageIdx -> Nat], ln2[0] = Smaller(tot, MaxBufferSize)
    PROVE  RingInv(b2, tot, lft2, ln2, {})
  <1> DEFINE l == Smaller(tot, MaxBufferSize)
             fin2 == {}
  <1>1. /\ n \in 2 .. MaxStages /\ n - 2 < BufferCount
        /\ tot \in Nat /\ tot > 0 /\ l \in Nat
    BY BufferFifoAssumption DEF Smaller
  <1>3. fin2 = {} OBVIOUS
  <1>5. ln2[0] = l OBVIOUS
  <1> HIDE DEF l, fin2
  <1>4. /\ b2 \in FifoStruct
        /\ b2.numStages = n
        /\ b2.processing
        /\ b2.stall_index = 0
        /\ b2.exec = {0}
        /\ \A s \in StageIdx :
              /\ s < n => /\ b2.stageReadIndex[s] = FirstReadIndex(n, s)
                          /\ b2.stageWriteIndex[s] = FirstWriteIndex(n, s)
                          /\ ~b2.stalled[s]
                          /\ b2.stageProcessing[s] <=> s = 0
              /\ s >= n => ~b2.stageProcessing[s]
    BY DEF Started
  <1>6. /\ StageIdx = {0, 1, 2, 3}
        /\ StagesOf(b2) = 0 .. n - 1
        /\ StagesOf(b2) \subseteq StageIdx
        /\ 0 \in StagesOf(b2) /\ n \in {2, 3, 4}
    BY <1>1, <1>4 DEF StageIdx, MaxStages, StagesOf
  <1>7. \A s \in StagesOf(b2) :
          /\ s < n
          /\ Passed(b2, s) = 0
          /\ InFlight(b2, fin2, s) <=> s = 0
    <2> SUFFICES ASSUME NEW s \in StagesOf(b2)
                 PROVE  /\ s < n
                        /\ Passed(b2, s) = 0
                        /\ InFlight(b2, fin2, s) <=> s = 0
      OBVIOUS
    <2>1. s \in StageIdx /\ s < n /\ s \in Int BY <1>6
    <2>2. FirstReadIndex(n, s) \in Int BY <1>6, <2>1 DEF FirstReadIndex
    <2>3. Passed(b2, s) = FirstReadIndex(n, s) - FirstReadIndex(n, s)
      BY <1>4, <2>1 DEF Passed
    <2>4. InFlight(b2, fin2, s) <=> s = 0 BY <1>3, <1>4, <2>1 DEF InFlight
    <2> QED BY <2>1, <2>2, <2>3, <2>4
  <1>8. \A s \in StagesOf(b2) : lft2[s] = tot
    BY <1>6
  <1>9. \A s \in StagesOf(b2) \ {0} :
          s \in {1, 2, 3} /\ s < n /\ s - 1 \in StagesOf(b2) /\ s - 1 \in StageIdx
    <2> SUFFICES ASSUME NEW s \in StagesOf(b2) \ {0}
                 PROVE  /\ s \in {1, 2, 3} /\ s < n /\ s - 1 \in StagesOf(b2)
                        /\ s - 1 \in StageIdx
      OBVIOUS
    <2>1. s \in 0 .. n - 1 /\ s # 0 BY <1>6
    <2>2. n \in {2, 3, 4} BY <1>6
    <2>3. s \in {1, 2, 3} /\ s < n /\ s - 1 \in 0 .. n - 1 BY <2>1, <2>2
    <2> QED BY <1>6, <2>3
  <1>10. RingType(b2, lft2, ln2, fin2)
    BY <1>1, <1>3, <1>4 DEF RingType
  <1>11. IndicesInStep(b2) /\ InOrder(b2)
    <2>1. InOrder(b2) BY <1>7 DEF InOrder
    <2>2. ASSUME NEW s \in StagesOf(b2)
          PROVE  b2.stageWriteIndex[s] = FirstWriteIndex(n, s) + Passed(b2, s)
      <3>1. FirstWriteIndex(n, s) \in Int BY <1>6 DEF FirstWriteIndex
      <3>2. s \in StageIdx /\ s < n BY <1>6, <1>7
      <3>3. b2.stageWriteIndex[s] = FirstWriteIndex(n, s) BY <1>4, <3>2
      <3>4. Passed(b2, s) = 0 BY <1>7
      <3> QED BY <3>1, <3>3, <3>4
    <2> QED BY <1>4, <1>7, <2>1, <2>2 DEF IndicesInStep
  <1>12. InputReady(b2, fin2)
    <2>1. /\ b2.stageReadIndex[n - 1] = 0
          /\ b2.stageWriteIndex[0] = n - 2
      BY <1>4, <1>6 DEF FirstReadIndex, FirstWriteIndex
    <2> QED BY <1>1, <1>4, <1>6, <1>7, <2>1, BufferCountAssumption DEF InputReady
  <1>13. SizesInPlace(b2, tot)
    <2>1. ASSUME NEW s \in StagesOf(b2) \ {0}
          PROVE  Between(b2, s) = {}
      <3>1. s - 1 \in StagesOf(b2) BY <1>9
      <3>2. Passed(b2, s) = 0 /\ Passed(b2, s - 1) = 0 BY <1>7, <3>1
      <3> QED BY <3>2 DEF Between
    <2> QED BY <2>1 DEF SizesInPlace
  <1>14. Accounts(b2, tot, lft2, ln2, fin2)
    <2>1. Rest(tot, 0) = tot BY <1>1, RestZero
    <2>2. ChunkSize(tot, 0) = l BY <2>1 DEF ChunkSize, l
    <2> SUFFICES ASSUME NEW s \in StagesOf(b2)
                 PROVE  /\ lft2[s] = Rest(tot, Accounted(b2, fin2, s))
                        /\ b2.stalled[s] <=> lft2[s] = 0
                        /\ InFlight(b2, fin2, s) => ln2[s] = ChunkSize(tot, Passed(b2, s))
                                        /\ Rest(tot, Passed(b2, s)) > 0
                        /\ s \in fin2 =>
                              (b2.stageProcessing[s] <=> ~b2.stalled[s])
      BY DEF Accounts
    <2>3. Accounted(b2, fin2, s) = 0 BY <1>3, <1>7 DEF Accounted
    <2>4. lft2[s] = tot /\ ~b2.stalled[s] BY <1>4, <1>6, <1>7
    <2>5. lft2[s] = Rest(tot, Accounted(b2, fin2, s)) BY <2>1, <2>3, <2>4
    <2>6. b2.stalled[s] <=> lft2[s] = 0 BY <1>1, <2>4
    <2>7. ASSUME InFlight(b2, fin2, s)
          PROVE  ln2[s] = ChunkSize(tot, Passed(b2, s)) /\ Rest(tot, Passed(b2, s)) > 0
      <3>1. s = 0 /\ Passed(b2, s) = 0 BY <1>7, <2>7
      <3> QED BY <1>1, <1>5, <2>1, <2>2, <3>1
    <2>8. s \notin fin2 BY <1>3
    <2> QED BY <2>5, <2>6, <2>7, <2>8
  <1>15. Quiet(b2, lft2, fin2)
    BY <1>3, <1>4, <1>6 DEF Quiet
  <1>16. DrainedUpTo(b2)
    BY <1>4 DEF DrainedUpTo
  <1>17. Woken(b2, fin2)
    <2>1. ASSUME NEW s \in StagesOf(b2) \ {0}
          PROVE  b2.stageReadIndex[s] = b2.stageWriteIndex[s - 1]
      <3>1. /\ s \in StageIdx /\ s - 1 \in StageIdx /\ s \in Int /\ s # 0
            /\ s < n /\ s - 1 < n /\ s - 1 # n - 1
        <4>1. /\ s \in {1, 2, 3} /\ s < n /\ s \in StageIdx /\ s - 1 \in StageIdx
              /\ n \in Int
          BY <1>1, <1>6, <1>9
        <4> QED BY <4>1
      <3>2. b2.stageReadIndex[s] = FirstReadIndex(n, s) BY <1>4, <3>1
      <3>3. b2.stageWriteIndex[s - 1] = FirstWriteIndex(n, s - 1) BY <1>4, <3>1
      <3>4. FirstReadIndex(n, s) = n - 1 - s BY <3>1 DEF FirstReadIndex
      <3>5. FirstWriteIndex(n, s - 1) = n - 2 - (s - 1) BY <3>1 DEF FirstWriteIndex
      <3> QED BY <1>1, <3>1, <3>2, <3>3, <3>4, <3>5
    <2> QED BY <1>6, <1>7, <2>1 DEF Woken, bufferFIFO_stageStalled
  <1> QED BY <1>10, <1>11, <1>12, <1>13, <1>14, <1>15, <1>16, <1>17
     DEF RingInv, fin2

(* Accounting for a buffer moves no index: it reduces what the stage has left   *)
(* by the chunk and stalls the stage exactly when nothing remains.              *)
LEMMA RingAccount ==
    ASSUME NEW b, NEW tot \in Nat, NEW lft, NEW ln, NEW fin,
           RingInv(b, tot, lft, ln, fin),
           NEW s \in StageIdx, b.stageProcessing[s], s \notin fin,
           NEW lft2 \in [StageIdx -> Nat],
           lft2[s] = lft[s] - Smaller(lft[s], ln[s]),
           \A u \in StageIdx : u # s => lft2[u] = lft[u],
           NEW b2, b2 = IF lft2[s] = 0 THEN bufferFIFO_stallStage(b, s) ELSE b,
           NEW fin2, fin2 = fin \cup {s}
    PROVE  RingInv(b2, tot, lft2, ln, fin2)
  <1>1. /\ RingType(b, lft, ln, fin) /\ IndicesInStep(b) /\ InOrder(b)
        /\ InputReady(b, fin) /\ SizesInPlace(b, tot) /\ Accounts(b, tot, lft, ln, fin)
        /\ Quiet(b, lft, fin) /\ DrainedUpTo(b) /\ Woken(b, fin)
    BY DEF RingInv
  <1>2. /\ b \in FifoStruct /\ tot \in Nat
        /\ lft \in [StageIdx -> Nat] /\ ln \in [StageIdx -> Nat]
    BY <1>1 DEF RingType
  <1>3. /\ b.stageProcessing[s] /\ s \notin fin
        /\ lft2[s] = lft[s] - Smaller(lft[s], ln[s])
        /\ b2 = IF lft2[s] = 0 THEN bufferFIFO_stallStage(b, s) ELSE b
        /\ fin2 = fin \cup {s}
    OBVIOUS
  <1>4. /\ b.processing /\ s \in StagesOf(b) /\ InFlight(b, fin, s)
    BY <1>1, <1>3 DEF Quiet, InFlight
  <1>5. StagesOf(b) \subseteq StageIdx /\ Passed(b, s) \in Nat
    BY <1>1, <1>4, StageIdxFacts, StageIdxIs DEF IndicesInStep
  <1> DEFINE c == Passed(b, s)
  <1>6. /\ lft[s] = Rest(tot, c)
        /\ ln[s] = ChunkSize(tot, c)
        /\ Rest(tot, c) > 0
        /\ ~b.stalled[s]
    <2>1. Accounted(b, fin, s) = c BY <1>3, <1>5 DEF Accounted
    <2>2. /\ lft[s] = Rest(tot, Accounted(b, fin, s))
          /\ b.stalled[s] <=> lft[s] = 0
          /\ ln[s] = ChunkSize(tot, c)
          /\ Rest(tot, c) > 0
      BY <1>1, <1>4 DEF Accounts
    <2> QED BY <2>1, <2>2
  <1>7. lft2[s] = Rest(tot, c + 1) /\ lft2[s] \in Nat
        /\ lft2 \in [StageIdx -> Nat]
        /\ \A t \in StageIdx : t # s => lft2[t] = lft[t]
    <2>1. /\ Rest(tot, c) \in Nat /\ ChunkSize(tot, c) \in Nat
          /\ Rest(tot, c + 1) \in Nat
          /\ Rest(tot, c + 1) = Rest(tot, c) - ChunkSize(tot, c)
      <3>1. c \in Nat /\ c + 1 \in Nat BY <1>5
      <3> HIDE DEF c
      <3> QED BY <1>2, <3>1, RestStep
    <2>2. ChunkSize(tot, c) <= Rest(tot, c)
      BY <2>1, BufferFifoAssumption DEF ChunkSize, Smaller
    <2>3. Smaller(lft[s], ln[s]) = ChunkSize(tot, c)
      BY <1>6, <2>1, <2>2 DEF Smaller
    <2>4. lft[s] - Smaller(lft[s], ln[s]) = Rest(tot, c + 1)
      BY <1>6, <2>1, <2>3
    <2> HIDE DEF c
    <2> QED BY <1>2, <1>3, <2>1, <2>4
  <1> HIDE DEF c
  <1>8. /\ b2 \in FifoStruct
        /\ b2.numStages = b.numStages
        /\ b2.bufferSize = b.bufferSize
        /\ b2.stageReadIndex = b.stageReadIndex
        /\ b2.stageWriteIndex = b.stageWriteIndex
        /\ b2.processing = b.processing
        /\ b2.stall_index = b.stall_index
        /\ \A t \in StageIdx : t # s =>
              /\ b2.stalled[t] <=> b.stalled[t]
              /\ b2.stageProcessing[t] <=> b.stageProcessing[t]
        /\ b2.stalled[s] <=> lft2[s] = 0
        /\ b2.stageProcessing[s] <=> lft2[s] # 0
    <2>1. CASE lft2[s] = 0
      <3>1. b2 = bufferFIFO_stallStage(b, s) BY <1>3, <2>1
      <3>2. /\ b.stalled \in [StageIdx -> BOOLEAN]
            /\ b.stageProcessing \in [StageIdx -> BOOLEAN]
        BY <1>2 DEF FifoStruct
      <3>3. /\ b2.stalled = [b.stalled EXCEPT ![s] = TRUE]
            /\ b2.stageProcessing = [b.stageProcessing EXCEPT ![s] = FALSE]
            /\ b2 \in FifoStruct
            /\ b2.numStages = b.numStages
            /\ b2.bufferSize = b.bufferSize
            /\ b2.stageReadIndex = b.stageReadIndex
            /\ b2.stageWriteIndex = b.stageWriteIndex
            /\ b2.processing = b.processing
            /\ b2.stall_index = b.stall_index
        BY <1>2, <3>1, StallFields
      <3> QED BY <2>1, <3>2, <3>3
    <2>2. CASE lft2[s] # 0
      BY <1>2, <1>3, <1>6, <2>2
    <2> QED BY <2>1, <2>2
  <1>9. /\ StagesOf(b2) = StagesOf(b)
        /\ \A t : Passed(b2, t) = Passed(b, t)
        /\ \A t \in StageIdx : InFlight(b2, fin2, t) <=> InFlight(b, fin, t)
    <2>1. StagesOf(b2) = StagesOf(b) BY <1>8 DEF StagesOf
    <2>2. \A t : Passed(b2, t) = Passed(b, t) BY <1>8 DEF Passed
    <2>3. \A t \in StageIdx : InFlight(b2, fin2, t) <=> InFlight(b, fin, t)
      BY <1>3, <1>4, <1>8, <2>1 DEF InFlight
    <2> QED BY <2>1, <2>2, <2>3
  <1>10. RingType(b2, lft2, ln, fin2)
    BY <1>1, <1>2, <1>3, <1>7, <1>8 DEF RingType
  <1>11. IndicesInStep(b2) /\ InOrder(b2)
    BY <1>1, <1>8, <1>9 DEF IndicesInStep, InOrder
  <1>12. InputReady(b2, fin2)
    <2>1. 0 \in StageIdx BY StageIdxFacts, StageIdxIs
    <2> QED BY <1>1, <1>5, <1>8, <1>9, <2>1 DEF InputReady
  <1>13. SizesInPlace(b2, tot)
    <2>1. \A u : Between(b2, u) = Between(b, u) BY <1>9 DEF Between
    <2>2. \A u, k : BufferOf(b2, u, k) = BufferOf(b, u, k) BY <1>8 DEF BufferOf
    <2> QED BY <1>1, <1>8, <1>9, <2>1, <2>2 DEF SizesInPlace
  <1>14. Accounts(b2, tot, lft2, ln, fin2)
    <2> SUFFICES ASSUME NEW t \in StagesOf(b)
                 PROVE  /\ lft2[t] = Rest(tot, Accounted(b2, fin2, t))
                        /\ b2.stalled[t] <=> lft2[t] = 0
                        /\ InFlight(b2, fin2, t) => ln[t] = ChunkSize(tot, Passed(b, t))
                                        /\ Rest(tot, Passed(b, t)) > 0
                        /\ t \in fin2 =>
                              (b2.stageProcessing[t] <=> ~b2.stalled[t])
      BY <1>3, <1>9 DEF Accounts
    <2>1. t \in StageIdx BY <1>5
    <2>2. CASE t = s
      <3>1. Accounted(b2, fin2, s) = c + 1 BY <1>3, <1>9 DEF Accounted, c
      <3> QED BY <1>6, <1>7, <1>8, <2>2, <3>1 DEF c
    <2>3. CASE t # s
      <3>1. Accounted(b2, fin2, t) = Accounted(b, fin, t) BY <1>3, <1>9, <2>3 DEF Accounted
      <3>2. t \in fin2 <=> t \in fin BY <1>3, <2>3
      <3>3. /\ lft[t] = Rest(tot, Accounted(b, fin, t))
            /\ b.stalled[t] <=> lft[t] = 0
            /\ InFlight(b, fin, t) => ln[t] = ChunkSize(tot, Passed(b, t))
                                        /\ Rest(tot, Passed(b, t)) > 0
            /\ t \in fin => (b.stageProcessing[t] <=> ~b.stalled[t])
        BY <1>1, <1>4 DEF Accounts
      <3>4. /\ lft2[t] = lft[t]
            /\ b2.stalled[t] <=> b.stalled[t]
            /\ b2.stageProcessing[t] <=> b.stageProcessing[t]
            /\ InFlight(b2, fin2, t) <=> InFlight(b, fin, t)
        BY <1>7, <1>8, <1>9, <2>1, <2>3
      <3>5. lft2[t] = Rest(tot, Accounted(b2, fin2, t)) BY <3>1, <3>3, <3>4
      <3>6. b2.stalled[t] <=> lft2[t] = 0 BY <3>3, <3>4
      <3>7. InFlight(b2, fin2, t) => ln[t] = ChunkSize(tot, Passed(b, t))
                                      /\ Rest(tot, Passed(b, t)) > 0
        BY <3>3, <3>4
      <3>8. t \in fin2 => (b2.stageProcessing[t] <=> ~b2.stalled[t])
        BY <3>2, <3>3, <3>4
      <3> QED BY <3>5, <3>6, <3>7, <3>8
    <2> QED BY <2>2, <2>3
  <1>15. Quiet(b2, lft2, fin2)
    <2>1. b2.processing BY <1>4, <1>8
    <2> QED BY <1>1, <1>3, <1>4, <1>8, <1>9, <2>1 DEF Quiet
  <1>16. DrainedUpTo(b2)
    <2> SUFFICES ASSUME NEW t \in 0 .. b.stall_index - 1
                 PROVE  Drained(b2, t)
      BY <1>8 DEF DrainedUpTo
    <2>1. Drained(b, t) BY <1>1, <1>4 DEF DrainedUpTo
    <2>2. t \in StageIdx
      BY <1>2, StageIdxFacts, StageIdxIs DEF FifoStruct, MaxStages
    <2>3. t # s BY <1>3, <2>1 DEF Drained
    <2> QED BY <1>8, <2>1, <2>2, <2>3 DEF Drained
  <1>17. Woken(b2, fin2)
    <2> SUFFICES ASSUME NEW t \in StagesOf(b), ~InFlight(b2, fin2, t)
                 PROVE  bufferFIFO_stageStalled(b2, t)
      BY <1>9 DEF Woken
    <2>1. t \in StageIdx /\ ~InFlight(b, fin, t) /\ t # s BY <1>4, <1>5, <1>9
    <2>2. bufferFIFO_stageStalled(b, t) BY <1>1, <1>4, <2>1 DEF Woken
    <2> QED BY <1>8, <2>1, <2>2 DEF bufferFIFO_stageStalled
  <1> QED BY <1>10, <1>11, <1>12, <1>13, <1>14, <1>15, <1>16, <1>17 DEF RingInv

(* The start indices of bufferFIFO_start, compared with one another. *)
LEMMA FirstIndices ==
    ASSUME NEW n \in {2, 3, 4}, NEW s \in {0, 1, 2, 3}, s <= n - 1
    PROVE  /\ FirstReadIndex(n, s) \in Nat
           /\ FirstWriteIndex(n, s) \in Nat
           /\ FirstWriteIndex(n, s) <= FirstReadIndex(n, s)
           /\ FirstReadIndex(n, 0) = n - 2 /\ FirstWriteIndex(n, 0) = n - 2
           /\ FirstReadIndex(n, n - 1) = 0
           /\ s # 0 => FirstReadIndex(n, s) = FirstWriteIndex(n, s - 1)
           /\ \A t \in {0, 1, 2, 3} : t <= s =>
                 FirstWriteIndex(n, s) <= FirstWriteIndex(n, t)
BY DEF FirstReadIndex, FirstWriteIndex

(* Where the indices of the stages in flight lie: between the read index of the *)
(* last stage and one ring above it, those of an earlier stage above those of a *)
(* later one.                                                                   *)
LEMMA IndexSpread ==
    ASSUME NEW b, NEW lft, NEW ln, NEW fin, RingType(b, lft, ln, fin),
           IndicesInStep(b), InOrder(b), InputReady(b, fin)
    PROVE  LET low == b.stageReadIndex[b.numStages - 1]
           IN /\ \A s \in StagesOf(b) :
                    /\ low <= b.stageWriteIndex[s]
                    /\ low <= b.stageReadIndex[s]
                    /\ b.stageWriteIndex[s] <= b.stageReadIndex[s]
              /\ \A s \in StagesOf(b) : InFlight(b, fin, s) =>
                    /\ b.stageWriteIndex[s] < low + BufferCount
                    /\ b.stageReadIndex[s] < low + BufferCount
              /\ \A s, t \in StagesOf(b) : s < t /\ InFlight(b, fin, t) =>
                    /\ b.stageReadIndex[t] < b.stageWriteIndex[s]
                    /\ b.stageWriteIndex[t] < b.stageWriteIndex[s]
              /\ \A s, t \in StagesOf(b) : s <= t =>
                    b.stageWriteIndex[t] <= b.stageWriteIndex[s]
  <1> DEFINE n == b.numStages
             r(s) == b.stageReadIndex[s]
             w(s) == b.stageWriteIndex[s]
             c(s) == Passed(b, s)
             low  == r(n - 1)
  <1>1. /\ n \in {2, 3, 4} /\ 0 \in StagesOf(b) /\ n - 1 \in StagesOf(b)
        /\ BufferCount \in Nat
        /\ \A s \in StagesOf(b) : r(s) \in Nat /\ w(s) \in Nat /\ c(s) \in Nat
    BY StageIdxFacts, StageIdxIs, BufferCountAssumption DEF IndicesInStep
  <1>2. \A s \in StagesOf(b) : /\ s \in {0, 1, 2, 3} /\ s <= n - 1
                               /\ s # 0 => s - 1 \in StagesOf(b)
    BY <1>1 DEF StagesOf
  <1>3. \A s \in StagesOf(b) : /\ r(s) = FirstReadIndex(n, s) + c(s)
                               /\ w(s) = FirstWriteIndex(n, s) + c(s)
    <2> SUFFICES ASSUME NEW s \in StagesOf(b)
                 PROVE r(s) = FirstReadIndex(n, s) + c(s)
      BY DEF IndicesInStep
    <2>1. FirstReadIndex(n, s) \in Int BY <1>1, <1>2, FirstIndices
    <2>2. c(s) = r(s) - FirstReadIndex(n, s) BY DEF Passed
    <2> HIDE DEF c, r
    <2> QED BY <1>1, <2>1, <2>2
  <1>4. \A s, t \in StagesOf(b) : s < t => c(t) <= c(s)
    BY DEF InOrder
  <1>5. /\ \A s \in StagesOf(b) \ {0} : InFlight(b, fin, s) => c(s) < c(s - 1)
        /\ w(0) <= low + BufferCount
        /\ InFlight(b, fin, 0) => w(0) < low + BufferCount
    BY DEF InputReady
  <1> HIDE DEF c, r, w, n
  <1>6. \A s \in StagesOf(b) : low <= w(s) /\ low <= r(s) /\ w(s) <= r(s)
    <2> SUFFICES ASSUME NEW s \in StagesOf(b)
                 PROVE  low <= w(s) /\ low <= r(s) /\ w(s) <= r(s)
      OBVIOUS
    <2>1. c(n - 1) <= c(s)
      <3>1. CASE s = n - 1
        <4>1. c(n - 1) = c(s) BY <3>1
        <4> QED BY <1>1, <4>1
      <3>2. CASE s < n - 1 BY <1>1, <1>4, <3>2
      <3>3. s = n - 1 \/ s < n - 1 BY <1>1, <1>2
      <3> QED BY <3>1, <3>2, <3>3
    <2>2. low = c(n - 1) BY <1>1, <1>2, <1>3, FirstIndices
    <2>3. /\ r(s) = FirstReadIndex(n, s) + c(s)
          /\ w(s) = FirstWriteIndex(n, s) + c(s)
          /\ FirstWriteIndex(n, s) \in Nat /\ FirstReadIndex(n, s) \in Nat
          /\ FirstWriteIndex(n, s) <= FirstReadIndex(n, s)
      BY <1>1, <1>2, <1>3, FirstIndices
    <2> QED BY <1>1, <2>1, <2>2, <2>3
  <1>7. ASSUME NEW s \in StagesOf(b), NEW t \in StagesOf(b), s < t, InFlight(b, fin, t)
        PROVE  r(t) < w(s) /\ w(t) < w(s)
    <2>1. t # 0 /\ t - 1 \in StagesOf(b) /\ s <= t - 1 BY <1>2, <1>7
    <2>2. c(t) < c(t - 1) BY <1>5, <1>7, <2>1
    <2>3. c(t - 1) <= c(s)
      <3>1. CASE s = t - 1 BY <1>1, <3>1
      <3>2. CASE s < t - 1 BY <1>4, <2>1, <3>2
      <3> QED BY <1>2, <2>1, <3>1, <3>2
    <2>4. /\ FirstReadIndex(n, t) = FirstWriteIndex(n, t - 1)
          /\ FirstWriteIndex(n, t - 1) <= FirstWriteIndex(n, s)
          /\ FirstWriteIndex(n, t) <= FirstReadIndex(n, t)
          /\ FirstWriteIndex(n, t) \in Nat /\ FirstReadIndex(n, t) \in Nat
          /\ FirstWriteIndex(n, s) \in Nat
      <3>1. /\ t \in {0, 1, 2, 3} /\ t <= n - 1 /\ s \in {0, 1, 2, 3} /\ s <= n - 1
            /\ t - 1 \in {0, 1, 2, 3} /\ t - 1 <= n - 1
        BY <1>2, <2>1
      <3> QED BY <1>1, <2>1, <3>1, FirstIndices
    <2>5. /\ r(t) = FirstReadIndex(n, t) + c(t)
          /\ w(t) = FirstWriteIndex(n, t) + c(t)
          /\ w(s) = FirstWriteIndex(n, s) + c(s)
          /\ c(t) \in Nat /\ c(t - 1) \in Nat /\ c(s) \in Nat
      BY <1>1, <1>3, <2>1
    <2> QED BY <2>2, <2>3, <2>4, <2>5
  <1>8. ASSUME NEW s \in StagesOf(b), InFlight(b, fin, s)
        PROVE  w(s) < low + BufferCount /\ r(s) < low + BufferCount
    <2>1. CASE s = 0
      <3>1. r(0) = w(0) BY <1>1, <1>2, <1>3, FirstIndices
      <3> QED BY <1>5, <1>8, <2>1, <3>1
    <2>2. CASE s # 0
      <3>1. r(s) < w(0) /\ w(s) < w(0) BY <1>1, <1>2, <1>7, <1>8, <2>2
      <3> QED BY <1>1, <1>5, <3>1
    <2> QED BY <2>1, <2>2
  <1>9. ASSUME NEW s \in StagesOf(b), NEW t \in StagesOf(b), s <= t
        PROVE  w(t) <= w(s)
    <2>1. c(t) <= c(s)
      <3>1. CASE s = t BY <1>1, <3>1
      <3>2. CASE s < t BY <1>4, <3>2
      <3> QED BY <1>2, <1>9, <3>1, <3>2
    <2>2. /\ FirstWriteIndex(n, t) <= FirstWriteIndex(n, s)
          /\ FirstWriteIndex(n, t) \in Nat /\ FirstWriteIndex(n, s) \in Nat
      <3>1. /\ s \in {0, 1, 2, 3} /\ s <= n - 1
            /\ t \in {0, 1, 2, 3} /\ t <= n - 1
        BY <1>2
      <3> QED BY <1>1, <1>9, <3>1, FirstIndices
    <2> QED BY <1>1, <1>3, <2>1, <2>2
  <1> QED BY <1>6, <1>7, <1>8, <1>9 DEF r, w, n

(* The buffer a stage in flight writes is not one that another stage in flight  *)
(* reads or writes.                                                             *)
LEMMA RingNoConflict ==
    ASSUME NEW b, NEW lft, NEW ln, NEW fin, RingType(b, lft, ln, fin),
           IndicesInStep(b), InOrder(b), InputReady(b, fin),
           NEW s \in StageIdx, NEW t \in StageIdx, s # t,
           InFlight(b, fin, s), InFlight(b, fin, t)
    PROVE  /\ WriteBuffer(b, s) # ReadBuffer(b, t)
           /\ WriteBuffer(b, s) # WriteBuffer(b, t)
  <1> DEFINE low == b.stageReadIndex[b.numStages - 1]
             ws == b.stageWriteIndex[s]
             wt == b.stageWriteIndex[t]
             rt == b.stageReadIndex[t]
  <1>1. /\ RingType(b, lft, ln, fin) /\ s \in StagesOf(b) /\ t \in StagesOf(b)
        /\ s \in Int /\ t \in Int
    BY StageIdxIs DEF InFlight
  <1>2. /\ low \in Nat /\ ws \in Nat /\ wt \in Nat /\ rt \in Nat
        /\ BufferCount \in Nat
    BY <1>1, StageIdxFacts, StageIdxIs, BufferCountAssumption
  <1>3. /\ low <= ws /\ low <= wt /\ low <= rt /\ wt <= rt
        /\ ws < low + BufferCount /\ wt < low + BufferCount
        /\ rt < low + BufferCount
        /\ s < t => rt < ws /\ wt < ws
        /\ t < s => ws < wt
    BY <1>1, IndexSpread
  <1> HIDE DEF low, ws, wt, rt
  <1>4. CASE s < t
    <2>1. ws < rt + BufferCount /\ ws < wt + BufferCount BY <1>2, <1>3
    <2>2. ws % BufferCount # rt % BufferCount /\ ws % BufferCount # wt % BufferCount
      BY <1>2, <1>3, <1>4, <2>1, Modulus
    <2> QED BY <2>2 DEF ReadBuffer, WriteBuffer, ws, wt, rt
  <1>5. CASE t < s
    <2>1. ws < wt /\ ws < rt /\ rt < ws + BufferCount /\ wt < ws + BufferCount
      BY <1>2, <1>3, <1>5
    <2>2. ws % BufferCount # rt % BufferCount /\ ws % BufferCount # wt % BufferCount
      BY <1>2, <2>1, Modulus
    <2> QED BY <2>2 DEF ReadBuffer, WriteBuffer, ws, wt, rt
  <1> QED BY <1>1, <1>4, <1>5

(* Nor is it one of those that still hold a chunk for a later stage, other than *)
(* the one the last stage is reading.                                           *)
LEMMA WritesFreeBuffer ==
    ASSUME NEW b, NEW lft, NEW ln, NEW fin, RingType(b, lft, ln, fin),
           IndicesInStep(b), InOrder(b), InputReady(b, fin),
           NEW s \in StagesOf(b), InFlight(b, fin, s),
           NEW t \in StagesOf(b) \ {0}, NEW k \in Between(b, t),
           t = s => k # Passed(b, s)
    PROVE  BufferOf(b, t, k) # WriteBuffer(b, s)
  <1> DEFINE n == b.numStages
             c(u) == Passed(b, u)
             x == FirstReadIndex(n, t) + k
             y == b.stageWriteIndex[s]
             low == b.stageReadIndex[n - 1]
  <1>1. /\ n \in {2, 3, 4} /\ StagesOf(b) \subseteq StageIdx /\ StageIdx = {0, 1, 2, 3}
        /\ StagesOf(b) = 0 .. n - 1 /\ 0 \in StagesOf(b) /\ n - 1 \in StagesOf(b)
        /\ t - 1 \in StagesOf(b) /\ t \in StagesOf(b)
        /\ \A u \in StagesOf(b) : c(u) \in Nat
        /\ BufferCount \in Nat
    BY StageIdxFacts, StageIdxIs, BufferCountAssumption DEF IndicesInStep, StagesOf
  <1>2. /\ FirstReadIndex(n, t) \in Nat
        /\ FirstReadIndex(n, t) = FirstWriteIndex(n, t - 1)
        /\ b.stageWriteIndex[t - 1] = FirstReadIndex(n, t) + c(t - 1)
        /\ b.stageReadIndex[t] = FirstReadIndex(n, t) + c(t)
    <2>1. /\ FirstReadIndex(n, t) \in Nat
          /\ FirstReadIndex(n, t) = FirstWriteIndex(n, t - 1)
      <3>1. t \in {0, 1, 2, 3} /\ t <= n - 1 /\ t # 0 BY <1>1
      <3>2. n \in {2, 3, 4} BY <1>1
      <3> HIDE DEF n
      <3> QED BY <3>1, <3>2, FirstIndices
    <2>2. b.stageWriteIndex[t - 1] = FirstWriteIndex(n, t - 1) + c(t - 1)
      BY <1>1 DEF IndicesInStep
    <2>3. b.stageReadIndex[t] \in Nat /\ c(t) = b.stageReadIndex[t] - FirstReadIndex(n, t)
      BY <1>1, StageIdxFacts DEF Passed
    <2> QED BY <2>1, <2>2, <2>3
  <1>3. c(t) <= k /\ k < c(t - 1) /\ k \in Nat /\ c(t) \in Nat /\ c(t - 1) \in Nat
    BY <1>1 DEF Between
  <1>4. x \in Nat /\ y \in Nat /\ low \in Nat
    <2>1. x \in Nat BY <1>2, <1>3
    <2>2. y \in Nat /\ low \in Nat BY <1>1, StageIdxFacts
    <2> QED BY <2>1, <2>2
  <1>5. /\ low <= y /\ y < low + BufferCount /\ low <= b.stageReadIndex[t]
        /\ b.stageWriteIndex[t - 1] <= low + BufferCount
    <2>1. b.stageWriteIndex[t - 1] <= b.stageWriteIndex[0]
      <3>1. \A p, q \in StagesOf(b) : p <= q => b.stageWriteIndex[q] <= b.stageWriteIndex[p]
        BY IndexSpread
      <3>2. 0 \in StagesOf(b) /\ t - 1 \in StagesOf(b) /\ 0 <= t - 1 BY <1>1
      <3> QED BY <3>1, <3>2
    <2>2. b.stageWriteIndex[0] <= low + BufferCount
      BY DEF InputReady
    <2>3. low \in Nat /\ b.stageWriteIndex[0] \in Nat /\ b.stageWriteIndex[t - 1] \in Nat
      BY <1>1, StageIdxFacts
    <2>4. low <= y /\ y < low + BufferCount /\ low <= b.stageReadIndex[t]
      BY <1>1, IndexSpread
    <2>5. BufferCount \in Nat BY <1>1
    <2> HIDE DEF low, y
    <2>6. b.stageWriteIndex[t - 1] <= low + BufferCount BY <2>1, <2>2, <2>3, <2>5
    <2> QED BY <2>4, <2>6
  <1>6. low <= x /\ x < low + BufferCount
    <2>1. BufferCount \in Nat BY <1>1
    <2>2. b.stageReadIndex[t] <= x /\ x < b.stageWriteIndex[t - 1]
      <3> HIDE DEF c, n
      <3> QED BY <1>2, <1>3
    <2>3. b.stageReadIndex[t] \in Nat /\ b.stageWriteIndex[t - 1] \in Nat
      BY <1>1, StageIdxFacts
    <2> HIDE DEF x, low
    <2> QED BY <1>4, <1>5, <2>1, <2>2, <2>3
  <1>7. x # y
    <2>1. CASE t = s \/ t < s
      <3>1. CASE t = s
        <4>1. y = FirstWriteIndex(n, s) + c(s) BY <1>1 DEF IndicesInStep
        <4>2. /\ FirstWriteIndex(n, s) \in Nat
              /\ FirstWriteIndex(n, s) <= FirstReadIndex(n, s)
          <5>1. s \in {0, 1, 2, 3} /\ s <= n - 1 BY <1>1
          <5> QED BY <1>1, <5>1, FirstIndices
        <4>3. x = FirstReadIndex(n, s) + k /\ c(s) < k BY <1>3, <3>1
        <4>4. FirstReadIndex(n, s) \in Nat /\ c(s) \in Nat BY <1>2, <1>3, <3>1
        <4> HIDE DEF c, n, y, x
        <4> QED BY <1>3, <4>1, <4>2, <4>3, <4>4
      <3>2. CASE t < s
        <4>1. /\ y < b.stageWriteIndex[t]
              /\ b.stageWriteIndex[t] <= b.stageReadIndex[t]
              /\ b.stageWriteIndex[t] \in Nat /\ b.stageReadIndex[t] \in Nat
          BY <1>1, <3>2, IndexSpread, StageIdxFacts
        <4> QED BY <1>2, <1>3, <1>4, <4>1
      <3> QED BY <2>1, <3>1, <3>2
    <2>2. CASE s <= t - 1
      <3>1. b.stageWriteIndex[t - 1] <= y
        BY <1>1, <2>2, IndexSpread
      <3> QED BY <1>2, <1>3, <1>4, <3>1
    <2> QED BY <1>1, <2>1, <2>2
  <1>8. x % BufferCount # y % BufferCount
    <2> HIDE DEF x, y, low
    <2>1. CASE x < y
      <3>1. y < x + BufferCount BY <1>1, <1>4, <1>5, <1>6, <2>1
      <3> QED BY <1>4, <2>1, <3>1, Modulus
    <2>2. CASE y < x
      <3>1. x < y + BufferCount BY <1>1, <1>4, <1>5, <1>6, <2>2
      <3> QED BY <1>4, <2>2, <3>1, Modulus
    <2> QED BY <1>4, <1>7, <2>1, <2>2
  <1> QED BY <1>8 DEF BufferOf, WriteBuffer

(* Handing a buffer over: the stage moves to its next chunk, and it and the     *)
(* next stage are launched unless something holds them back.                    *)
LEMMA RingPassOn ==
    ASSUME NEW b, NEW tot \in Nat, NEW lft, NEW ln, NEW fin,
           RingInv(b, tot, lft, ln, fin),
           NEW s \in fin,
           NEW b2, b2 = bufferFIFO_processingComplete(b, s, ln[s]),
           NEW ln2, ln2 = LaunchLen(b2, lft, ln),
           NEW fin2, fin2 = fin \ {s}
    PROVE  RingInv(b2, tot, lft, ln2, fin2)
  <1> DEFINE n    == b.numStages
             nx   == (s + 1) % n
             c(t) == Passed(b, t)
             d(t) == Passed(b2, t)
             ex   == b2.exec
             i0   == WriteBuffer(b, s)
  <1>1. /\ RingType(b, lft, ln, fin) /\ IndicesInStep(b) /\ InOrder(b)
        /\ InputReady(b, fin) /\ SizesInPlace(b, tot) /\ Accounts(b, tot, lft, ln, fin)
        /\ Quiet(b, lft, fin) /\ DrainedUpTo(b) /\ Woken(b, fin)
    BY DEF RingInv
  <1>2. /\ b \in FifoStruct /\ tot \in Nat /\ lft \in [StageIdx -> Nat]
        /\ ln \in [StageIdx -> Nat] /\ b.stall_index <= b.numStages
        /\ fin \subseteq StageIdx
    BY <1>1 DEF RingType
  <1>3. /\ s \in fin
        /\ b2 = bufferFIFO_processingComplete(b, s, ln[s])
        /\ ln2 = LaunchLen(b2, lft, ln)
        /\ fin2 = fin \ {s}
    OBVIOUS
  <1>stage. s \in StageIdx BY <1>2, <1>3
  <1>4. b.processing /\ s \in StagesOf(b) /\ InFlight(b, fin, s) /\ s \in 0 .. n - 1
    BY <1>1, <1>3, <1>stage DEF Quiet, InFlight, StagesOf
  <1>5. /\ n \in {2, 3, 4} /\ StagesOf(b) \subseteq StageIdx /\ StageIdx = {0, 1, 2, 3}
        /\ StagesOf(b) = 0 .. n - 1 /\ 0 \in StagesOf(b) /\ n - 1 \in StagesOf(b)
        /\ \A t \in StagesOf(b) : c(t) \in Nat
    BY <1>1, StageIdxFacts, StageIdxIs DEF IndicesInStep, StagesOf
  <1>6. nx \in StagesOf(b) /\ nx # s /\ (s = n - 1 => nx = 0) /\ (s # n - 1 => nx = s + 1)
    <2>1. CASE s = n - 1
      <3>1. s + 1 = n BY <1>5, <2>1
      <3>2. n % n = 0 BY <1>5
      <3>3. nx = 0 BY <3>1, <3>2
      <3> HIDE DEF nx, n
      <3> QED BY <1>5, <2>1, <3>3
    <2>2. CASE s # n - 1
      <3>1. s + 1 \in 0 .. n - 1 /\ s + 1 < n BY <1>4, <1>5, <2>2
      <3>2. \A m \in {2, 3, 4}, i \in {1, 2, 3} : i < m => i % m = i BY SMT
      <3>3. s + 1 \in {1, 2, 3} /\ n \in {2, 3, 4} BY <1>4, <1>5, <3>1
      <3>4. nx = s + 1
        <4> DEFINE i == s + 1
        <4>1. i \in {1, 2, 3} /\ i < n BY <3>1, <3>3
        <4> HIDE DEF i, n
        <4>2. i % n = i BY <3>2, <3>3, <4>1
        <4> QED BY <4>2 DEF i
      <3> QED BY <1>5, <2>2, <3>1, <3>4
    <2> QED BY <2>1, <2>2
  <1>7. /\ b2 \in FifoStruct
        /\ b2.numStages = n
        /\ b2.bufferSize = [b.bufferSize EXCEPT ![i0] = ln[s]]
        /\ b2.stageReadIndex = [b.stageReadIndex EXCEPT ![s] = @ + 1]
        /\ b2.stageWriteIndex = [b.stageWriteIndex EXCEPT ![s] = @ + 1]
        /\ b2.stalled = b.stalled
        /\ b2.stall_index <= b2.numStages
        /\ ex \subseteq {s, nx}
        /\ \A t \in StageIdx :
              b2.stageProcessing[t] <=> (t # s /\ b.stageProcessing[t]) \/ t \in ex
        /\ \A t \in ex : /\ ~b.stalled[t] /\ ~NoBuffer(b2, t)
                         /\ t # s => ~b.stageProcessing[t]
        /\ \A t \in {s, nx} : b2.stageProcessing[t] \/ b.stalled[t]
                               \/ NoBuffer(b2, t)
        /\ b2.processing => \A t \in b.stall_index .. b2.stall_index - 1 :
                                Drained(b2, t)
        /\ b.processing /\ ~b2.processing =>
              \A t \in b.stall_index .. n - 1 : Drained(b2, t)
    <2>1. ln[s] \in Nat BY <1>2
    <2>2. HandedOver(b, b2, s, ln[s])
      BY <1>2, <1>3, <1>4, <2>1, CompleteFields
    <2> QED BY <2>2 DEF HandedOver
  <1> HIDE DEF nx, n, ex, i0
  <1>8. /\ StagesOf(b2) = StagesOf(b)
        /\ \A t \in StageIdx : t # s => /\ b2.stageReadIndex[t] = b.stageReadIndex[t]
                                        /\ b2.stageWriteIndex[t] = b.stageWriteIndex[t]
                                        /\ d(t) = c(t)
        /\ b2.stageReadIndex[s] = b.stageReadIndex[s] + 1
        /\ b2.stageWriteIndex[s] = b.stageWriteIndex[s] + 1
    <2>1. /\ b.stageReadIndex \in [StageIdx -> Nat]
          /\ b.stageWriteIndex \in [StageIdx -> Nat]
      BY <1>2 DEF FifoStruct
    <2> QED BY <1>7, <1>stage, <2>1 DEF StagesOf, Passed, n
  <1>9. d(s) = c(s) + 1
    <2>1. FirstReadIndex(n, s) \in Nat
      <3>1. s \in {0, 1, 2, 3} /\ s <= n - 1 BY <1>4, <1>5
      <3> QED BY <1>5, <3>1, FirstIndices
    <2>2. b.stageReadIndex[s] \in Nat
      BY <1>1, <1>4, StageIdxFacts
    <2> QED BY <1>7, <1>8, <2>1, <2>2 DEF Passed, n
  <1> HIDE DEF c, d
  <1>indices. \A t \in StagesOf(b) :
                  /\ FirstReadIndex(n, t) \in Nat
                  /\ FirstWriteIndex(n, t) \in Nat
                  /\ t # 0 => FirstReadIndex(n, t) = FirstWriteIndex(n, t - 1)
    <2> SUFFICES ASSUME NEW t \in StagesOf(b)
                 PROVE  /\ FirstReadIndex(n, t) \in Nat
                        /\ FirstWriteIndex(n, t) \in Nat
                        /\ t # 0 => FirstReadIndex(n, t) = FirstWriteIndex(n, t - 1)
      OBVIOUS
    <2>1. t \in {0, 1, 2, 3} /\ t <= n - 1 BY <1>5
    <2> QED BY <1>5, <2>1, FirstIndices
  <1>counts. \A t \in StagesOf(b) :
                 /\ d(t) \in Nat /\ c(t) \in Nat /\ c(t) <= d(t)
                 /\ t # s => d(t) = c(t)
    <2> SUFFICES ASSUME NEW t \in StagesOf(b)
                 PROVE  /\ d(t) \in Nat /\ c(t) \in Nat /\ c(t) <= d(t)
                        /\ t # s => d(t) = c(t)
      OBVIOUS
    <2>1. t \in StageIdx /\ c(t) \in Nat BY <1>5
    <2>2. CASE t = s BY <1>9, <2>1, <2>2
    <2>3. CASE t # s BY <1>8, <2>1, <2>3
    <2> QED BY <2>2, <2>3
  (* Stages in flight: those that were, except s, and those just launched.      *)
  <1>10. /\ \A t \in StageIdx :
               InFlight(b2, fin2, t) <=> (t # s /\ InFlight(b, fin, t)) \/ t \in ex
         /\ \A t \in ex : t \notin fin2
         /\ ex \subseteq StagesOf(b)
    <2>1. ex \subseteq StagesOf(b) BY <1>4, <1>6, <1>7
    <2>2. \A t \in ex : t \notin fin2
      BY <1>1, <1>3, <1>4, <1>7, <2>1 DEF Accounts
    <2> QED BY <1>3, <1>5, <1>7, <1>8, <2>1, <2>2 DEF InFlight
  <1>11. InOrder(b2)
    <2> SUFFICES ASSUME NEW t \in StagesOf(b), NEW u \in StagesOf(b), t < u
                 PROVE  d(u) <= d(t)
      BY <1>8 DEF InOrder, d
    <2>1. c(u) <= c(t) BY <1>1 DEF InOrder, c
    <2>2. CASE u = s
      <3>1. s # 0 /\ s - 1 \in StagesOf(b) /\ t <= s - 1 BY <1>4, <1>5, <2>2
      <3>2. c(s) < c(s - 1) BY <1>1, <1>4, <3>1 DEF InputReady, c
      <3>3. c(s - 1) <= c(t)
        <4>1. CASE t = s - 1 BY <1>5, <4>1
        <4>2. CASE t < s - 1 BY <1>1, <3>1, <4>2 DEF InOrder, c
        <4> QED BY <1>5, <3>1, <4>1, <4>2
      <3> QED BY <1>5, <1>8, <1>9, <2>2, <3>1, <3>2, <3>3
    <2>3. CASE u # s /\ t = s BY <1>5, <1>8, <1>9, <2>1, <2>3
    <2>4. CASE u # s /\ t # s BY <1>5, <1>8, <2>1, <2>4
    <2> QED BY <2>2, <2>3, <2>4
  <1>12. IndicesInStep(b2)
    <2> SUFFICES ASSUME NEW t \in StagesOf(b)
                 PROVE  /\ d(t) >= 0
                        /\ b2.stageWriteIndex[t] = FirstWriteIndex(n, t) + d(t)
      BY <1>7, <1>8 DEF IndicesInStep, d
    <2>1. b.stageWriteIndex[t] = FirstWriteIndex(n, t) + c(t)
      BY <1>1 DEF IndicesInStep, c, n
    <2>2. FirstWriteIndex(n, t) \in Nat BY <1>indices
    <2>3. t \in StageIdx /\ c(t) \in Nat BY <1>5
    <2>4. CASE t = s BY <1>8, <1>9, <2>1, <2>2, <2>3, <2>4
    <2>5. CASE t # s BY <1>8, <2>1, <2>2, <2>3, <2>5
    <2> QED BY <2>4, <2>5
  <1>13. InputReady(b2, fin2)
    <2>1. ASSUME NEW t \in StagesOf(b) \ {0}, InFlight(b2, fin2, t)
          PROVE  d(t) < d(t - 1)
      <3>1. t - 1 \in StagesOf(b) /\ t - 1 < t BY <1>5
      <3>2. d(t) <= d(t - 1) BY <1>8, <1>11, <3>1 DEF InOrder, d
      <3>3. CASE t \in ex
        <4>1. b2.stageReadIndex[t] # b2.stageWriteIndex[t - 1]
          BY <1>7, <3>3 DEF NoBuffer
        <4>2. /\ b2.stageReadIndex[t] = FirstReadIndex(n, t) + d(t)
              /\ b2.stageWriteIndex[t - 1] = FirstWriteIndex(n, t - 1) + d(t - 1)
          <5>1. FirstReadIndex(n, t) \in Nat /\ b2.stageReadIndex[t] \in Nat
            <6>1. t \in StageIdx BY <1>5
            <6>2. b2.stageReadIndex \in [StageIdx -> Nat] BY <1>7 DEF FifoStruct
            <6> QED BY <1>indices, <6>1, <6>2
          <5> QED BY <1>7, <1>8, <1>12, <3>1, <5>1 DEF IndicesInStep, Passed, d
        <4>3. FirstReadIndex(n, t) = FirstWriteIndex(n, t - 1)
          BY <1>indices
        <4>4. d(t) \in Int /\ d(t - 1) \in Int BY <1>counts, <3>1
        <4> QED BY <3>2, <4>1, <4>2, <4>3, <4>4
      <3>4. CASE t # s /\ InFlight(b, fin, t)
        <4>1. c(t) < c(t - 1) BY <1>1, <3>4 DEF InputReady, c
        <4>2. c(t - 1) <= d(t - 1) /\ c(t) \in Nat /\ c(t - 1) \in Nat
              /\ d(t - 1) \in Nat
          BY <1>counts, <3>1
        <4>3. d(t) = c(t) BY <1>5, <1>8, <3>4
        <4> QED BY <4>1, <4>2, <4>3
      <3> QED BY <1>5, <1>10, <2>1, <3>3, <3>4
    <2> DEFINE limit == b.stageReadIndex[n - 1] + BufferCount
               limit2 == b2.stageReadIndex[n - 1] + BufferCount
    <2>2. /\ b.stageWriteIndex[0] <= limit
          /\ InFlight(b, fin, 0) => b.stageWriteIndex[0] < limit
      BY <1>1 DEF InputReady, n
    <2>3. /\ limit \in Nat /\ limit2 \in Nat /\ limit <= limit2
          /\ b.stageWriteIndex[0] \in Nat /\ b2.stageWriteIndex[0] \in Nat
      <3>1. /\ b.stageReadIndex[n - 1] \in Nat /\ b.stageReadIndex[s] \in Nat
            /\ b.stageWriteIndex[0] \in Nat /\ b2.stageWriteIndex[0] \in Nat
            /\ b2.stageReadIndex[n - 1] \in Nat
        <4>1. /\ b.stageReadIndex \in [StageIdx -> Nat]
              /\ b.stageWriteIndex \in [StageIdx -> Nat]
              /\ b2.stageReadIndex \in [StageIdx -> Nat]
              /\ b2.stageWriteIndex \in [StageIdx -> Nat]
          BY <1>2, <1>7 DEF FifoStruct
        <4>2. 0 \in StageIdx /\ n - 1 \in StageIdx BY <1>5
        <4> QED BY <1>stage, <4>1, <4>2
      <3>2. b.stageReadIndex[n - 1] <= b2.stageReadIndex[n - 1]
        <4>1. CASE n - 1 = s BY <1>8, <3>1, <4>1
        <4>2. CASE n - 1 # s
          <5>1. n - 1 \in StageIdx BY <1>5
          <5> QED BY <1>8, <3>1, <4>2, <5>1
        <4> QED BY <4>1, <4>2
      <3> QED BY <3>1, <3>2, BufferCountAssumption
    <2>4. b2.stageWriteIndex[0] <= limit2
      <3>1. CASE s = 0 BY <1>4, <1>8, <2>2, <2>3, <3>1
      <3>2. CASE s # 0
        <4>1. b2.stageWriteIndex[0] = b.stageWriteIndex[0] BY <1>5, <1>8, <3>2
        <4> QED BY <2>2, <2>3, <4>1
      <3> QED BY <3>1, <3>2
    <2>5. InFlight(b2, fin2, 0) => b2.stageWriteIndex[0] < limit2
      <3> SUFFICES ASSUME InFlight(b2, fin2, 0) PROVE b2.stageWriteIndex[0] < limit2 OBVIOUS
      <3>1. CASE 0 \in ex
        <4>1. b2.stageWriteIndex[0] # limit2 BY <1>7, <3>1 DEF NoBuffer
        <4> QED BY <2>3, <2>4, <4>1
      <3>2. CASE 0 # s /\ InFlight(b, fin, 0)
        <4>1. b2.stageWriteIndex[0] = b.stageWriteIndex[0] BY <1>5, <1>8, <3>2
        <4> QED BY <2>2, <2>3, <3>2, <4>1
      <3> QED BY <1>5, <1>10, <3>1, <3>2
    <2> QED BY <1>7, <1>8, <2>1, <2>4, <2>5 DEF InputReady, d
  <1>14. SizesInPlace(b2, tot)
    <2> SUFFICES ASSUME NEW t \in StagesOf(b) \ {0}, NEW k \in d(t) .. d(t - 1) - 1
                 PROVE  b2.bufferSize[BufferOf(b2, t, k)] = ChunkSize(tot, k)
      BY <1>8 DEF SizesInPlace, Between, d
    <2>1. /\ t - 1 \in StagesOf(b) /\ t \in StagesOf(b) /\ t # t - 1
          /\ c(t) \in Nat /\ c(t - 1) \in Nat /\ c(s) \in Nat
          /\ c(t) <= d(t) /\ k \in Nat /\ d(t) <= k /\ k < d(t - 1)
          /\ d(t) \in Nat /\ d(t - 1) \in Nat
          /\ t - 1 # s => d(t - 1) = c(t - 1)
      <3>1. t - 1 \in StagesOf(b) BY <1>5
      <3>2. t \in StagesOf(b) /\ t \in Int /\ s \in StagesOf(b) BY <1>4, <1>5
      <3> QED BY <1>counts, <3>1, <3>2
    <2>2. i0 \in Buffers
      <3>1. b.stageWriteIndex[s] \in Nat BY <1>1, <1>4, StageIdxFacts
      <3> QED BY <3>1, Division DEF i0, WriteBuffer
    <2>3. BufferOf(b2, t, k) = BufferOf(b, t, k)
      BY <1>7 DEF BufferOf, n
    <2>4. CASE t - 1 = s /\ k = c(s)
      <3>1. /\ FirstReadIndex(n, t) = FirstWriteIndex(n, t - 1)
            /\ b.stageWriteIndex[s] = FirstWriteIndex(n, s) + c(s)
        BY <1>1, <1>4, <1>indices DEF IndicesInStep, c, n
      <3>2. BufferOf(b, t, k) = i0
        BY <2>4, <3>1 DEF BufferOf, WriteBuffer, i0, n
      <3>3. b2.bufferSize[i0] = ln[s]
        BY <1>2, <1>7, <2>2 DEF FifoStruct
      <3>4. ln[s] = ChunkSize(tot, k)
        BY <1>1, <1>4, <2>4 DEF Accounts, c
      <3> QED BY <2>3, <3>2, <3>3, <3>4
    <2>5. CASE ~(t - 1 = s /\ k = c(s))
      <3>1. c(t) <= k /\ k < c(t - 1)
        <4>1. CASE t - 1 = s
          <5>1. d(t - 1) = c(t - 1) + 1 BY <1>9, <4>1
          <5> QED BY <2>1, <2>5, <4>1, <5>1
        <4>2. CASE t - 1 # s BY <2>1, <4>2
        <4> QED BY <4>1, <4>2
      <3>2. k \in Between(b, t) BY <2>1, <3>1 DEF Between, c
      <3>3. b.bufferSize[BufferOf(b, t, k)] = ChunkSize(tot, k)
        BY <1>1, <3>2 DEF SizesInPlace
      <3>4. BufferOf(b, t, k) # i0
        <4>1. t = s => k # c(s) BY <1>4, <1>5, <1>9, <2>1
        <4> QED BY <1>1, <1>4, <3>2, <4>1, WritesFreeBuffer DEF c, i0
      <3>5. BufferOf(b, t, k) \in Buffers
        <4>1. FirstReadIndex(n, t) \in Nat BY <1>indices, <2>1
        <4> QED BY <2>1, <4>1, Division DEF BufferOf, n
      <3> QED BY <1>2, <1>7, <2>2, <2>3, <3>3, <3>4, <3>5 DEF FifoStruct
    <2> QED BY <2>4, <2>5
  <1>15. Accounts(b2, tot, lft, ln2, fin2) /\ ln2 \in [StageIdx -> Nat]
    <2>1. ASSUME NEW t \in StagesOf(b)
          PROVE  /\ lft[t] = Rest(tot, Accounted(b2, fin2, t))
                 /\ b2.stalled[t] <=> lft[t] = 0
      <3>1. Accounted(b2, fin2, t) = Accounted(b, fin, t)
        <4>1. CASE t = s BY <1>3, <1>5, <1>9, <4>1 DEF Accounted, c, d
        <4>2. CASE t # s BY <1>3, <1>5, <1>8, <4>2 DEF Accounted, c, d
        <4> QED BY <4>1, <4>2
      <3> QED BY <1>1, <1>4, <1>7, <3>1 DEF Accounts
    <2>2. ASSUME NEW t \in ex
          PROVE  /\ ln2[t] = ChunkSize(tot, d(t))
                 /\ Rest(tot, d(t)) > 0
      <3>1. /\ t \in StagesOf(b) /\ t \in StageIdx /\ ~b.stalled[t] /\ InFlight(b2, fin2, t)
            /\ t \notin fin2 /\ d(t) \in Nat
        BY <1>5, <1>7, <1>8, <1>9, <1>10
      <3>2. Accounted(b2, fin2, t) = d(t) BY <3>1 DEF Accounted, d
      <3>3. lft[t] = Rest(tot, d(t)) /\ lft[t] # 0 /\ lft[t] \in Nat
        BY <1>2, <1>7, <2>1, <3>1, <3>2
      <3>4. ln2[t] = IF t = 0 THEN Smaller(lft[0], MaxBufferSize)
                      ELSE b2.bufferSize[ReadBuffer(b2, t)]
        BY <1>3, <3>1 DEF LaunchLen, ex
      <3>5. CASE t = 0
        BY <3>3, <3>4, <3>5 DEF ChunkSize
      <3>6. CASE t # 0
        <4>1. d(t) < d(t - 1) BY <1>8, <1>13, <3>1, <3>6 DEF InputReady, d
        <4>2. t - 1 \in StagesOf(b) /\ d(t - 1) \in Int
          <5>1. t - 1 \in StagesOf(b) /\ t - 1 \in StageIdx BY <1>5, <3>1, <3>6
          <5>2. c(t - 1) \in Nat BY <1>5, <5>1
          <5>3. CASE t - 1 = s BY <1>9, <5>1, <5>2, <5>3
          <5>4. CASE t - 1 # s BY <1>8, <5>1, <5>2, <5>4
          <5> QED BY <5>3, <5>4
        <4> DEFINE k == d(t)
        <4>3. b2.bufferSize[(FirstReadIndex(n, t) + k) % BufferCount] =
                ChunkSize(tot, k)
          <5>1. t \in StagesOf(b) \ {0} /\ k \in d(t) .. d(t - 1) - 1
            BY <3>1, <3>6, <4>1, <4>2
          <5>2. \A u \in StagesOf(b) \ {0} : \A j \in d(u) .. d(u - 1) - 1 :
                  b2.bufferSize[BufferOf(b2, u, j)] = ChunkSize(tot, j)
            BY <1>8, <1>14 DEF SizesInPlace, Between, d
          <5> HIDE DEF k
          <5> QED BY <1>7, <5>1, <5>2 DEF BufferOf
        <4>4. b2.stageReadIndex[t] = FirstReadIndex(n, t) + d(t)
          <5>1. FirstReadIndex(n, t) \in Nat BY <1>5, <3>1, FirstIndices
          <5>2. b2.stageReadIndex[t] \in Nat BY <1>7, <3>1 DEF FifoStruct
          <5>3. d(t) = b2.stageReadIndex[t] - FirstReadIndex(n, t)
            BY <1>7 DEF d, Passed
          <5> QED BY <5>1, <5>2, <5>3
        <4>5. b2.bufferSize[ReadBuffer(b2, t)] = ChunkSize(tot, d(t))
          BY <4>3, <4>4 DEF ReadBuffer
        <4> QED BY <3>3, <3>4, <3>6, <4>5
      <3> QED BY <3>5, <3>6
    <2>3. ASSUME NEW t \in StageIdx, t \notin ex
          PROVE  ln2[t] = ln[t]
      BY <1>3, <2>3 DEF LaunchLen, ex
    <2>4. ASSUME NEW t \in StagesOf(b), InFlight(b2, fin2, t)
          PROVE  /\ ln2[t] = ChunkSize(tot, d(t))
                 /\ Rest(tot, d(t)) > 0
      <3>1. CASE t \in ex BY <2>2, <3>1
      <3>2. CASE t \notin ex
        <4>1. t # s /\ InFlight(b, fin, t) /\ t \in StageIdx BY <1>5, <1>10, <2>4, <3>2
        <4>2. d(t) = c(t) BY <1>8, <4>1
        <4> QED BY <1>1, <1>4, <2>3, <3>2, <4>1, <4>2 DEF Accounts, c
      <3> QED BY <3>1, <3>2
    <2>5. ASSUME NEW t \in StagesOf(b), t \in fin2
          PROVE  b2.stageProcessing[t] <=> ~b2.stalled[t]
      <3>1. t # s /\ t \in fin /\ t \notin ex /\ t \in StageIdx
        BY <1>3, <1>5, <1>10, <2>5
      <3> QED BY <1>1, <1>4, <1>7, <3>1 DEF Accounts
    <2>6. Accounts(b2, tot, lft, ln2, fin2)
      BY <1>3, <1>8, <2>1, <2>4, <2>5 DEF Accounts, d
    <2>7. ln2 \in [StageIdx -> Nat]
      <3>1. \A t \in StageIdx : ln2[t] \in Nat
        <4> SUFFICES ASSUME NEW t \in StageIdx PROVE ln2[t] \in Nat OBVIOUS
        <4>1. CASE t \in ex
          <5>1. d(t) \in Nat BY <1>5, <1>8, <1>9, <1>10, <4>1
          <5> QED BY <1>2, <2>2, <4>1, <5>1, RestStep
        <4>2. CASE t \notin ex BY <1>2, <2>3, <4>2
        <4> QED BY <4>1, <4>2
      <3>2. ln2 = [t \in StageIdx |-> ln2[t]] BY <1>3 DEF LaunchLen
      <3> QED BY <3>1, <3>2
    <2> QED BY <2>6, <2>7
  <1>16. RingType(b2, lft, ln2, fin2)
    BY <1>2, <1>3, <1>7, <1>15 DEF RingType
  (* Stages that have drained stay drained: they are not launched again.        *)
  <1>17. \A t \in StagesOf(b) : Drained(b, t) => Drained(b2, t)
    BY <1>5, <1>7 DEF Drained
  <1>18. DrainedUpTo(b2)
    <2> SUFFICES ASSUME b2.processing, NEW t \in 0 .. b2.stall_index - 1
                 PROVE  Drained(b2, t)
      BY DEF DrainedUpTo
    <2>1. b.stall_index \in Nat /\ b2.stall_index \in Nat /\ t \in StagesOf(b)
      <3>1. b.stall_index \in 0 .. MaxStages /\ b2.stall_index \in 0 .. MaxStages
        BY <1>2, <1>7 DEF FifoStruct
      <3>2. b.stall_index \in Nat /\ b2.stall_index \in Nat
        BY <3>1 DEF MaxStages
      <3>3. t \in 0 .. n - 1 BY <1>5, <1>7, <3>2
      <3> QED BY <1>5, <3>2, <3>3
    <2>2. CASE t < b.stall_index
      <3>1. t \in 0 .. b.stall_index - 1 BY <2>1, <2>2
      <3> QED BY <1>1, <1>4, <1>17, <2>1, <3>1 DEF DrainedUpTo
    <2>3. CASE t >= b.stall_index
      <3>1. t \in b.stall_index .. b2.stall_index - 1 BY <2>1, <2>3
      <3> QED BY <1>7, <3>1
    <2> QED BY <2>1, <2>2, <2>3
  <1>19. Quiet(b2, lft, fin2)
    <2>1. \A t \in StageIdx \ StagesOf(b) : ~b2.stageProcessing[t] /\ t \notin fin2
      BY <1>1, <1>3, <1>7, <1>10 DEF Quiet
    <2>2. ASSUME ~b2.processing, NEW t \in StagesOf(b)
          PROVE  Drained(b2, t) /\ lft[t] = 0
      <3>1. b.stall_index \in Nat BY <1>2 DEF FifoStruct
      <3>2. Drained(b2, t)
        <4>1. CASE t < b.stall_index
          <5>1. t \in 0 .. b.stall_index - 1 BY <1>5, <3>1, <4>1
          <5> QED BY <1>1, <1>4, <1>17, <5>1 DEF DrainedUpTo
        <4>2. CASE t >= b.stall_index
          <5>1. t \in b.stall_index .. n - 1 BY <1>5, <3>1, <4>2
          <5> QED BY <1>4, <1>7, <2>2, <5>1
        <4> QED BY <1>5, <3>1, <4>1, <4>2
      <3> QED BY <1>1, <1>4, <1>7, <3>2 DEF Drained, Accounts
    <2>3. ASSUME ~b2.processing, NEW t \in StagesOf(b), t \in fin2
          PROVE  FALSE
      <3>1. t # s /\ t \in fin /\ InFlight(b, fin, t) /\ t \in StageIdx
        BY <1>3, <1>5, <2>3 DEF InFlight
      <3>2. lft[t] = 0 /\ lft[s] = 0 BY <1>4, <2>2, <2>3
      <3>3. Accounted(b, fin, t) = c(t) + 1 /\ Accounted(b, fin, s) = c(s) + 1
        BY <1>3, <3>1 DEF Accounted, c
      <3>4. /\ Rest(tot, c(t) + 1) = 0 /\ Rest(tot, c(s) + 1) = 0
            /\ Rest(tot, c(t)) > 0 /\ Rest(tot, c(s)) > 0
        BY <1>1, <1>4, <3>1, <3>2, <3>3 DEF Accounts, c
      <3>5. c(t) \in Nat /\ c(s) \in Nat BY <1>4, <1>5
      <3>6. ~(c(t) >= c(s) + 1) /\ ~(c(s) >= c(t) + 1)
        <4>1. ASSUME NEW j \in Nat, NEW k \in Nat, k >= j + 1,
                     Rest(tot, j + 1) = 0, Rest(tot, k) > 0
              PROVE  FALSE
          <5>1. j + 1 \in Nat /\ j + 1 <= k BY <4>1
          <5>2. Rest(tot, k) <= Rest(tot, j + 1)
            BY <1>2, <5>1, RestMonotonic
          <5>3. Rest(tot, k) \in Nat BY <1>2, RestStep
          <5> QED BY <4>1, <5>2, <5>3
        <4> QED BY <3>4, <3>5, <4>1
      <3>7. c(t) = c(s) BY <3>5, <3>6
      <3>8. ASSUME NEW u \in StagesOf(b), NEW v \in StagesOf(b), u < v, InFlight(b, fin, v)
            PROVE  c(v) < c(u)
        <4>1. v # 0 /\ v - 1 \in StagesOf(b) /\ u <= v - 1 BY <1>5, <3>8
        <4>2. c(v) < c(v - 1) BY <1>1, <3>8, <4>1 DEF InputReady, c
        <4>3. c(v - 1) <= c(u)
          <5>1. CASE u = v - 1 BY <1>5, <5>1
          <5>2. CASE u < v - 1 BY <1>1, <4>1, <5>2 DEF InOrder, c
          <5> QED BY <1>5, <4>1, <5>1, <5>2
        <4> QED BY <1>5, <4>1, <4>2, <4>3
      <3>9. CASE t < s BY <1>4, <3>5, <3>7, <3>8, <3>9
      <3>10. CASE s < t BY <1>4, <3>1, <3>5, <3>7, <3>8, <3>10
      <3> QED BY <1>5, <3>1, <3>9, <3>10
    <2>4. \A t \in StagesOf(b) : Drained(b2, t) => ~b2.stageProcessing[t]
      BY DEF Drained
    <2> QED BY <1>3, <1>8, <2>1, <2>2, <2>3, <2>4 DEF Quiet
  <1>20. Woken(b2, fin2)
    <2> SUFFICES ASSUME NEW t \in StagesOf(b), ~InFlight(b2, fin2, t)
                 PROVE  bufferFIFO_stageStalled(b2, t)
      BY <1>8 DEF Woken
    <2>1. CASE t \in {s, nx}
      <3>1. b2.stageProcessing[t] \/ b.stalled[t] \/ NoBuffer(b2, t)
        BY <1>7, <2>1
      <3> QED BY <1>7, <3>1 DEF bufferFIFO_stageStalled, NoBuffer
    <2>2. CASE t \notin {s, nx}
      <3>1. t \in StageIdx /\ ~InFlight(b, fin, t) /\ t \notin ex
        BY <1>5, <1>7, <1>10, <2>2
      <3>2. bufferFIFO_stageStalled(b, t) /\ ~b.stageProcessing[t]
        BY <1>1, <1>4, <3>1 DEF Woken, InFlight
      <3>3. CASE t # 0
        <4>1. t - 1 \in StageIdx /\ t - 1 # s
          BY <1>4, <1>5, <1>6, <2>2, <3>3
        <4> QED BY <1>7, <1>8, <2>2, <3>1, <3>2, <3>3, <4>1
            DEF bufferFIFO_stageStalled
      <3>4. CASE t = 0
        <4>1. n - 1 \in StageIdx /\ n - 1 # s BY <1>5, <1>6, <2>2, <3>4
        <4> QED BY <1>7, <1>8, <2>2, <3>1, <3>2, <3>4, <4>1
            DEF bufferFIFO_stageStalled, n
      <3> QED BY <3>3, <3>4
    <2> QED BY <2>1, <2>2
  <1> QED BY <1>11, <1>12, <1>13, <1>14, <1>15, <1>16, <1>18, <1>19, <1>20 DEF RingInv

------------------------------------------------------------------------------
(* The buffers of a transfer: which hold a chunk, and which may be written.      *)

(* A stage in flight moves the next chunk of the transfer, into one buffer from *)
(* the one that holds it.                                                       *)
AtChunk(b, tot, lft, ln, fin, s, k) ==
    /\ s \in 0 .. b.numStages - 1 /\ k \in Nat /\ k = Passed(b, s)
    /\ ln[s] = ChunkSize(tot, k) /\ ln[s] \in 1 .. MaxBufferSize
    /\ IF s \in fin THEN lft[s] = tot - k * MaxBufferSize - ln[s]
                    ELSE lft[s] = tot - k * MaxBufferSize
    /\ s # 0 => /\ k \in Between(b, s)
                /\ BufferOf(b, s, k) = ReadBuffer(b, s)
    /\ s = b.numStages - 1 => WriteBuffer(b, s) = ReadBuffer(b, s)

LEMMA StageIndices ==
    ASSUME NEW b, NEW tot, NEW lft, NEW ln, NEW fin, RingInv(b, tot, lft, ln, fin),
           NEW s \in 0 .. b.numStages - 1
    PROVE  /\ b \in FifoStruct /\ s \in StageIdx /\ Passed(b, s) \in Nat
           /\ b.numStages \in 2 .. 4
           /\ b.stageReadIndex[s] \in Nat /\ b.stageWriteIndex[s] \in Nat
           /\ b.stageReadIndex[s] = FirstReadIndex(b.numStages, s) + Passed(b, s)
           /\ b.stageWriteIndex[s] = FirstWriteIndex(b.numStages, s) + Passed(b, s)
           /\ s \in StagesOf(b)
  <1>1. /\ RingType(b, lft, ln, fin) /\ IndicesInStep(b)
    BY DEF RingInv
  <1>2. b \in FifoStruct /\ s \in StagesOf(b) /\ b.numStages \in 2 .. 4
    BY <1>1 DEF RingType, FifoStruct, MaxStages, StagesOf
  <1>3. s \in StageIdx
    BY <1>2, StageIdxIs
  <1>4. b.stageReadIndex[s] \in Nat /\ b.stageWriteIndex[s] \in Nat
    BY <1>2, <1>3 DEF FifoStruct
  <1>5. FirstReadIndex(b.numStages, s) \in Nat
    BY <1>2 DEF FirstReadIndex
  <1>6. Passed(b, s) = b.stageReadIndex[s] - FirstReadIndex(b.numStages, s)
    BY DEF Passed
  <1>7. /\ Passed(b, s) >= 0
        /\ b.stageWriteIndex[s] = FirstWriteIndex(b.numStages, s) + Passed(b, s)
    BY <1>1, <1>2 DEF IndicesInStep
  <1> QED
    BY <1>2, <1>3, <1>4, <1>5, <1>6, <1>7

LEMMA ChunkOfStage ==
    ASSUME NEW b, NEW tot \in Nat, NEW lft, NEW ln, NEW fin,
           RingInv(b, tot, lft, ln, fin), b.processing,
           NEW s, InFlight(b, fin, s)
    PROVE  AtChunk(b, tot, lft, ln, fin, s, Passed(b, s))
  <1> DEFINE k == Passed(b, s)
  <1>1. s \in 0 .. b.numStages - 1 /\ s \in StagesOf(b)
    BY DEF InFlight, StagesOf
  <1>2. /\ b \in FifoStruct /\ s \in StageIdx /\ k \in Nat /\ b.numStages \in 2 .. 4
        /\ b.stageReadIndex[s] \in Nat /\ b.stageWriteIndex[s] \in Nat
        /\ b.stageReadIndex[s] = FirstReadIndex(b.numStages, s) + k
        /\ b.stageWriteIndex[s] = FirstWriteIndex(b.numStages, s) + k
    BY <1>1, StageIndices
  <1>3. /\ lft[s] = Rest(tot, Accounted(b, fin, s))
        /\ ln[s] = ChunkSize(tot, k) /\ Rest(tot, k) > 0
    BY <1>1 DEF RingInv, Accounts
  <1>4. /\ Rest(tot, k) \in Nat /\ ChunkSize(tot, k) \in Nat
        /\ Rest(tot, k + 1) = Rest(tot, k) - ChunkSize(tot, k)
    BY <1>2, RestStep
  <1>5. MaxBufferSize \in Nat /\ MaxBufferSize > 0 /\ k * MaxBufferSize \in Nat
    BY <1>2, BufferFifoAssumption
  <1>6. Rest(tot, k) = tot - k * MaxBufferSize
    BY <1>3 DEF Rest
  <1>7. ln[s] \in 1 .. MaxBufferSize
    BY <1>3, <1>4, <1>5 DEF ChunkSize, Smaller
  <1>8. /\ s \in fin => lft[s] = Rest(tot, k + 1)
        /\ s \notin fin => lft[s] = Rest(tot, k)
    BY <1>2, <1>3 DEF Accounted
  <1>9. ASSUME s # 0
        PROVE  k \in Between(b, s) /\ BufferOf(b, s, k) = ReadBuffer(b, s)
    <2>1. s - 1 \in 0 .. b.numStages - 1
      BY <1>1, <1>2, <1>9
    <2>2. Passed(b, s - 1) \in Nat
      BY <2>1, StageIndices
    <2>3. k < Passed(b, s - 1)
      BY <1>1, <1>9 DEF RingInv, InputReady
    <2> QED
      BY <1>2, <2>2, <2>3 DEF Between, BufferOf, ReadBuffer
  <1>10. ASSUME s = b.numStages - 1
         PROVE  WriteBuffer(b, s) = ReadBuffer(b, s)
    <2>1. FirstReadIndex(b.numStages, s) = 0 /\ FirstWriteIndex(b.numStages, s) = 0
      BY <1>2, <1>10 DEF FirstReadIndex, FirstWriteIndex
    <2> QED
      BY <1>2, <2>1 DEF ReadBuffer, WriteBuffer
  <1> HIDE DEF k
  <1>11. IF s \in fin THEN lft[s] = tot - k * MaxBufferSize - ln[s]
                      ELSE lft[s] = tot - k * MaxBufferSize
    BY <1>3, <1>4, <1>5, <1>6, <1>8
  <1> QED
    BY <1>1, <1>2, <1>3, <1>7, <1>9, <1>10, <1>11 DEF AtChunk, k

(* The buffer a stage other than the last writes holds no chunk that is still    *)
(* to be moved on.                                                              *)
LEMMA WritesNoChunk ==
    ASSUME NEW b, NEW tot, NEW lft, NEW ln, NEW fin,
           RingInv(b, tot, lft, ln, fin), b.numStages \in {2, 3}, BufferCount > 1,
           NEW s, InFlight(b, fin, s), s # b.numStages - 1
    PROVE  /\ \A t \in (0 .. b.numStages - 1) \ {0} : \A k \in Between(b, t) :
                 BufferOf(b, t, k) # WriteBuffer(b, s)
           /\ \A u : InFlight(b, fin, u) /\ u # s =>
                 /\ WriteBuffer(b, s) # WriteBuffer(b, u)
                 /\ WriteBuffer(b, s) # ReadBuffer(b, u)
  <1>1. /\ RingType(b, lft, ln, fin) /\ IndicesInStep(b) /\ InOrder(b)
        /\ InputReady(b, fin)
    BY DEF RingInv
  <1>2. s \in StagesOf(b) /\ s \in 0 .. b.numStages - 1
    BY DEF InFlight, StagesOf
  <1>3. ASSUME NEW t \in (0 .. b.numStages - 1) \ {0}, NEW k \in Between(b, t)
        PROVE  BufferOf(b, t, k) # WriteBuffer(b, s)
    <2>1. t \in StagesOf(b) \ {0}
      BY DEF StagesOf
    <2>2. CASE t = s => k # Passed(b, s)
      BY <1>1, <1>2, <2>1, <2>2, WritesFreeBuffer
    <2>3. CASE t = s /\ k = Passed(b, s)
      <3>1. b.numStages = 3 /\ s = 1
        BY <1>2, <2>3
      <3>2. /\ b.stageReadIndex[1] \in Nat /\ b.stageWriteIndex[1] \in Nat
            /\ b.stageReadIndex[1] = FirstReadIndex(3, 1) + Passed(b, 1)
            /\ b.stageWriteIndex[1] = FirstWriteIndex(3, 1) + Passed(b, 1)
            /\ Passed(b, 1) \in Nat
        BY <1>2, <3>1, StageIndices
      <3>3. FirstReadIndex(3, 1) = 1 /\ FirstWriteIndex(3, 1) = 0
        BY DEF FirstReadIndex, FirstWriteIndex
      <3>4. BufferOf(b, t, k) = b.stageReadIndex[1] % BufferCount
        BY <2>3, <3>1, <3>2 DEF BufferOf
      <3>5. b.stageWriteIndex[1] % BufferCount # b.stageReadIndex[1] % BufferCount
        <4>1. /\ b.stageWriteIndex[1] < b.stageReadIndex[1]
              /\ b.stageReadIndex[1] < b.stageWriteIndex[1] + BufferCount
          BY <3>2, <3>3, BufferCountAssumption
        <4> QED
          BY <3>2, <4>1, Modulus
      <3> QED
        BY <3>1, <3>4, <3>5 DEF WriteBuffer
    <2> QED
      BY <2>2, <2>3
  <1>4. ASSUME NEW u, InFlight(b, fin, u), u # s
        PROVE  WriteBuffer(b, s) # WriteBuffer(b, u) /\ WriteBuffer(b, s) # ReadBuffer(b, u)
    <2>1. s \in StageIdx /\ u \in StageIdx
      <3>1. u \in 0 .. b.numStages - 1
        BY <1>4 DEF InFlight, StagesOf
      <3> QED
        BY <1>2, <3>1, StageIdxIs DEF StagesOf
    <2> QED
      BY <1>1, <1>4, <2>1, RingNoConflict
  <1> QED
    BY <1>3, <1>4

(* Stage s of the ring b has passed its buffer on, and the ring is p: the buffer *)
(* is one more for the next stage to take, and all others are as they were.      *)
BufferPassed(b, p, s, fin) ==
    /\ p.numStages = b.numStages
    /\ \A u \in (0 .. b.numStages - 1) \ {s} :
          /\ Passed(p, u) = Passed(b, u)
          /\ ReadBuffer(p, u) = ReadBuffer(b, u) /\ WriteBuffer(p, u) = WriteBuffer(b, u)
          /\ u \notin p.exec /\ InFlight(p, fin \ {s}, u) => InFlight(b, fin, u)
    /\ s \notin p.exec => ~InFlight(p, fin \ {s}, s)
    /\ \A t \in (0 .. b.numStages - 1) \ {0} : \A k \in Between(p, t) :
          /\ BufferOf(p, t, k) = BufferOf(b, t, k)
          /\ \/ k \in Between(b, t)
             \/ /\ t = s + 1 /\ k = Passed(b, s)
                /\ BufferOf(b, t, k) = WriteBuffer(b, s)

LEMMA PassingOn ==
    ASSUME NEW b, NEW tot \in Nat, NEW lft, NEW ln, NEW fin,
           RingInv(b, tot, lft, ln, fin), b.processing,
           NEW s \in fin, s \in 0 .. b.numStages - 1,
           NEW p, p = bufferFIFO_processingComplete(b, s, ln[s])
    PROVE  BufferPassed(b, p, s, fin)
  <1>1. AtChunk(b, tot, lft, ln, fin, s, Passed(b, s))
    <2>1. InFlight(b, fin, s)
      BY DEF InFlight, StagesOf
    <2> QED
      BY <2>1, ChunkOfStage
  <1>2. ln[s] \in Nat
    BY <1>1, BufferFifoAssumption DEF AtChunk
  <1>3. HandedOver(b, p, s, ln[s])
    <2>1. b \in FifoStruct /\ b.stall_index <= b.numStages
      BY DEF RingInv, RingType
    <2> QED
      BY <1>2, <2>1, CompleteFields
  <1>4. /\ p.numStages = b.numStages
        /\ p.stageReadIndex = [b.stageReadIndex EXCEPT ![s] = @ + 1]
        /\ p.stageWriteIndex = [b.stageWriteIndex EXCEPT ![s] = @ + 1]
        /\ \A t \in StageIdx : p.stageProcessing[t] <=> (t # s /\ b.stageProcessing[t])
                                                        \/ t \in p.exec
    BY <1>3 DEF HandedOver
  <1>5. ASSUME NEW u \in 0 .. b.numStages - 1
        PROVE  /\ b \in FifoStruct /\ u \in StageIdx /\ Passed(b, u) \in Nat
               /\ b.stageReadIndex[u] \in Nat /\ b.stageWriteIndex[u] \in Nat
               /\ b.stageReadIndex[u] = FirstReadIndex(b.numStages, u) + Passed(b, u)
               /\ b.stageWriteIndex[u] = FirstWriteIndex(b.numStages, u) + Passed(b, u)
    BY <1>5, StageIndices
  <1>10. b.numStages \in 2 .. 4
    BY StageIndices
  <1>6. ASSUME NEW u \in 0 .. b.numStages - 1, u # s
        PROVE  /\ Passed(p, u) = Passed(b, u)
               /\ ReadBuffer(p, u) = ReadBuffer(b, u) /\ WriteBuffer(p, u) = WriteBuffer(b, u)
               /\ u \notin p.exec /\ InFlight(p, fin \ {s}, u) => InFlight(b, fin, u)
    <2>1. /\ p.stageReadIndex[u] = b.stageReadIndex[u]
          /\ p.stageWriteIndex[u] = b.stageWriteIndex[u]
      BY <1>4, <1>5, <1>6 DEF FifoStruct
    <2>2. u \notin p.exec => (p.stageProcessing[u] <=> b.stageProcessing[u])
      BY <1>4, <1>5, <1>6
    <2> QED
      BY <1>4, <1>6, <2>1, <2>2 DEF Passed, InFlight, ReadBuffer, WriteBuffer, StagesOf
  <1>7. Passed(p, s) = Passed(b, s) + 1
    <2>1. p.stageReadIndex[s] = b.stageReadIndex[s] + 1
      BY <1>4, <1>5 DEF FifoStruct
    <2>2. FirstReadIndex(b.numStages, s) \in Int
      BY DEF FirstReadIndex, RingInv, RingType, FifoStruct, MaxStages
    <2> QED
      BY <1>4, <1>5, <2>1, <2>2 DEF Passed
  <1>8. s \notin p.exec => ~InFlight(p, fin \ {s}, s)
    <2>1. s \notin p.exec => ~p.stageProcessing[s]
      BY <1>4, <1>5
    <2> QED
      BY <2>1 DEF InFlight
  <1>9. ASSUME NEW t \in (0 .. b.numStages - 1) \ {0}, NEW k \in Between(p, t)
        PROVE  /\ BufferOf(p, t, k) = BufferOf(b, t, k)
               /\ \/ k \in Between(b, t)
                  \/ /\ t = s + 1 /\ k = Passed(b, s)
                     /\ BufferOf(b, t, k) = WriteBuffer(b, s)
    <2>1. BufferOf(p, t, k) = BufferOf(b, t, k)
      BY <1>4 DEF BufferOf
    <2>2. t - 1 \in 0 .. b.numStages - 1 /\ t \in 0 .. b.numStages - 1
      BY <1>10
    <2>3. Passed(b, t) \in Nat /\ Passed(b, t - 1) \in Nat /\ Passed(b, s) \in Nat
      BY <1>5, <2>2
    <2>4. k \in Passed(p, t) .. Passed(p, t - 1) - 1
      BY <1>9 DEF Between
    <2>5. CASE t = s
      <3>1. Passed(p, t - 1) = Passed(b, t - 1)
        BY <1>6, <2>2, <2>5
      <3> QED
        BY <1>7, <2>1, <2>3, <2>4, <2>5, <3>1 DEF Between
    <2>6. CASE t - 1 = s
      <3>1. Passed(p, t) = Passed(b, t)
        BY <1>6, <2>2, <2>6
      <3>2. k \in Passed(b, t) .. Passed(b, s)
        BY <1>7, <2>3, <2>4, <2>6, <3>1
      <3>3. CASE k = Passed(b, s)
        <4>1. FirstReadIndex(b.numStages, t) = FirstWriteIndex(b.numStages, s)
          BY <1>10, <2>2, <2>6 DEF FirstReadIndex, FirstWriteIndex
        <4>2. BufferOf(b, t, k) = WriteBuffer(b, s)
          BY <1>5, <3>3, <4>1 DEF BufferOf, WriteBuffer
        <4> QED
          BY <2>1, <2>2, <2>6, <3>3, <4>2
      <3>4. CASE k # Passed(b, s)
        BY <2>1, <2>3, <2>6, <3>2, <3>4 DEF Between
      <3> QED
        BY <3>3, <3>4
    <2>7. CASE t # s /\ t - 1 # s
      <3>1. Passed(p, t) = Passed(b, t) /\ Passed(p, t - 1) = Passed(b, t - 1)
        BY <1>6, <2>2, <2>7
      <3> QED
        BY <2>1, <2>4, <3>1 DEF Between
    <2> QED
      BY <2>5, <2>6, <2>7
  <1> QED
    BY <1>4, <1>6, <1>8, <1>9 DEF BufferPassed

(* A transfer begins with all indices at the start. *)
LEMMA StartIndices ==
    ASSUME NEW b \in FifoStruct, b.numStages \in {2, 3}, NEW l,
           NEW s \in 0 .. b.numStages - 1
    PROVE  Passed(bufferFIFO_start(b, l), s) = 0
  <1> DEFINE p == bufferFIFO_start(b, l)
             n == b.numStages
  <1>1. s \in StageIdx /\ s < n
    BY StageIdxIs
  <1>2. p.numStages = n /\ p.stageReadIndex[s] = FirstReadIndex(n, s)
    BY <1>1 DEF bufferFIFO_start, bufferFIFO_execStage, FifoStruct
  <1>3. FirstReadIndex(n, s) \in Nat
    BY DEF FirstReadIndex
  <1> QED
    BY <1>2, <1>3 DEF Passed

------------------------------------------------------------------------------
(* The steps of a transfer.                                                     *)

LEMMA InitIInv == Init => IInv
  <1> SUFFICES ASSUME Init PROVE IInv OBVIOUS
  <1>1. /\ bf.numStages = 2 /\ bf.stall_index = 0 /\ bf.exec = {}
        /\ bf.processing = FALSE
        /\ bf.bufferSize = [i \in Buffers |-> 0]
        /\ bf.stageReadIndex = [s \in StageIdx |-> 0]
        /\ bf.stageWriteIndex = [s \in StageIdx |-> 0]
        /\ bf.stalled = [s \in StageIdx |-> FALSE]
        /\ bf.stageProcessing = [s \in StageIdx |-> FALSE]
    BY DEF Init, ZeroedFifo
  <1>2. TypeOK
    BY <1>1 DEF Init, TypeOK, ZeroedFifo, FifoStruct, MaxStages, NoChunk, StageIdx
  <1>3. RingInv(bf, total, left, len, finishing)
    <2>1. bf = ZeroedFifo /\ total \in Nat /\ finishing = {}
          /\ left \in [StageIdx -> Nat] /\ len \in [StageIdx -> Nat]
          /\ \A s \in StageIdx : left[s] = 0
      BY DEF Init
    <2> QED BY <2>1, RingZeroed
  <1>4. Stages = {0, 1} /\ \A s \in Stages : Passed(bf, s) = 0
    BY <1>1 DEF Stages, StagesOf, Passed, FirstReadIndex, StageIdx, MaxStages
  <1>5. ChunksInPlace
    BY <1>4 DEF ChunksInPlace, Between
  <1> QED BY <1>2, <1>3, <1>5 DEF IInv

(* What a stage in flight moves is some of what it has left, and fits a buffer.  *)
LEMMA RingFlight ==
    ASSUME NEW b, NEW tot \in Nat, NEW lft, NEW ln, NEW fin,
           RingInv(b, tot, lft, ln, fin),
           NEW s \in StageIdx, b.stageProcessing[s]
    PROVE  /\ s \in StagesOf(b) /\ b.processing
           /\ ln[s] \in Nat /\ 0 < ln[s] /\ ln[s] <= MaxBufferSize
           /\ s \notin fin => lft[s] \in Nat /\ ln[s] <= lft[s]
  <1>1. RingType(b, lft, ln, fin) /\ IndicesInStep(b)
        /\ Accounts(b, tot, lft, ln, fin) /\ Quiet(b, lft, fin)
    BY DEF RingInv
  <1>2. s \in StagesOf(b) /\ b.processing
    BY <1>1 DEF Quiet
  <1>3. Passed(b, s) \in Nat
    BY <1>1, <1>2, StageIdxFacts DEF IndicesInStep
  <1>4. /\ ln[s] = ChunkSize(tot, Passed(b, s)) /\ Rest(tot, Passed(b, s)) > 0
        /\ s \notin fin => lft[s] = Rest(tot, Passed(b, s))
    <2>1. InFlight(b, fin, s)
      BY <1>2 DEF InFlight
    <2>2. s \notin fin => Accounted(b, fin, s) = Passed(b, s)
      BY <1>3 DEF Accounted
    <2> QED
      BY <1>1, <1>2, <2>1, <2>2 DEF Accounts
  <1>5. Rest(tot, Passed(b, s)) \in Nat
    BY <1>3, BufferFifoAssumption DEF Rest
  <1> QED
    BY <1>2, <1>4, <1>5, BufferFifoAssumption DEF ChunkSize, Smaller

(* The invariant does not depend on which stages the last operation called.     *)
LEMMA RingExec ==
    ASSUME NEW b, NEW tot, NEW lft, NEW ln, NEW fin, RingInv(b, tot, lft, ln, fin),
           NEW c, c = [b EXCEPT !.exec = {}]
    PROVE  RingInv(c, tot, lft, ln, fin)
  <1>1. RingType(b, lft, ln, fin) /\ b \in FifoStruct
    BY DEF RingInv, RingType
  <1>2. /\ c \in FifoStruct /\ c.numStages = b.numStages /\ c.bufferSize = b.bufferSize
        /\ c.stageReadIndex = b.stageReadIndex /\ c.stageWriteIndex = b.stageWriteIndex
        /\ c.stalled = b.stalled /\ c.stageProcessing = b.stageProcessing
        /\ c.processing = b.processing /\ c.stall_index = b.stall_index
    BY <1>1 DEF FifoStruct
  <1>3. /\ StagesOf(c) = StagesOf(b) /\ \A s : Passed(c, s) = Passed(b, s)
        /\ \A s : InFlight(c, fin, s) <=> InFlight(b, fin, s)
    BY <1>2 DEF StagesOf, Passed, InFlight
  <1>4. /\ \A s : Accounted(c, fin, s) = Accounted(b, fin, s)
        /\ \A s : Between(c, s) = Between(b, s)
        /\ \A s, k : BufferOf(c, s, k) = BufferOf(b, s, k)
    BY <1>2, <1>3 DEF Accounted, Between, BufferOf
  <1>5. RingType(c, lft, ln, fin)
    BY <1>1, <1>2 DEF RingType
  <1>6. IndicesInStep(c) /\ InOrder(c)
    BY <1>2, <1>3 DEF RingInv, IndicesInStep, InOrder
  <1>7. InputReady(c, fin)
    BY <1>2, <1>3 DEF RingInv, InputReady
  <1>8. SizesInPlace(c, tot)
    BY <1>2, <1>3, <1>4 DEF RingInv, SizesInPlace
  <1>9. Accounts(c, tot, lft, ln, fin)
    BY <1>2, <1>3, <1>4 DEF RingInv, Accounts
  <1>10. Quiet(c, lft, fin)
    BY <1>2, <1>3 DEF RingInv, Quiet
  <1>11. DrainedUpTo(c)
    BY <1>2 DEF RingInv, DrainedUpTo, Drained
  <1>12. Woken(c, fin)
    BY <1>2, <1>3 DEF RingInv, Woken, bufferFIFO_stageStalled
  <1> QED
    BY <1>5, <1>6, <1>7, <1>8, <1>9, <1>10, <1>11, <1>12 DEF RingInv

(* Passing a buffer on launches only stages that were not in flight, and when   *)
(* the transfer ends with it none.                                              *)
Called(b, b2, s, lft, fin) ==
    /\ b2 \in FifoStruct /\ b2.numStages = b.numStages /\ b.processing
    /\ \A t \in b2.exec :
          /\ t \in StagesOf(b) /\ t \notin fin \ {s}
          /\ t # s => ~b.stageProcessing[t]
          /\ b2.stageProcessing[t]
          /\ t # 0 => 0 < b2.bufferSize[ReadBuffer(b2, t)]
    /\ \A t \in StageIdx : b.stageProcessing[t] /\ t # s => b2.stageProcessing[t]
    /\ ~b2.processing =>
          /\ b2.exec = {} /\ fin = {s}
          /\ \A t \in StageIdx : ~b2.stageProcessing[t]
          /\ \A t \in StagesOf(b) : lft[t] = 0

LEMMA RingLaunches ==
    ASSUME NEW b, NEW tot \in Nat, NEW lft, NEW ln, NEW fin,
           RingInv(b, tot, lft, ln, fin),
           NEW s \in fin,
           NEW b2, b2 = bufferFIFO_processingComplete(b, s, ln[s])
    PROVE  Called(b, b2, s, lft, fin)
  <1> DEFINE ln2 == LaunchLen(b2, lft, ln)
  <1>1. RingInv(b2, tot, lft, ln2, fin \ {s})
    BY RingPassOn
  <1>2. /\ RingType(b, lft, ln, fin) /\ Quiet(b, lft, fin)
        /\ Accounts(b, tot, lft, ln, fin)
    BY DEF RingInv
  <1>3. /\ b \in FifoStruct /\ b.stall_index <= b.numStages /\ fin \subseteq StageIdx
        /\ ln \in [StageIdx -> Nat] /\ s \in StagesOf(b) /\ s \in StageIdx
        /\ b.processing
    BY <1>2 DEF RingType, Quiet
  <1>4. HandedOver(b, b2, s, ln[s])
    BY <1>3, CompleteFields DEF StagesOf
  <1>5. b2.numStages = b.numStages /\ b2 \in FifoStruct /\ StagesOf(b2) = StagesOf(b)
    BY <1>4 DEF HandedOver, StagesOf
  <1>6. b2.exec \subseteq StagesOf(b)
    <2>1. b.numStages \in {2, 3, 4}
      BY <1>2, StageIdxFacts
    <2>2. (s + 1) % b.numStages \in StagesOf(b)
      BY <1>3, <2>1 DEF StagesOf
    <2> QED
      BY <1>3, <1>4, <2>2 DEF HandedOver
  <1>7. StagesOf(b) \subseteq StageIdx
    BY <1>2, StageIdxFacts
  <1>8. ASSUME NEW t \in b2.exec
        PROVE  /\ t \in StagesOf(b) /\ t \notin fin \ {s}
               /\ t # s => ~b.stageProcessing[t]
               /\ b2.stageProcessing[t]
               /\ t # 0 => 0 < b2.bufferSize[ReadBuffer(b2, t)]
    <2>1. /\ ~b.stalled[t] /\ (t # s => ~b.stageProcessing[t]) /\ b2.stageProcessing[t]
          /\ t \in StagesOf(b) /\ t \in StageIdx
      BY <1>4, <1>6, <1>7, <1>8 DEF HandedOver
    <2>2. t \notin fin \ {s}
      BY <1>2, <1>3, <2>1 DEF Accounts
    <2>3. 0 < ln2[t]
      <3> HIDE DEF ln2
      <3> QED
        BY <1>1, <2>1, RingFlight
    <2>4. t # 0 => ln2[t] = b2.bufferSize[ReadBuffer(b2, t)]
      BY <1>8, <2>1 DEF LaunchLen
    <2> QED
      BY <2>1, <2>2, <2>3, <2>4
  <1>9. ASSUME ~b2.processing
        PROVE  /\ b2.exec = {} /\ fin = {s}
               /\ \A t \in StageIdx : ~b2.stageProcessing[t]
               /\ \A t \in StagesOf(b) : lft[t] = 0
    <2>1. Quiet(b2, lft, fin \ {s})
      BY <1>1 DEF RingInv
    <2>2. /\ \A t \in StageIdx : ~b2.stageProcessing[t] /\ t \notin fin \ {s}
          /\ \A t \in StagesOf(b) : lft[t] = 0
      BY <1>5, <1>9, <2>1 DEF Quiet
    <2>3. b2.exec = {}
      BY <1>7, <1>8, <2>2
    <2>4. fin = {s}
      BY <1>3, <2>2
    <2> QED
      BY <2>2, <2>3, <2>4
  <1>10. \A t \in StageIdx : b.stageProcessing[t] /\ t # s => b2.stageProcessing[t]
    BY <1>4 DEF HandedOver
  <1> QED
    BY <1>3, <1>5, <1>8, <1>9, <1>10 DEF Called

LEMMA StartStep ==
    ASSUME IInv, NEW n \in StageCounts, NEW size \in 1 .. MaxTransfer,
           Start(n, size)
    PROVE  IInv'
  <1> DEFINE l == Smaller(size, MaxBufferSize)
  <1>1. /\ n \in 2 .. MaxStages
        /\ size \in Nat \ {0} /\ l \in Nat
    BY BufferFifoAssumption DEF Smaller
  <1>2. /\ bf \in FifoStruct
        /\ finishing = {}
        /\ \A s \in StageIdx : ~bf.stageProcessing[s]
        /\ left \in [StageIdx -> Nat] /\ len \in [StageIdx -> Nat]
    BY DEF IInv, TypeOK, RingInv, Quiet, Start, StagesOf
  <1>3. bf' = bufferFIFO_start([bf EXCEPT !.numStages = n], l)
    BY DEF Start
  <1> HIDE DEF l
  <1>4. Started(bf', n) BY <1>1, <1>2, <1>3, StartStarts
  <1>5. /\ finishing' = {} /\ total' = size
        /\ left' = [s \in StageIdx |-> IF s < n THEN size ELSE left[s]]
        /\ len' = LaunchLen(bf', left', len)
        /\ content' = [i \in Buffers |-> NoChunk]
    BY <1>2 DEF Start
  <1>6. left' \in [StageIdx -> Nat] /\ \A s \in 0 .. n - 1 : left'[s] = size
    BY <1>1, <1>2, <1>5, StageIdxIs DEF MaxStages
  <1>7. len' \in [StageIdx -> Nat] /\ len'[0] = Smaller(size, MaxBufferSize)
    <2>1. bf'.exec = {0} BY <1>4 DEF Started
    <2>2. left'[0] = size BY <1>1, <1>6 DEF MaxStages
    <2>3. \A s \in StageIdx : len'[s] = IF s = 0 THEN l ELSE len[s]
      BY <1>5, <2>1, <2>2 DEF LaunchLen, l
    <2>4. len' = [s \in StageIdx |-> len'[s]] BY <1>5 DEF LaunchLen
    <2>5. \A s \in StageIdx : len'[s] \in Nat BY <1>1, <1>2, <2>3
    <2> QED BY <2>3, <2>4, <2>5, StageIdxIs DEF l
  <1>8. RingInv(bf', total', left', len', finishing')
    BY <1>1, <1>4, <1>5, <1>6, <1>7, RingStart
  <1>9. TypeOK'
    <2>1. content' \in [Buffers -> [chunk : Int, by : Int]] BY <1>5 DEF NoChunk
    <2>2. RingType(bf', left', len', finishing') BY <1>8 DEF RingInv
    <2> QED BY <1>1, <1>5, <2>1, <2>2 DEF TypeOK, RingType
  <1>10. ChunksInPlace'
    <2>1. \A s \in Stages' : Passed(bf', s) = 0
      <3>1. /\ bf'.numStages = n /\ n \in {2, 3, 4}
            /\ \A s \in 0 .. n - 1 : bf'.stageReadIndex[s] = FirstReadIndex(n, s)
        BY <1>1, <1>4, StageIdxIs DEF Started, MaxStages
      <3> QED BY <3>1 DEF Stages, StagesOf, Passed, FirstReadIndex
    <2>2. \A s \in Stages' \ {0} : s - 1 \in Stages'
      <3>1. n \in Int /\ Stages' = 0 .. n - 1 BY <1>1, <1>4 DEF Started, Stages, StagesOf
      <3> QED BY <3>1
    <2> QED BY <2>1, <2>2 DEF ChunksInPlace, Between
  <1> QED BY <1>8, <1>9, <1>10 DEF IInv

LEMMA AccountStep ==
    ASSUME IInv, NEW s \in StageIdx, Account(s)
    PROVE  IInv'
  <1>1. /\ RingInv(bf, total, left, len, finishing) /\ TypeOK /\ ChunksInPlace
        /\ total \in Nat /\ left \in [StageIdx -> Nat] /\ len \in [StageIdx -> Nat]
    BY DEF IInv, TypeOK
  <1>2. /\ bf.stageProcessing[s] /\ s \notin finishing
        /\ left' = [left EXCEPT ![s] = @ - Smaller(@, len[s])]
        /\ bf' = IF left'[s] = 0 THEN bufferFIFO_stallStage(bf, s) ELSE bf
        /\ finishing' = finishing \cup {s}
        /\ total' = total /\ len' = len /\ content' = content
    BY DEF Account
  <1>3. /\ left'[s] = left[s] - Smaller(left[s], len[s])
        /\ \A u \in StageIdx : u # s => left'[u] = left[u]
        /\ left' \in [StageIdx -> Nat]
    <2>1. left[s] - Smaller(left[s], len[s]) \in Nat
      <3>1. left[s] \in Nat /\ len[s] \in Nat BY <1>1
      <3> QED BY <3>1 DEF Smaller
    <2> QED BY <1>1, <1>2, <2>1
  <1>4. RingInv(bf', total', left', len', finishing')
    BY <1>1, <1>2, <1>3, RingAccount
  <1>5. TypeOK'
    <2>1. RingType(bf', left', len', finishing') BY <1>4 DEF RingInv
    <2> QED BY <1>1, <1>2, <2>1 DEF TypeOK, RingType
  <1>6. /\ bf'.numStages = bf.numStages
        /\ bf'.stageReadIndex = bf.stageReadIndex
    <2>1. bf \in FifoStruct BY <1>1 DEF TypeOK
    <2> QED BY <1>2, <2>1, StallFields
  <1>7. ChunksInPlace'
    <2>1. /\ Stages' = Stages /\ content' = content
          /\ \A t : Between(bf', t) = Between(bf, t)
          /\ \A t, k : BufferOf(bf', t, k) = BufferOf(bf, t, k)
      BY <1>2, <1>6 DEF Stages, StagesOf, Between, Passed, BufferOf
    <2>2. \A t \in Stages \ {0} : \A k \in Between(bf, t) :
            content[BufferOf(bf, t, k)] = [chunk |-> k, by |-> t - 1]
      BY <1>1 DEF ChunksInPlace
    <2>3. \A t \in Stages' \ {0} : \A k \in Between(bf', t) :
            content'[BufferOf(bf', t, k)] = [chunk |-> k, by |-> t - 1]
      <3> SUFFICES ASSUME NEW t \in Stages' \ {0}, NEW k \in Between(bf', t)
                   PROVE  content'[BufferOf(bf', t, k)] = [chunk |-> k, by |-> t - 1]
        OBVIOUS
      <3>1. t \in Stages \ {0} /\ k \in Between(bf, t) BY <2>1
      <3>2. content[BufferOf(bf, t, k)] = [chunk |-> k, by |-> t - 1] BY <2>2, <3>1
      <3>3. content'[BufferOf(bf', t, k)] = content[BufferOf(bf, t, k)] BY <2>1
      <3> QED BY <3>2, <3>3
    <2> QED BY <2>3 DEF ChunksInPlace
  <1> QED BY <1>4, <1>5, <1>7 DEF IInv

LEMMA PassOnStep ==
    ASSUME IInv, NEW s \in StageIdx, PassOn(s)
    PROVE  IInv'
  <1> DEFINE n == bf.numStages
             i0 == WriteBuffer(bf, s)
  <1>1. /\ RingInv(bf, total, left, len, finishing) /\ TypeOK /\ ChunksInPlace
        /\ RingType(bf, left, len, finishing) /\ IndicesInStep(bf) /\ InOrder(bf)
        /\ InputReady(bf, finishing) /\ Quiet(bf, left, finishing)
        /\ total \in Nat
    BY DEF IInv, RingInv, TypeOK
  <1>2. /\ s \in finishing
        /\ bf' = bufferFIFO_processingComplete(bf, s, len[s])
        /\ len' = LaunchLen(bf', left, len)
        /\ finishing' = finishing \ {s}
        /\ content' = [content EXCEPT ![i0] = [chunk |-> Passed(bf, s), by |-> s]]
        /\ total' = total /\ left' = left
    BY DEF PassOn
  <1>3. RingInv(bf', total', left', len', finishing')
    BY <1>1, <1>2, RingPassOn
  <1>4. /\ n \in {2, 3, 4} /\ Stages = 0 .. n - 1 /\ Stages = StagesOf(bf)
        /\ s \in Stages /\ s \in Int /\ InFlight(bf, finishing, s)
        /\ bf \in FifoStruct /\ len[s] \in Nat
    <2>1. s \in StagesOf(bf) BY <1>1, <1>2 DEF Quiet
    <2>2. bf \in FifoStruct /\ len[s] \in Nat BY <1>1 DEF TypeOK
    <2> QED BY <1>1, <1>2, <2>1, <2>2, StageIdxFacts, StageIdxIs
        DEF InFlight, Stages, StagesOf
  <1>5. /\ bf'.numStages = n
        /\ bf'.stageReadIndex = [bf.stageReadIndex EXCEPT ![s] = @ + 1]
        /\ i0 \in Buffers
    <2>1. HandedOver(bf, bf', s, len[s])
      <3>1. bf.stall_index <= bf.numStages /\ s \in 0 .. bf.numStages - 1
        BY <1>1, <1>4 DEF TypeOK
      <3> QED BY <1>2, <1>4, <3>1, CompleteFields
    <2>2. i0 \in Buffers
      <3>1. bf.stageWriteIndex[s] \in Nat BY <1>4 DEF FifoStruct
      <3> QED BY <3>1, Division DEF WriteBuffer
    <2> QED BY <2>1, <2>2 DEF HandedOver
  <1>6. /\ \A t \in Stages : Passed(bf, t) \in Nat
        /\ Passed(bf', s) = Passed(bf, s) + 1
        /\ \A t \in Stages : t # s => Passed(bf', t) = Passed(bf, t)
    <2>1. bf.stageReadIndex \in [StageIdx -> Nat] BY <1>4 DEF FifoStruct
    <2>2. Passed(bf, s) \in Int /\ \A t \in Stages : Passed(bf, t) \in Nat
      BY <1>1, <1>4, StageIdxFacts DEF IndicesInStep
    <2>3. FirstReadIndex(n, s) \in Int BY <1>4 DEF FirstReadIndex
    <2>4. Passed(bf', s) = Passed(bf, s) + 1
      BY <1>5, <2>1, <2>3 DEF Passed
    <2>5. \A t \in StageIdx : t # s => Passed(bf', t) = Passed(bf, t)
      BY <1>5, <2>1 DEF Passed
    <2>6. Stages \subseteq StageIdx BY <1>1, <1>4, StageIdxFacts
    <2> QED BY <2>2, <2>4, <2>5, <2>6
  <1>7. ChunksInPlace'
    <2>1. /\ Stages' = Stages
          /\ \A t \in Stages, k \in Nat : BufferOf(bf', t, k) = BufferOf(bf, t, k)
      BY <1>5 DEF Stages, StagesOf, BufferOf
    <2> SUFFICES ASSUME NEW t \in Stages \ {0},
                        NEW k \in Passed(bf', t) .. Passed(bf', t - 1) - 1
                 PROVE  content'[BufferOf(bf, t, k)] = [chunk |-> k, by |-> t - 1]
      <3>1. \A t \in Stages : Passed(bf', t) \in Nat
        <4>1. ASSUME NEW t \in Stages PROVE Passed(bf', t) \in Nat
          <5>1. CASE t = s BY <1>4, <1>6, <5>1
          <5>2. CASE t # s BY <1>6, <5>2
          <5> QED BY <5>1, <5>2
        <4> QED BY <4>1
      <3>2. \A t \in Stages \ {0} : t - 1 \in Stages BY <1>4
      <3>3. \A t \in Stages \ {0} : Passed(bf', t) .. Passed(bf', t - 1) - 1 \subseteq Nat
        BY <3>1, <3>2
      <3> QED BY <2>1, <3>3 DEF ChunksInPlace, Between
    <2>2. /\ t - 1 \in Stages /\ t \in Stages /\ t # t - 1 /\ t \in 1 .. n - 1
          /\ Passed(bf, t) \in Nat /\ Passed(bf, t - 1) \in Nat /\ Passed(bf, s) \in Nat
          /\ t # s => Passed(bf', t) = Passed(bf, t)
          /\ t - 1 # s => Passed(bf', t - 1) = Passed(bf, t - 1)
      <3>1. t - 1 \in Stages /\ t \in Stages /\ t # t - 1 /\ t \in 1 .. n - 1 BY <1>4
      <3> QED BY <1>4, <1>6, <3>1
    <2>3. k \in Nat /\ Passed(bf, t) <= k /\ (t = s => k # Passed(bf, s))
      <3>1. CASE t = s BY <1>6, <2>2, <3>1
      <3>2. CASE t # s BY <1>6, <2>2, <3>2
      <3> QED BY <3>1, <3>2
    <2>4. CASE t - 1 = s /\ k = Passed(bf, s)
      <3>1. BufferOf(bf, t, k) = i0
        <4>1. bf.stageWriteIndex[s] = FirstWriteIndex(n, s) + Passed(bf, s)
          BY <1>1, <1>4 DEF IndicesInStep
        <4>2. FirstReadIndex(n, t) = FirstWriteIndex(n, t - 1)
          BY <1>4, <2>2 DEF FirstReadIndex, FirstWriteIndex
        <4> QED BY <2>4, <4>1, <4>2 DEF BufferOf, WriteBuffer
      <3> QED BY <1>1, <1>2, <1>5, <2>4, <3>1 DEF TypeOK
    <2>5. CASE ~(t - 1 = s /\ k = Passed(bf, s))
      <3>1. k < Passed(bf, t - 1)
        <4>1. CASE t - 1 = s
          <5>1. Passed(bf', t - 1) = Passed(bf, s) + 1 BY <1>6, <4>1
          <5>2. k # Passed(bf, s) BY <2>5, <4>1
          <5>3. Passed(bf, t - 1) = Passed(bf, s) BY <4>1
          <5> QED BY <2>2, <2>3, <5>1, <5>2, <5>3
        <4>2. CASE t - 1 # s BY <2>2, <2>3, <4>2
        <4> QED BY <4>1, <4>2
      <3>2. k \in Between(bf, t) BY <2>2, <2>3, <3>1 DEF Between
      <3>3. content[BufferOf(bf, t, k)] = [chunk |-> k, by |-> t - 1]
        BY <1>1, <3>2 DEF ChunksInPlace
      <3>4. BufferOf(bf, t, k) # i0
        BY <1>1, <1>4, <2>2, <2>3, <3>2, WritesFreeBuffer
      <3>5. BufferOf(bf, t, k) \in Buffers
        <4>1. FirstReadIndex(n, t) \in Nat BY <1>4, <2>2 DEF FirstReadIndex
        <4> QED BY <2>3, <4>1, Division DEF BufferOf
      <3> QED BY <1>1, <1>2, <1>5, <3>3, <3>4, <3>5 DEF TypeOK
    <2> QED BY <2>4, <2>5
  <1>8. TypeOK'
    <2>1. [chunk |-> Passed(bf, s), by |-> s] \in [chunk : Int, by : Int]
      BY <1>4, <1>6
    <2>2. content' \in [Buffers -> [chunk : Int, by : Int]]
      BY <1>1, <1>2, <1>5, <2>1 DEF TypeOK
    <2>3. RingType(bf', left', len', finishing') BY <1>3 DEF RingInv
    <2> QED BY <1>1, <1>2, <2>2, <2>3 DEF TypeOK, RingType
  <1> QED BY <1>3, <1>7, <1>8 DEF IInv

(* No step leaves the inductive invariant.                                      *)
LEMMA IInvStep == IInv /\ [Next]_vars => IInv'
  <1> SUFFICES ASSUME IInv, [Next]_vars PROVE IInv' OBVIOUS
  <1>1. ASSUME NEW n \in StageCounts, NEW size \in 1 .. MaxTransfer, Start(n, size)
        PROVE  IInv'
    BY <1>1, StartStep
  <1>2. ASSUME NEW s \in StageIdx, Account(s) PROVE IInv'
    BY <1>2, AccountStep
  <1>3. ASSUME NEW s \in StageIdx, PassOn(s) PROVE IInv'
    BY <1>3, PassOnStep
  <1>4. CASE UNCHANGED vars
    <2>1. /\ bf' = bf /\ total' = total /\ left' = left /\ len' = len
          /\ finishing' = finishing /\ content' = content
      BY <1>4 DEF vars
    <2>2. TypeOK' /\ ChunksInPlace'
      BY <2>1 DEF IInv, TypeOK, ChunksInPlace, Stages
    <2>3. RingInv(bf', total', left', len', finishing')
      BY <2>1 DEF IInv
    <2> QED BY <2>2, <2>3 DEF IInv
  <1> QED BY <1>1, <1>2, <1>3, <1>4 DEF Next

THEOREM Inductive == Spec => []IInv
  <1>1. Init => IInv BY InitIInv
  <1>2. IInv /\ [Next]_vars => IInv' BY IInvStep
  <1> QED BY <1>1, <1>2, PTL DEF Spec

(* The declared types hold throughout, whatever the number of buffers, the     *)
(* length of a buffer and the length of the transfers.                          *)
THEOREM TypeCorrect == Spec => []TypeOK
  <1>1. IInv => TypeOK BY DEF IInv
  <1> QED BY <1>1, Inductive, PTL

(* No two stages in flight are ever handed conflicting buffers.                 *)
LEMMA IInvNoConflict == IInv => NoConflict
BY RingNoConflict DEF IInv, RingInv, NoConflict, Using

THEOREM BuffersNotShared == Spec => []NoConflict
BY IInvNoConflict, Inductive, PTL

(* Every stage reads the chunks of the transfer in order.                       *)
LEMMA IInvReadsNextChunk == IInv => ReadsNextChunk
  <1> SUFFICES ASSUME IInv, NEW s \in StageIdx \ {0}, Using(s)
               PROVE  content[ReadBuffer(bf, s)] =
                        [chunk |-> Passed(bf, s), by |-> s - 1]
    BY DEF ReadsNextChunk
  <1> DEFINE n == bf.numStages
             k == Passed(bf, s)
  <1>1. /\ RingType(bf, left, len, finishing) /\ IndicesInStep(bf)
        /\ InputReady(bf, finishing) /\ InFlight(bf, finishing, s)
        /\ s \in StagesOf(bf) \ {0}
    BY DEF IInv, RingInv, Using, InFlight
  <1>2. /\ n \in {2, 3, 4} /\ s \in {0, 1, 2, 3} /\ s <= n - 1
        /\ s - 1 \in StagesOf(bf) /\ bf.stageReadIndex[s] \in Nat
    BY <1>1, StageIdxFacts, StageIdxIs DEF StagesOf
  <1>3. k \in Nat /\ Passed(bf, s - 1) \in Int /\ k < Passed(bf, s - 1)
    <2>1. \A t \in StagesOf(bf) : Passed(bf, t) \in Int BY <1>1, StageIdxFacts
    <2> QED BY <1>1, <1>2, <2>1 DEF InputReady, IndicesInStep
  <1>4. content[BufferOf(bf, s, k)] = [chunk |-> k, by |-> s - 1]
    BY <1>1, <1>3 DEF IInv, ChunksInPlace, Between, Stages
  <1>5. FirstReadIndex(n, s) \in Nat BY <1>2, FirstIndices
  <1>6. bf.stageReadIndex[s] = FirstReadIndex(n, s) + k
    BY <1>2, <1>5 DEF Passed
  <1> QED BY <1>4, <1>6 DEF BufferOf, ReadBuffer

(* A stage reads, from launch to hand-over, the next chunk in order as its      *)
(* predecessor left it.                                                         *)
THEOREM ChunksInOrder == Spec => []ReadsNextChunk
BY IInvReadsNextChunk, Inductive, PTL

(* When the transfer is reported complete, every stage has moved its data.      *)
THEOREM CompleteOnlyWhenMoved == Spec => []CompleteMeansMoved
  <1>1. IInv => CompleteMeansMoved
    BY DEF IInv, RingInv, Quiet, CompleteMeansMoved, Using, InFlight, Stages
  <1> QED BY <1>1, Inductive, PTL

(* No stage sleeps while its next buffer is ready.                              *)
THEOREM StagesAreWoken == Spec => []NoLostWakeup
  <1>1. IInv => NoLostWakeup
    BY DEF IInv, RingInv, Woken, NoLostWakeup, Using, Stages
  <1> QED BY <1>1, Inductive, PTL
===============================================================================
