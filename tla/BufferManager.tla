---------------------------- MODULE BufferManager ----------------------------
(* firmware-hc/buffer_manager.c: the ring of bulk buffers that the stages of a *)
(* mass storage transfer pass to one another. Every operator takes a           *)
(* struct bufferFIFO `b' and returns the struct the C function leaves behind;  *)
(* each C function runs with interrupts disabled, hence as one step.           *)
EXTENDS Integers

CONSTANT BufferCount        \* bf->bufferCount

ASSUME BufferCountAssumption == BufferCount \in Nat \ {0}

MaxStages == 4              \* BUFFER_FIFO_MAX_STAGES
StageIdx == 0 .. MaxStages - 1
Buffers  == 0 .. BufferCount - 1

(* struct bufferFIFO. Field `exec' is not in the struct: it holds the stages    *)
(* whose processStage callback the last operation called.                       *)
FifoStruct ==
    [numStages       : 2 .. MaxStages,
     bufferSize      : [Buffers -> Nat],
     stageReadIndex  : [StageIdx -> Nat],
     stageWriteIndex : [StageIdx -> Nat],
     stalled         : [StageIdx -> BOOLEAN],
     stageProcessing : [StageIdx -> BOOLEAN],
     processing      : BOOLEAN,
     stall_index     : 0 .. MaxStages,
     exec            : SUBSET StageIdx]

ReadBuffer(b, s)  == b.stageReadIndex[s] % BufferCount
WriteBuffer(b, s) == b.stageWriteIndex[s] % BufferCount

(* The struct before the first transfer, as the C runtime zeroes it; numStages  *)
(* is set by every transfer.                                                    *)
ZeroedFifo ==
    [numStages       |-> 2,
     bufferSize      |-> [i \in Buffers |-> 0],
     stageReadIndex  |-> [s \in StageIdx |-> 0],
     stageWriteIndex |-> [s \in StageIdx |-> 0],
     stalled         |-> [s \in StageIdx |-> FALSE],
     stageProcessing |-> [s \in StageIdx |-> FALSE],
     processing      |-> FALSE,
     stall_index     |-> 0,
     exec            |-> {}]

bufferFIFO_execStage(b, s) ==
    [b EXCEPT !.stageProcessing[s] = TRUE, !.exec = @ \cup {s}]

(* Mutant: the ring is taken to have one buffer more than it has. *)
MutantStalledOffByOne(b, s) ==
    \/ b.stageProcessing[s]
    \/ b.stalled[s]
    \/ s # 0 /\ b.stageReadIndex[s] = b.stageWriteIndex[s - 1]
    \/ s = 0 /\ b.stageWriteIndex[0] =
                    b.stageReadIndex[b.numStages - 1] + BufferCount + 1

(* Mutant: a stage does not wait for the one before it. *)
MutantStalledNoInput(b, s) ==
    \/ b.stageProcessing[s]
    \/ b.stalled[s]
    \/ s = 0 /\ b.stageWriteIndex[0] =
                    b.stageReadIndex[b.numStages - 1] + BufferCount

bufferFIFO_stageStalled(b, s) ==
    \/ b.stageProcessing[s]
    \/ b.stalled[s]
    \/ s # 0 /\ b.stageReadIndex[s] = b.stageWriteIndex[s - 1]
    \/ s = 0 /\ b.stageWriteIndex[0] =
                    b.stageReadIndex[b.numStages - 1] + BufferCount

bufferFIFO_stallStage(b, s) ==
    [b EXCEPT !.stageProcessing[s] = FALSE, !.stalled[s] = TRUE]

ExecUnlessStalled(b, s) ==
    IF bufferFIFO_stageStalled(b, s) THEN b ELSE bufferFIFO_execStage(b, s)

(* A stage that has seen the last of its data. *)
Drained(b, s) == b.stalled[s] /\ ~b.stageProcessing[s]

(* Where the loop over _stall_index stops: the first stage from the current     *)
(* index on that is not drained, or numStages.                                  *)
NextStallIndex(b) ==
    CHOOSE k \in b.stall_index .. b.numStages :
        /\ \A s \in b.stall_index .. k - 1 : Drained(b, s)
        /\ k < b.numStages => ~Drained(b, k)

(* Mutant: the transfer is reported complete once the first stage has drained. *)
MutantDetectFirst(b) ==
    IF b.processing
      THEN [b EXCEPT !.stall_index = NextStallIndex(b),
                     !.processing = NextStallIndex(b) = 0]
      ELSE b

(* Mutant: the end of the loop is compared with the wrong bound. *)
MutantDetectNever(b) ==
    IF b.processing
      THEN [b EXCEPT !.stall_index = NextStallIndex(b),
                     !.processing = NextStallIndex(b) <= b.numStages]
      ELSE b

(* The tail of processingComplete: notice that every stage has drained. The     *)
(* processingComplete callback runs when `processing' falls.                    *)
DetectCompletion(b) ==
    IF b.processing
      THEN [b EXCEPT !.stall_index = NextStallIndex(b),
                     !.processing = NextStallIndex(b) # b.numStages]
      ELSE b

(* Stage s hands over the buffer it wrote (writeLen is never negative here).    *)
Advance(b, s, writeLen) ==
    [b EXCEPT !.bufferSize[WriteBuffer(b, s)] = writeLen,
              !.stageProcessing[s] = FALSE,
              !.stageWriteIndex[s] = @ + 1,
              !.stageReadIndex[s] = @ + 1,
              !.exec = {}]

bufferFIFO_processingComplete(b, s, writeLen) ==
    DetectCompletion(
        ExecUnlessStalled(
            ExecUnlessStalled(Advance(b, s, writeLen), s),
            (s + 1) % b.numStages))

(* The indices a transfer of n stages starts from: each stage reads the buffer  *)
(* its predecessor writes; a middle stage writes the buffer before the one it   *)
(* reads.                                                                       *)
FirstReadIndex(n, s)  == IF s = 0 THEN n - 2 ELSE n - 1 - s
FirstWriteIndex(n, s) == IF s = n - 1 THEN 0 ELSE n - 2 - s

bufferFIFO_start(b, firstBufferSize) ==
    LET n == b.numStages
    IN bufferFIFO_execStage(
         [b EXCEPT
            !.processing      = TRUE,
            !.stall_index     = 0,
            !.bufferSize      = [i \in Buffers |->
                                   IF i = FirstWriteIndex(n, 0)
                                     THEN firstBufferSize ELSE 0],
            !.stageProcessing = [s \in StageIdx |-> IF s < n THEN FALSE ELSE @[s]],
            !.stalled         = [s \in StageIdx |-> IF s < n THEN FALSE ELSE @[s]],
            !.stageReadIndex  = [s \in StageIdx |->
                                   IF s < n THEN FirstReadIndex(n, s) ELSE @[s]],
            !.stageWriteIndex = [s \in StageIdx |->
                                   IF s < n THEN FirstWriteIndex(n, s) ELSE @[s]],
            !.exec            = {}],
         0)
==============================================================================
