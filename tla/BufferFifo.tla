----------------------------- MODULE BufferFifo ------------------------------
(* A mass storage transfer through the buffer ring: usbd_msc_scsi.c starts a    *)
(* transfer (SCSI_Read10, SCSI_Write10), the hardware of each stage (eMMC, AES, *)
(* USB) moves one buffer at a time, and the completion handler of a stage first *)
(* accounts for what was moved, stalling the stage when nothing is left, and    *)
(* then calls bufferFIFO_processingComplete. The two calls are separate         *)
(* critical sections: handlers of other stages may run in between.              *)
EXTENDS BufferManager, FiniteSets

CONSTANTS MaxBufferSize,    \* bf->maxBufferSize, in sectors
          MaxTransfer,      \* bound: longest transfer, in sectors
          StageCounts       \* numStages of the transfers: 2 plain, 3 encrypted

ASSUME BufferFifoAssumption ==
    /\ MaxBufferSize \in Nat \ {0}
    /\ MaxTransfer \in Nat \ {0}
    /\ StageCounts \subseteq 2 .. MaxStages
    \* a middle stage writes one buffer behind the one it reads
    /\ \A n \in StageCounts : n - 2 < BufferCount

VARIABLES
    bf,        \* usbBulkBufferFIFO
    total,     \* cbw.dDataLength: the length of the transfer, in sectors
    left,      \* per stage, sectors still to move (mmcDataToTransfer,
               \* g_cryptDataToTransfer, scsi_blk_len)
    len,       \* per stage, length of the buffer in flight (mmcReadLen,
               \* g_cryptTxLen, writeLen)
    finishing, \* stages between their accounting and processingComplete
    content    \* history: which chunk each buffer holds, and the stage it left

vars == <<bf, total, left, len, finishing, content>>

NoChunk == [chunk |-> -1, by |-> -1]

Smaller(x, y) == IF x <= y THEN x ELSE y

StagesOf(b) == 0 .. b.numStages - 1
Stages == StagesOf(bf)

(* How many buffers stage s has passed on in this transfer. *)
Passed(b, s) == b.stageReadIndex[s] - FirstReadIndex(b.numStages, s)

(* The length each stage called by the last operation sets off with: the first  *)
(* stage takes as much as is left and fits, the others what the buffer holds.   *)
LaunchLen(b, lft, old) ==
    [s \in StageIdx |->
        IF s \notin b.exec THEN old[s]
        ELSE IF s = 0 THEN Smaller(lft[0], MaxBufferSize)
        ELSE b.bufferSize[ReadBuffer(b, s)]]

Init ==
    /\ bf = ZeroedFifo
    /\ total = 0
    /\ left = [s \in StageIdx |-> 0]
    /\ len = [s \in StageIdx |-> 0]
    /\ finishing = {}
    /\ content = [i \in Buffers |-> NoChunk]

(* SCSI_Read10 or SCSI_Write10 accepted with the BOT machine idle. *)
Start(n, size) ==
    /\ ~bf.processing
    /\ total' = size
    /\ left' = [s \in StageIdx |-> IF s < n THEN size ELSE left[s]]
    /\ bf' = bufferFIFO_start([bf EXCEPT !.numStages = n],
                              Smaller(size, MaxBufferSize))
    /\ len' = LaunchLen(bf', left', len)
    /\ content' = [i \in Buffers |-> NoChunk]
    /\ UNCHANGED finishing

(* The hardware of stage s is done: the handler accounts for the buffer and     *)
(* stalls the stage if that was the last one.                                   *)
Account(s) ==
    /\ bf.stageProcessing[s]
    /\ s \notin finishing
    /\ left' = [left EXCEPT ![s] = @ - Smaller(@, len[s])]
    /\ bf' = IF left'[s] = 0 THEN bufferFIFO_stallStage(bf, s) ELSE bf
    /\ finishing' = finishing \cup {s}
    /\ UNCHANGED <<total, len, content>>

(* The handler passes the buffer on. *)
PassOn(s) ==
    /\ s \in finishing
    /\ bf' = bufferFIFO_processingComplete(bf, s, len[s])
    /\ len' = LaunchLen(bf', left, len)
    /\ finishing' = finishing \ {s}
    /\ content' = [content EXCEPT ![WriteBuffer(bf, s)] =
                       [chunk |-> Passed(bf, s), by |-> s]]
    /\ UNCHANGED <<total, left>>

Next ==
    \/ \E n \in StageCounts, size \in 1 .. MaxTransfer : Start(n, size)
    \/ \E s \in StageIdx : Account(s) \/ PassOn(s)

(* The eMMC, the AES unit and the USB host finish what they were given, and the *)
(* handlers run; nobody has to start another transfer.                          *)
Fairness == \A s \in StageIdx : WF_vars(Account(s)) /\ WF_vars(PassOn(s))

Spec == Init /\ [][Next]_vars /\ Fairness

------------------------------------------------------------------------------

(* Every variable has the type the C declarations give it. *)
TypeOK ==
    /\ bf \in FifoStruct
    /\ total \in Nat
    /\ left \in [StageIdx -> Nat]
    /\ len \in [StageIdx -> Nat]
    /\ finishing \subseteq StageIdx
    /\ content \in [Buffers -> [chunk : Int, by : Int]]
    /\ bf.stall_index <= bf.numStages

(* A stage uses its buffers from the moment it is launched until its index      *)
(* moves on.                                                                    *)
InFlight(b, fin, s) == s \in StagesOf(b) /\ (b.stageProcessing[s] \/ s \in fin)
Using(s) == InFlight(bf, finishing, s)

(* The buffers handed out by bufferFIFO_execStage are never shared in conflict: *)
(* no stage writes a buffer that another stage in flight reads or writes.       *)
NoConflict ==
    \A s, t \in StageIdx :
        s # t /\ Using(s) /\ Using(t) =>
            WriteBuffer(bf, s) \notin {ReadBuffer(bf, t), WriteBuffer(bf, t)}

(* What a stage reads, from launch to hand-over, is the next chunk of the       *)
(* transfer in order, as its predecessor left it: no chunk is skipped,          *)
(* repeated, or seen before (or overwritten after) the previous stage wrote it. *)
ReadsNextChunk ==
    \A s \in StageIdx \ {0} :
        Using(s) => content[ReadBuffer(bf, s)] =
                        [chunk |-> Passed(bf, s), by |-> s - 1]

(* assert(mmcDataToTransfer == 0) of readProcessingComplete and                 *)
(* writeProcessingComplete, for every stage: when the status is reported to the *)
(* host, every stage has moved all its data and no handler is still running.    *)
CompleteMeansMoved ==
    ~bf.processing => \A s \in Stages : left[s] = 0 /\ ~Using(s)

(* A stage that is neither running nor drained is one whose next buffer really  *)
(* is not ready: processingComplete wakes every stage it unblocks.              *)
NoLostWakeup ==
    bf.processing =>
        \A s \in Stages : ~Using(s) => bufferFIFO_stageStalled(bf, s)

(* Every transfer that is started is eventually reported complete. *)
EveryTransferCompletes == bf.processing ~> ~bf.processing

------------------------------------------------------------------------------
(* The inductive invariant behind the safety properties: a ring b in a transfer *)
(* of t sectors, where lft is what each stage has left to move, ln the length   *)
(* of what it is moving, and fin the stages between their accounting and        *)
(* processingComplete. These are parameters because the mass storage function   *)
(* keeps a ring too, and its proofs use the same facts.                         *)

(* What is left of a transfer of t sectors after k chunks, and the size of its  *)
(* chunk k.                                                                     *)
Rest(t, k) == IF t <= k * MaxBufferSize THEN 0 ELSE t - k * MaxBufferSize
ChunkSize(t, k) == Smaller(Rest(t, k), MaxBufferSize)

Accounted(b, fin, s) == Passed(b, s) + (IF s \in fin THEN 1 ELSE 0)

RingType(b, lft, ln, fin) ==
    /\ b \in FifoStruct /\ b.stall_index <= b.numStages
    /\ lft \in [StageIdx -> Nat]
    /\ ln \in [StageIdx -> Nat]
    /\ fin \subseteq StageIdx

(* Both indices of a stage move together, and stages follow one another. *)
IndicesInStep(b) ==
    \A s \in StagesOf(b) :
        /\ Passed(b, s) >= 0
        /\ b.stageWriteIndex[s] = FirstWriteIndex(b.numStages, s) + Passed(b, s)

InOrder(b) == \A s, t \in StagesOf(b) : s < t => Passed(b, t) <= Passed(b, s)

(* A stage in flight has a full buffer to read; the first one a free one to     *)
(* write.                                                                       *)
InputReady(b, fin) ==
    /\ \A s \in StagesOf(b) \ {0} : InFlight(b, fin, s) => Passed(b, s) < Passed(b, s - 1)
    /\ LET limit == b.stageReadIndex[b.numStages - 1] + BufferCount
       IN /\ b.stageWriteIndex[0] <= limit
          /\ InFlight(b, fin, 0) => b.stageWriteIndex[0] < limit

(* The buffers between two stages hold the chunks the second has yet to take.   *)
Between(b, s) == Passed(b, s) .. Passed(b, s - 1) - 1
BufferOf(b, s, k) == (FirstReadIndex(b.numStages, s) + k) % BufferCount

SizesInPlace(b, t) ==
    \A s \in StagesOf(b) \ {0} : \A k \in Between(b, s) :
        b.bufferSize[BufferOf(b, s, k)] = ChunkSize(t, k)

Accounts(b, t, lft, ln, fin) ==
    b.processing =>
        \A s \in StagesOf(b) :
            /\ lft[s] = Rest(t, Accounted(b, fin, s))
            /\ b.stalled[s] <=> lft[s] = 0
            /\ InFlight(b, fin, s) => ln[s] = ChunkSize(t, Passed(b, s))
                                      /\ Rest(t, Passed(b, s)) > 0
            /\ s \in fin => (b.stageProcessing[s] <=> ~b.stalled[s])

Quiet(b, lft, fin) ==
    /\ \A s \in StageIdx \ StagesOf(b) : ~b.stageProcessing[s] /\ s \notin fin
    /\ ~b.processing =>
          \A s \in StagesOf(b) : ~b.stageProcessing[s] /\ s \notin fin /\ lft[s] = 0

DrainedUpTo(b) == b.processing => \A s \in 0 .. b.stall_index - 1 : Drained(b, s)

Woken(b, fin) ==
    b.processing =>
        \A s \in StagesOf(b) : ~InFlight(b, fin, s) => bufferFIFO_stageStalled(b, s)

RingInv(b, t, lft, ln, fin) ==
    /\ RingType(b, lft, ln, fin)
    /\ IndicesInStep(b)
    /\ InOrder(b)
    /\ InputReady(b, fin)
    /\ SizesInPlace(b, t)
    /\ Accounts(b, t, lft, ln, fin)
    /\ Quiet(b, lft, fin)
    /\ DrainedUpTo(b)
    /\ Woken(b, fin)

ChunksInPlace ==
    \A s \in Stages \ {0} : \A k \in Between(bf, s) :
        content[BufferOf(bf, s, k)] = [chunk |-> k, by |-> s - 1]

IInv ==
    /\ TypeOK
    /\ RingInv(bf, total, left, len, finishing)
    /\ ChunksInPlace
==============================================================================
