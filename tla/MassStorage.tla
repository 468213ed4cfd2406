----------------------------- MODULE MassStorage -----------------------------
(* The mass storage function: the bulk-only transport (usbd_msc_bot.c), the     *)
(* SCSI commands (usbd_msc_scsi.c) and the sharing of the eMMC between the      *)
(* volumes and the database (commands.c). Every operator takes the state `d' of *)
(* the device, a record, and returns the state the C function leaves behind:    *)
(* the functions call one another deeply, from interrupts and from the main     *)
(* loop. StorageSystem makes actions of them. Lengths and addresses count       *)
(* sectors of 512 bytes.                                                        *)
EXTENDS BufferManager, FiniteSets

CONSTANTS BufSectors,   \* maxBufferSize, in sectors
          Capacity0,    \* sectors of the plain volume
          Capacity1,    \* sectors of the encrypted volume
          AddrMod       \* bound: addresses are computed modulo this, not 2^32

ASSUME MassStorageAssumption ==
    /\ BufSectors \in Nat \ {0}
    /\ Capacity0 \in Nat \ {0} /\ Capacity1 \in Nat \ {0}
    /\ AddrMod \in Nat /\ AddrMod > 1 + Capacity0 + Capacity1
    \* the stage of the AES unit writes one buffer behind the one it reads
    /\ BufferCount > 1

Luns == {0, 1}
Capacity(lun) == IF lun = 0 THEN Capacity0 ELSE Capacity1
Encrypted(lun) == lun = 1              \* HC_VOLUME_FLAG_ENCRYPTED

(* The eMMC: one sector stands for the database, then the two volumes.          *)
EMMC_STORAGE_FIRST_BLOCK == 1
region_start(lun) == EMMC_STORAGE_FIRST_BLOCK + IF lun = 0 THEN 0 ELSE Capacity0
CardSectors == 1 + Capacity0 + Capacity1
Of(lun) == region_start(lun) .. region_start(lun) + Capacity(lun) - 1

Smaller(m, n) == IF m <= n THEN m ELSE n
NoOp == [kind |-> "none"]

------------------------------------------------------------------------------
(* The eMMC is shared: emmc_user_schedule.                                      *)

(* HAL_MMC_ReadBlocks_DMA and HAL_MMC_WriteBlocks_DMA_Initial do nothing when   *)
(* the handle is busy (in an interrupt, after a lost race) or the address lies  *)
(* beyond the card. A DMA of no sectors never completes.                        *)
StartBlocks(d, kind, addr, len, buf) ==
    IF d.op # NoOp \/ addr + len > CardSectors THEN d
    ELSE [d EXCEPT !.op = [kind |-> kind, addr |-> addr, len |-> len, buf |-> buf]]

emmc_user_db_start(d) ==
    StartBlocks(d, d.g_db_action, 0, 1, -1)

(* Mutant: the sectors of the second volume are those of the first. *)
MutantStorageAddr(d) == (region_start(0) + d.mmcBlockAddr) % AddrMod

StorageAddr(d) == (region_start(d.cbw.lun) + d.mmcBlockAddr) % AddrMod

emmc_user_storage_start(d) ==
    CASE d.bot_state = "DATA_IN"  ->
            StartBlocks(d, "read", StorageAddr(d), d.mmcReadLen, d.mmcBuffer)
      [] d.bot_state = "DATA_OUT" ->
            StartBlocks(d, "write", StorageAddr(d), d.mmcReadLen, d.mmcBuffer)
      [] OTHER -> d

emmc_user_start(d, u) ==
    IF u = "DB" THEN emmc_user_db_start(d) ELSE emmc_user_storage_start(d)

Picked(d) == IF "DB" \in d.ready THEN "DB"
             ELSE IF "STORAGE" \in d.ready THEN "STORAGE" ELSE "NONE"

emmc_user_schedule(d) ==
    LET u == Picked(d)
    IN IF d.g_emmc_user # "NONE" \/ u = "NONE" THEN d
       ELSE emmc_user_start([d EXCEPT !.g_emmc_user = u, !.ready = @ \ {u}], u)

Fault(d, f) == [d EXCEPT !.fault = @ \cup {f}]

(* The part of emmc_user_queue before the call of emmc_user_schedule.           *)
MarkReady(d, u) ==
    IF u \in d.ready THEN Fault(d, "assert") ELSE [d EXCEPT !.ready = @ \cup {u}]

emmc_user_queue(d, u) ==
    IF u \in d.ready THEN Fault(d, "assert")
    ELSE emmc_user_schedule(MarkReady(d, u))

------------------------------------------------------------------------------
(* The endpoints. A transfer queued on an endpoint that has one loses it.       *)

USBD_LL_Transmit(d, what) ==
    [d EXCEPT !.epIn = what,
              !.fault = IF d.epIn.what = "none" THEN @ ELSE @ \cup {"clobber"}]

USBD_LL_PrepareReceive(d, what) == [d EXCEPT !.epOut = what]

Csw(d, passed) == [what |-> "csw", tag |-> d.tag, passed |-> passed]

(* Mutant: the next command can arrive although no status was sent. *)
MutantSendCSW(d, status) ==
    USBD_LL_PrepareReceive([d EXCEPT !.bot_state = "IDLE"], "cbw")

MSC_BOT_SendCSW(d, status) ==
    USBD_LL_PrepareReceive(
        USBD_LL_Transmit([d EXCEPT !.bot_state = "IDLE"], Csw(d, status)), "cbw")

MSC_BOT_Abort(d) ==
    LET out == ~d.cbw.in /\ d.cbw.data # 0 /\ d.bot_status = "NORMAL"
        e == [d EXCEPT !.stalledIn = TRUE, !.stalledOut = @ \/ out]
    IN IF d.bot_status = "ERROR" THEN USBD_LL_PrepareReceive(e, "cbw") ELSE e

MSC_BOT_Reset(d) ==
    USBD_LL_PrepareReceive(
        [d EXCEPT !.bot_state = "IDLE", !.bot_status = "RECOVERY"], "cbw")

------------------------------------------------------------------------------
(* The stages of a transfer. Reading: the eMMC, the AES unit if the volume is   *)
(* encrypted, USB. Writing: the other way round.                                *)

LastStage(d) == d.ring.numStages - 1

BufferSize(d, s) == d.ring.bufferSize[ReadBuffer(d.ring, s)]

processMMCReadBuffer(d, s) ==
    emmc_user_queue([d EXCEPT !.mmcBuffer = WriteBuffer(d.ring, s),
                              !.mmcStageIdx = s,
                              !.mmcReadLen = Smaller(d.mmcDataToTransfer, BufSectors)],
                    "STORAGE")

processMMCWriteBuffer(d, s) ==
    emmc_user_queue([d EXCEPT !.mmcStageIdx = s,
                              !.mmcReadLen = BufferSize(d, s),
                              !.mmcBuffer = ReadBuffer(d.ring, s)],
                    "STORAGE")

processUSBReadBuffer(d, s) ==
    USBD_LL_Transmit(
        [d EXCEPT !.g_usb_transmitting = TRUE,
                  !.stageIdx = s, !.writeLen = BufferSize(d, s)],
        [what |-> "data", buf |-> WriteBuffer(d.ring, s), len |-> BufferSize(d, s)])

processUSBWriteBuffer(d, s) ==
    USBD_LL_PrepareReceive(
        [d EXCEPT !.stageIdx = s, !.writeBuffer = WriteBuffer(d.ring, s),
                  !.writeLen = Smaller(d.scsi_blk_len, BufSectors)],
        "data")

(* processDecryptReadBuffer, processEncryptWriteBuffer.                         *)
processCryptBuffer(d, s) ==
    [d EXCEPT !.crypt.stageIdx = s,
              !.crypt.txLen = BufferSize(d, s),
              !.crypt.left = BufferSize(d, s),
              !.crypt.from = ReadBuffer(d.ring, s),
              !.crypt.to = WriteBuffer(d.ring, s),
              !.crypt.running = TRUE]

processStage(d, s) ==
    CASE s = 0 /\ d.reading            -> processMMCReadBuffer(d, s)
      [] s = 0 /\ ~d.reading           -> processUSBWriteBuffer(d, s)
      [] s = LastStage(d) /\ d.reading -> processUSBReadBuffer(d, s)
      [] s = LastStage(d) /\ ~d.reading -> processMMCWriteBuffer(d, s)
      [] OTHER                         -> processCryptBuffer(d, s)

(* The callbacks of the stages the last operation of the ring started.          *)
RunStages(d) ==
    LET Run(e, s) == IF s \in d.ring.exec THEN processStage(e, s) ELSE e
    IN [Run(Run(Run(d, 0), 1), 2) EXCEPT !.ring.exec = {}]

(* readProcessingComplete, writeProcessingComplete.                             *)
transferComplete(d) ==
    IF d.mmcDataToTransfer # 0 THEN Fault(d, "assert") ELSE MSC_BOT_SendCSW(d, TRUE)

(* bufferFIFO_stallStage and bufferFIFO_processingComplete with their callbacks. *)
Stall(d, s) == [d EXCEPT !.ring = bufferFIFO_stallStage(@, s)]

Complete(d, s, len) ==
    LET ring == bufferFIFO_processingComplete(d.ring, s, len)
        e == RunStages([d EXCEPT !.ring = ring])
    IN IF d.ring.processing /\ ~ring.processing THEN transferComplete(e) ELSE e

------------------------------------------------------------------------------
(* READ (10) and WRITE (10).                                                    *)

(* The sum is of 32 bits. scsi_blk_nbr is what the last READ CAPACITY, of       *)
(* either volume, left.                                                         *)
SCSI_CheckAddressRange(d, c) == (c.lba + c.len) % AddrMod <= d.scsi_blk_nbr

STORAGE_IsReady(d, lun) == d.visible[lun]

(* What the header of a command must say for the command to be carried out: the *)
(* direction and the number of bytes.                                           *)
Consistent(c) == c.in = (c.kind = "read") /\ c.data = c.len

(* The events after which a transfer may go wrong: an address beyond the volume *)
(* that the range check lets through, and a transfer of no data.                *)
Accepted(d, c) ==
    [d EXCEPT !.disturbed =
        @ \cup (IF c.lba + c.len > Capacity(c.lun) THEN {"range"} ELSE {})
          \cup (IF c.len = 0 THEN {"zero"} ELSE {})]

(* Mutant: the sector number of the AES unit is left from the last command. *)
MutantStartTransfer(d, c) ==
    LET n == IF Encrypted(c.lun) THEN 3 ELSE 2
        len == Smaller(c.len, BufSectors)
    IN RunStages([Accepted(d, c) EXCEPT
            !.bot_state = IF c.kind = "read" THEN "DATA_IN" ELSE "DATA_OUT",
            !.reading = c.kind = "read",
            !.scsi_blk_len = c.len,
            !.mmcDataToTransfer = c.len,
            !.mmcBlockAddr = c.lba,
            !.crypt.toTransfer = c.len,
            !.ring = bufferFIFO_start([@ EXCEPT !.numStages = n], len)])

StartTransfer(d, c) ==
    LET n == IF Encrypted(c.lun) THEN 3 ELSE 2
        len == Smaller(c.len, BufSectors)
        e == IF Encrypted(c.lun)
               THEN [d EXCEPT !.crypt.toTransfer = c.len, !.crypt.sector = c.lba]
               ELSE d
    IN RunStages([Accepted(e, c) EXCEPT
            !.bot_state = IF c.kind = "read" THEN "DATA_IN" ELSE "DATA_OUT",
            !.reading = c.kind = "read",
            !.scsi_blk_len = c.len,
            !.mmcDataToTransfer = c.len,
            !.mmcBlockAddr = c.lba,
            !.ring = bufferFIFO_start([@ EXCEPT !.numStages = n], len)])

(* The paths that leave bot_state NO_DATA and return -1. (scsi_blk_len, which    *)
(* some of them have set, is set again by the next transfer.)                   *)
Refused(d) == MSC_BOT_SendCSW(d, FALSE)

(* SCSI_Read10 and SCSI_Write10 of a new command (volumes are writable).        *)
SCSI_Transfer10(d, c) ==
    IF STORAGE_IsReady(d, c.lun) /\ SCSI_CheckAddressRange(d, c) /\ Consistent(c)
      THEN StartTransfer(d, c)
      ELSE Refused(d)

(* SCSI_ProcessRead and SCSI_ProcessWrite: a piece went over USB.               *)
Account(d) ==
    LET len == Smaller(d.scsi_blk_len, d.writeLen)
        e == [d EXCEPT !.scsi_blk_len = @ - len]
        f == IF e.scsi_blk_len = 0 THEN Stall(e, d.stageIdx) ELSE e
    IN Complete(f, d.stageIdx, len)

SCSI_ProcessRead(d) ==
    IF d.g_usb_transmitting THEN Account([d EXCEPT !.g_usb_transmitting = FALSE]) ELSE d

SCSI_ProcessWrite(d) == Account(d)

(* Mutant: every piece goes to the address of the first. *)
MutantCounted(d) == [d EXCEPT !.mmcDataToTransfer = @ - d.mmcReadLen]

(* The counters of the eMMC stage. *)
Counted(d) ==
    [d EXCEPT !.mmcDataToTransfer = @ - d.mmcReadLen,
              !.mmcBlockAddr = (@ + d.mmcReadLen) % AddrMod]

(* Mutant: the stage is stopped one piece early. *)
MutantStallAtEnd(d) ==
    IF d.mmcDataToTransfer <= BufSectors THEN Stall(d, d.mmcStageIdx) ELSE d

StallAtEnd(d) == IF d.mmcDataToTransfer = 0 THEN Stall(d, d.mmcStageIdx) ELSE d

(* emmc_user_read_storage_rx_complete, emmc_user_write_storage_tx_complete up   *)
(* to emmc_user_done.                                                           *)
emmc_user_read_storage_rx_complete(d) == StallAtEnd(Counted(d))
emmc_user_write_storage_tx_complete(d) == StallAtEnd(d)
HAL_MMC_WriteBlocks_DMA_Cont(d) ==
    IF d.op.kind = "write_wait" THEN [d EXCEPT !.op.kind = "write_data"] ELSE d

emmc_user_write_storage_tx_dma_complete(d) ==
    HAL_MMC_WriteBlocks_DMA_Cont(Counted(d))

(* usbd_scsi_idle: the AES unit has done a sector.                              *)
usbd_scsi_idle(d) ==
    LET e == [d EXCEPT !.g_cryptOutInt = FALSE,
                       !.crypt.sector = @ + 1, !.crypt.left = @ - 1]
        f == [e EXCEPT !.crypt.toTransfer = @ - d.crypt.txLen]
        g == IF f.crypt.toTransfer = 0 THEN Stall(f, d.crypt.stageIdx) ELSE f
    IN IF e.crypt.left = 0 THEN Complete(g, d.crypt.stageIdx, d.crypt.txLen)
       ELSE [e EXCEPT !.crypt.running = TRUE]

------------------------------------------------------------------------------
(* The transport: MSC_BOT_DataOut, MSC_BOT_DataIn, MSC_BOT_CBW_Decode.          *)

(* READ CAPACITY (10).                                                          *)
SCSI_ReadCapacity10(d, c) ==
    IF STORAGE_IsReady(d, c.lun)
      THEN USBD_LL_Transmit([d EXCEPT !.scsi_blk_nbr = Capacity(c.lun),
                                      !.bot_state = "SEND_DATA"],
                            [what |-> "response"])
      ELSE Refused([d EXCEPT !.stalledIn = TRUE])

(* Refusing the command with bot_state IDLE stalls the endpoints, and no status *)
(* follows.                                                                     *)
SCSI_TestUnitReady(d, c) ==
    CASE c.data # 0 -> MSC_BOT_Abort([d EXCEPT !.disturbed = @ \cup {"abort"}])
      [] c.data = 0 /\ STORAGE_IsReady(d, c.lun) -> MSC_BOT_SendCSW(d, TRUE)
      [] OTHER                           -> Refused(d)

(* INQUIRY, REQUEST SENSE, MODE SENSE: an answer of a few bytes.                *)
SCSI_Inform(d) ==
    USBD_LL_Transmit([d EXCEPT !.bot_state = "SEND_DATA"], [what |-> "response"])

SCSI_ProcessCmd(d, c) ==
    CASE c.kind \in {"read", "write"} -> SCSI_Transfer10(d, c)
      [] c.kind = "read_capacity"     -> SCSI_ReadCapacity10(d, c)
      [] c.kind = "test_unit_ready"   -> SCSI_TestUnitReady(d, c)
      [] c.kind = "inquiry"           -> SCSI_Inform(d)
      [] OTHER                        -> Refused(d)

(* Mutant: the tag of the command is not noted. *)
MutantDecode(d, c) ==
    IF c.kind = "invalid"
      THEN MSC_BOT_Abort([d EXCEPT !.cbw = c, !.bot_status = "ERROR"])
      ELSE SCSI_ProcessCmd([d EXCEPT !.cbw = c], c)

MSC_BOT_CBW_Decode(d, c) ==
    LET e == [d EXCEPT !.cbw = c, !.tag = c.tag]
    IN IF c.kind = "invalid"
         THEN MSC_BOT_Abort([e EXCEPT !.bot_status = "ERROR"])
         ELSE SCSI_ProcessCmd(e, c)

(* The buffer sent last has gone out.                                           *)
MSC_BOT_DataIn(d) ==
    CASE d.bot_state = "DATA_IN"   -> SCSI_ProcessRead(d)
      [] d.bot_state = "SEND_DATA" -> MSC_BOT_SendCSW(d, TRUE)
      [] OTHER                     -> d

(* The buffer prepared last was filled. In state DATA_OUT the command is still  *)
(* that of the CBW; when the CBW is overwritten the state is IDLE.              *)
MSC_BOT_DataOut(d) ==
    IF d.bot_state = "DATA_OUT" THEN SCSI_ProcessWrite(d) ELSE d
==============================================================================
