-------------------------- MODULE StorageSystemProofs --------------------------
(* Proofs about StorageSystem, in four layers. Statuses holds whatever the       *)
(* order of events: the invariant ties the state of the transport to the host's  *)
(* command. NoFaults needs that the race of emmc_user_queue is not lost: then    *)
(* every peripheral works for the stage that is in flight, on the piece the      *)
(* ring gave it, and the ring keeps the invariant of BufferFifo, whose proofs    *)
(* are taken over with the counters of the device put for its variables.         *)
(* StaysWithinVolume needs also that no address beyond the volume was let        *)
(* through: then what is left of a transfer says where on the card it is.        *)
(* ReadsAreTrue and WritesAreKept follow what the sectors are from there: each   *)
(* buffer a stage still has to pass on holds the chunk the ring's counters name. *)
EXTENDS StorageSystem, SequenceTheorems, TLAPS

(* The state of the firmware is a record of these fields, and so is the ring. *)
Fields ==
    {"g_emmc_user", "ready", "op", "cplt", "g_db_action", "bot_state", "bot_status", "tag",
     "cbw", "epIn", "epOut", "stalledIn", "stalledOut", "visible", "scsi_blk_nbr",
     "scsi_blk_len", "writeLen", "stageIdx", "writeBuffer", "g_usb_transmitting",
     "reading", "mmcStageIdx", "mmcReadLen", "mmcBuffer", "mmcBlockAddr",
     "mmcDataToTransfer", "crypt", "g_cryptOutInt", "ring", "disturbed", "fault"}
IsDev(d) == d = [f \in Fields |-> d[f]]

RingFields ==
    {"numStages", "bufferSize", "stageReadIndex", "stageWriteIndex", "stalled",
     "stageProcessing", "processing", "stall_index", "exec"}
IsRing(b) == b = [f \in RingFields |-> b[f]] /\ b.processing \in BOOLEAN

(* e is d, but for the fields S. *)
Changes(d, e, S) == IsDev(e) /\ \A f \in Fields \ S : e[f] = d[f]

------------------------------------------------------------------------------
(* What the operations change, whatever the state. *)

Scheduling == {"g_emmc_user", "ready", "op"}

LEMMA StartBlocksChanges ==
    ASSUME NEW d, IsDev(d), NEW kind, NEW addr, NEW len, NEW buf
    PROVE  Changes(d, StartBlocks(d, kind, addr, len, buf), {"op"})
<1>1. Changes(d, d, {"op"})
  BY DEF Changes
<1>2. Changes(d, [d EXCEPT !.op = [kind |-> kind, addr |-> addr, len |-> len, buf |-> buf]],
              {"op"})
  BY DEF Changes, IsDev, Fields
<1> QED BY <1>1, <1>2 DEF StartBlocks

LEMMA UserStartChanges ==
    ASSUME NEW d, IsDev(d), NEW u
    PROVE  Changes(d, emmc_user_start(d, u), {"op"})
<1>1. Changes(d, d, {"op"})
  BY DEF Changes
<1>2. Changes(d, emmc_user_db_start(d), {"op"})
  BY StartBlocksChanges DEF emmc_user_db_start
<1>3. Changes(d, emmc_user_storage_start(d), {"op"})
  BY <1>1, StartBlocksChanges DEF emmc_user_storage_start
<1> QED BY <1>2, <1>3 DEF emmc_user_start

LEMMA ScheduleChanges ==
    ASSUME NEW d, IsDev(d)
    PROVE  Changes(d, emmc_user_schedule(d), Scheduling)
<1> DEFINE u == Picked(d)
           c == [d EXCEPT !.g_emmc_user = u, !.ready = @ \ {u}]
<1>1. Changes(d, d, Scheduling)
  BY DEF Changes
<1>2. Changes(d, c, Scheduling)
  BY DEF Changes, IsDev, Fields, Scheduling
<1>3. emmc_user_schedule(d) = d \/ emmc_user_schedule(d) = emmc_user_start(c, u)
  BY DEF emmc_user_schedule
<1> HIDE DEF c, u
<1>4. Changes(c, emmc_user_start(c, u), {"op"})
  BY <1>2, UserStartChanges DEF Changes
<1>5. Changes(d, emmc_user_start(c, u), Scheduling)
  BY <1>2, <1>4 DEF Changes, Scheduling
<1> QED BY <1>1, <1>3, <1>5

LEMMA MarkChanges ==
    ASSUME NEW d, IsDev(d), NEW u
    PROVE  Changes(d, MarkReady(d, u), {"fault", "ready"})
BY DEF Changes, IsDev, Fields, MarkReady, Fault

LEMMA QueueChanges ==
    ASSUME NEW d, IsDev(d), NEW u
    PROVE  Changes(d, emmc_user_queue(d, u), Scheduling \cup {"fault"})
<1> DEFINE c == MarkReady(d, u)
<1>1. Changes(d, Fault(d, "assert"), Scheduling \cup {"fault"})
  BY DEF Changes, IsDev, Fields, Fault
<1>2. Changes(d, c, {"fault", "ready"})
  BY MarkChanges
<1>3. \/ emmc_user_queue(d, u) = Fault(d, "assert")
      \/ emmc_user_queue(d, u) = emmc_user_schedule(c)
  BY DEF emmc_user_queue
<1> HIDE DEF c
<1>4. Changes(c, emmc_user_schedule(c), Scheduling)
  BY <1>2, ScheduleChanges DEF Changes
<1>5. Changes(d, emmc_user_schedule(c), Scheduling \cup {"fault"})
  BY <1>2, <1>4 DEF Changes, Scheduling
<1> QED BY <1>1, <1>3, <1>5

(* What the callbacks of the stages may do. *)
Launching ==
    {"g_emmc_user", "ready", "op", "fault", "mmcBuffer", "mmcStageIdx", "mmcReadLen",
     "g_usb_transmitting", "stageIdx", "writeLen", "writeBuffer", "epIn", "epOut", "crypt"}

Launches(d, e) ==
    /\ Changes(d, e, Launching)
    /\ e.epIn = d.epIn \/ e.epIn.what = "data"
    /\ e.epOut = d.epOut \/ e.epOut = "data"

LEMMA LaunchesTwice ==
    ASSUME NEW c, NEW d, NEW e, Launches(c, d), Launches(d, e)
    PROVE  Launches(c, e)
BY DEF Launches, Changes

LEMMA StageLaunches ==
    ASSUME NEW d, IsDev(d), NEW s
    PROVE  Launches(d, processStage(d, s))
<1>1. ASSUME NEW c, Changes(d, c, {"mmcBuffer", "mmcStageIdx", "mmcReadLen"})
      PROVE  Launches(d, emmc_user_queue(c, "STORAGE"))
  <2>1. Changes(c, emmc_user_queue(c, "STORAGE"), Scheduling \cup {"fault"})
    BY <1>1, QueueChanges DEF Changes
  <2> DEFINE e == emmc_user_queue(c, "STORAGE")
  <2> HIDE DEF e
  <2>2. Changes(c, e, Scheduling \cup {"fault"})
    BY <2>1 DEF e
  <2>3. Changes(d, e, Launching) /\ e.epIn = d.epIn /\ e.epOut = d.epOut
    BY <1>1, <2>2 DEF Changes, Scheduling, Launching, Fields
  <2> QED BY <2>3 DEF Launches, e
<1>2. Launches(d, processMMCReadBuffer(d, s))
  <2> DEFINE c == [d EXCEPT !.mmcBuffer = WriteBuffer(d.ring, s),
                            !.mmcStageIdx = s,
                            !.mmcReadLen = Smaller(d.mmcDataToTransfer, BufSectors)]
  <2>1. Changes(d, c, {"mmcBuffer", "mmcStageIdx", "mmcReadLen"})
    BY DEF Changes, IsDev, Fields
  <2>2. processMMCReadBuffer(d, s) = emmc_user_queue(c, "STORAGE")
    BY DEF processMMCReadBuffer
  <2> HIDE DEF c
  <2> QED BY <1>1, <2>1, <2>2
<1>3. Launches(d, processMMCWriteBuffer(d, s))
  <2> DEFINE c == [d EXCEPT !.mmcStageIdx = s,
                            !.mmcReadLen = BufferSize(d, s),
                            !.mmcBuffer = ReadBuffer(d.ring, s)]
  <2>1. Changes(d, c, {"mmcBuffer", "mmcStageIdx", "mmcReadLen"})
    BY DEF Changes, IsDev, Fields
  <2>2. processMMCWriteBuffer(d, s) = emmc_user_queue(c, "STORAGE")
    BY DEF processMMCWriteBuffer
  <2> HIDE DEF c
  <2> QED BY <1>1, <2>1, <2>2
<1>4. Launches(d, processUSBReadBuffer(d, s))
  BY DEF Launches, Changes, IsDev, Fields, Launching, processUSBReadBuffer, USBD_LL_Transmit
<1>5. Launches(d, processUSBWriteBuffer(d, s))
  BY DEF Launches, Changes, IsDev, Fields, Launching, processUSBWriteBuffer,
         USBD_LL_PrepareReceive
<1>6. Launches(d, processCryptBuffer(d, s))
  BY DEF Launches, Changes, IsDev, Fields, Launching, processCryptBuffer
<1> QED BY <1>2, <1>3, <1>4, <1>5, <1>6 DEF processStage

LEMMA RunChanges ==
    ASSUME NEW d, IsDev(d), IsRing(d.ring), NEW e, e = RunStages(d)
    PROVE  /\ Changes(d, e, Launching \cup {"ring"})
           /\ e.epIn = d.epIn \/ e.epIn.what = "data"
           /\ e.epOut = d.epOut \/ e.epOut = "data"
           /\ e.ring = [d.ring EXCEPT !.exec = {}]
<1> DEFINE Run(c, s) == IF s \in d.ring.exec THEN processStage(c, s) ELSE c
           c0 == Run(d, 0)
           c1 == Run(c0, 1)
           c2 == Run(c1, 2)
<1>1. ASSUME NEW c, IsDev(c), NEW s
      PROVE  Launches(c, Run(c, s)) /\ IsDev(Run(c, s))
  <2>1. Launches(c, c) /\ IsDev(c)
    BY <1>1 DEF Launches, Changes
  <2>2. Launches(c, processStage(c, s))
    BY <1>1, StageLaunches
  <2>3. Launches(c, Run(c, s))
    BY <2>1, <2>2
  <2> QED BY <2>3 DEF Launches, Changes
<1>2. e = [c2 EXCEPT !.ring.exec = {}]
  BY DEF RunStages
<1> HIDE DEF Run
<1>3. Launches(d, c0) /\ IsDev(c0)
  BY <1>1
<1> HIDE DEF c0
<1>4. Launches(c0, c1) /\ IsDev(c1)
  BY <1>1, <1>3
<1> HIDE DEF c1
<1>5. Launches(c1, c2) /\ IsDev(c2)
  BY <1>1, <1>4
<1> HIDE DEF c2
<1>6. Launches(d, c2)
  BY <1>3, <1>4, <1>5, LaunchesTwice
<1>7. c2.ring = d.ring
  BY <1>6 DEF Launches, Changes, Launching, Fields
<1>8. /\ Changes(c2, e, {"ring"}) /\ e.ring = [c2.ring EXCEPT !.exec = {}]
      /\ e.epIn = c2.epIn /\ e.epOut = c2.epOut
  BY <1>2, <1>5 DEF Changes, IsDev, Fields
<1> QED BY <1>6, <1>7, <1>8 DEF Launches, Changes

------------------------------------------------------------------------------
(* The status of a command. *)

(* The host gets a status for the command it waits for: until the transfer or   *)
(* the answer has gone out there is none and the command after cannot arrive;   *)
(* then there is one, with the tag of the command. After a BOT_RESET in the     *)
(* middle of a command the host waits for nothing.                              *)
StatusOk(d, h) ==
    IF "reset" \in d.disturbed THEN ~h.waiting
    ELSE /\ d.ring.processing \/ d.bot_state = "SEND_DATA" =>
              /\ h.waiting /\ d.tag = h.cmd.tag
              /\ d.epOut # "cbw" /\ d.epIn.what # "csw"
         /\ d.ring.processing => d.cbw = h.cmd /\ Consistent(h.cmd)
         /\ ~(d.ring.processing /\ d.bot_state = "SEND_DATA")
         /\ d.epIn.what = "csw" =>
              h.waiting /\ d.epIn.tag = h.cmd.tag /\ d.bot_state = "IDLE"
         /\ d.epIn.what = "response" => d.bot_state = "SEND_DATA"
         /\ d.epIn.what \in {"none", "data", "response", "csw"}

HostFields == {"waiting", "cmd", "sent", "got"}
IsHost(h) == h = [f \in HostFields |-> h[f]]

StatusInv ==
    /\ IsDev(dev) /\ IsRing(dev.ring) /\ IsHost(host)
    /\ StatusOk(dev, host)

(* What the completion of a stage lets the host see: data, or, when the         *)
(* transfer ends with it, the status.                                           *)
Sends(d, e) ==
    /\ IsDev(e) /\ IsRing(e.ring)
    /\ e.tag = d.tag /\ e.cbw = d.cbw /\ e.disturbed = d.disturbed
    /\ e.ring.processing => d.ring.processing
    /\ \/ /\ e.bot_state = d.bot_state
          /\ e.epIn = d.epIn \/ e.epIn.what = "data"
          /\ e.epOut = d.epOut \/ e.epOut = "data"
       \/ /\ d.ring.processing /\ ~e.ring.processing
          /\ e.bot_state = "IDLE" /\ e.epOut = "cbw"
          /\ e.epIn.what = "csw" /\ e.epIn.tag = d.tag

LEMMA SendsKeepsStatus ==
    ASSUME NEW d, NEW e, NEW h, StatusOk(d, h), Sends(d, e)
    PROVE  StatusOk(e, h)
BY DEF StatusOk, Sends

LEMMA SendsAfter ==
    ASSUME NEW d, NEW c, NEW e,
           c.tag = d.tag, c.cbw = d.cbw, c.disturbed = d.disturbed,
           c.ring.processing = d.ring.processing,
           c.bot_state = d.bot_state, c.epIn = d.epIn, c.epOut = d.epOut,
           Sends(c, e)
    PROVE  Sends(d, e)
BY DEF Sends

LEMMA StallRing ==
    ASSUME NEW b, IsRing(b), NEW s
    PROVE  LET p == bufferFIFO_stallStage(b, s)
           IN IsRing(p) /\ p.processing = b.processing
BY DEF IsRing, RingFields, bufferFIFO_stallStage

LEMMA CompleteRing ==
    ASSUME NEW b, IsRing(b), NEW s, NEW len
    PROVE  LET p == bufferFIFO_processingComplete(b, s, len)
           IN IsRing(p) /\ (p.processing => b.processing)
<1> DEFINE a  == Advance(b, s, len)
           e1 == ExecUnlessStalled(a, s)
           e2 == ExecUnlessStalled(e1, (s + 1) % b.numStages)
<1>1. IsRing(a) /\ a.processing = b.processing
  BY DEF IsRing, RingFields, Advance
<1>2. ASSUME NEW c, IsRing(c), NEW t
      PROVE  IsRing(ExecUnlessStalled(c, t)) /\ ExecUnlessStalled(c, t).processing = c.processing
  BY <1>2 DEF IsRing, RingFields, ExecUnlessStalled, bufferFIFO_execStage
<1>3. bufferFIFO_processingComplete(b, s, len) = DetectCompletion(e2)
  BY DEF bufferFIFO_processingComplete
<1> HIDE DEF a
<1>4. IsRing(e1) /\ e1.processing = b.processing
  BY <1>1, <1>2
<1> HIDE DEF e1
<1>5. IsRing(e2) /\ e2.processing = b.processing
  BY <1>2, <1>4
<1> HIDE DEF e2
<1>6. IsRing(DetectCompletion(e2)) /\ (DetectCompletion(e2).processing => e2.processing)
  BY <1>5 DEF IsRing, RingFields, DetectCompletion
<1> QED BY <1>3, <1>5, <1>6

(* What the transport does to the device. *)
LEMMA CswSent ==
    ASSUME NEW d, IsDev(d), NEW status, NEW e, e = MSC_BOT_SendCSW(d, status)
    PROVE  /\ Changes(d, e, {"bot_state", "epIn", "epOut", "fault"})
           /\ e.bot_state = "IDLE" /\ e.epOut = "cbw"
           /\ e.epIn = Csw(d, status)
           /\ e.fault = IF d.epIn.what = "none" THEN d.fault ELSE d.fault \cup {"clobber"}
<1> DEFINE c == [d EXCEPT !.bot_state = "IDLE"]
           w == Csw(d, status)
           g == USBD_LL_Transmit(c, w)
<1>1. e = USBD_LL_PrepareReceive(g, "cbw")
  BY DEF MSC_BOT_SendCSW
<1>2. Changes(d, c, {"bot_state"}) /\ c.bot_state = "IDLE"
  BY DEF Changes, IsDev, Fields
<1> HIDE DEF c, w
<1>3. /\ Changes(c, g, {"epIn", "fault"}) /\ g.epIn = w
      /\ g.fault = IF c.epIn.what = "none" THEN c.fault ELSE c.fault \cup {"clobber"}
  BY <1>2 DEF Changes, IsDev, Fields, USBD_LL_Transmit
<1> HIDE DEF g
<1>4. Changes(g, e, {"epOut"}) /\ e.epOut = "cbw"
  BY <1>1, <1>3 DEF Changes, IsDev, Fields, USBD_LL_PrepareReceive
<1> QED BY <1>2, <1>3, <1>4 DEF Changes, Fields, w

LEMMA CompleteSends ==
    ASSUME NEW d, IsDev(d), IsRing(d.ring), NEW s, NEW len
    PROVE  Sends(d, Complete(d, s, len))
<1> DEFINE ring == bufferFIFO_processingComplete(d.ring, s, len)
           c == [d EXCEPT !.ring = ring]
           e == RunStages(c)
<1>1. IsRing(ring) /\ (ring.processing => d.ring.processing)
  BY CompleteRing
<1>2. Complete(d, s, len) = IF d.ring.processing /\ ~ring.processing
                              THEN transferComplete(e) ELSE e
  BY DEF Complete
<1>3. Changes(d, c, {"ring"}) /\ c.ring = ring
  <2> HIDE DEF ring
  <2> QED BY DEF Changes, IsDev, Fields
<1> HIDE DEF ring, c
<1>4. /\ Changes(c, e, Launching \cup {"ring"})
      /\ e.epIn = c.epIn \/ e.epIn.what = "data"
      /\ e.epOut = c.epOut \/ e.epOut = "data"
      /\ e.ring = [c.ring EXCEPT !.exec = {}]
  BY <1>1, <1>3, RunChanges DEF Changes
<1> HIDE DEF e
<1>5. /\ Changes(d, e, Launching \cup {"ring"})
      /\ e.epIn = d.epIn \/ e.epIn.what = "data"
      /\ e.epOut = d.epOut \/ e.epOut = "data"
  BY <1>3, <1>4 DEF Changes, Fields
<1>6. IsRing(e.ring) /\ e.ring.processing = ring.processing
  BY <1>1, <1>3, <1>4 DEF IsRing, RingFields
<1>7. Sends(d, e)
  BY <1>1, <1>5, <1>6 DEF Sends, Changes, Launching, Fields
<1>8. ASSUME d.ring.processing, ~ring.processing
      PROVE  Sends(d, transferComplete(e))
  <2>1. Sends(d, Fault(e, "assert"))
    <3>1. Changes(e, Fault(e, "assert"), {"fault"})
      BY <1>5 DEF Changes, IsDev, Fields, Fault
    <3> QED BY <1>7, <3>1 DEF Sends, Changes, Fields
  <2>2. Sends(d, MSC_BOT_SendCSW(e, TRUE))
    <3> DEFINE g == MSC_BOT_SendCSW(e, TRUE)
    <3>1. IsDev(e) /\ g = MSC_BOT_SendCSW(e, TRUE)
      BY <1>5 DEF Changes
    <3> HIDE DEF g
    <3>2. /\ Changes(e, g, {"bot_state", "epIn", "epOut", "fault"})
          /\ g.bot_state = "IDLE" /\ g.epOut = "cbw" /\ g.epIn = Csw(e, TRUE)
      BY <3>1, CswSent
    <3>3. g.epIn.what = "csw" /\ g.epIn.tag = e.tag
      BY <3>2 DEF Csw
    <3>4. /\ IsDev(g) /\ g.ring = e.ring /\ g.tag = e.tag
          /\ g.cbw = e.cbw /\ g.disturbed = e.disturbed
      BY <3>2 DEF Changes, Fields
    <3>5. e.tag = d.tag /\ e.cbw = d.cbw /\ e.disturbed = d.disturbed
      BY <1>5 DEF Changes, Launching, Fields
    <3>6. Sends(d, g)
      BY <1>6, <1>8, <3>2, <3>3, <3>4, <3>5 DEF Sends
    <3> QED BY <3>6 DEF g
  <2> QED BY <2>1, <2>2 DEF transferComplete
<1> QED BY <1>2, <1>7, <1>8

LEMMA AccountSends ==
    ASSUME NEW d, IsDev(d), IsRing(d.ring)
    PROVE  Sends(d, Account(d))
<1> DEFINE len == Smaller(d.scsi_blk_len, d.writeLen)
           c == [d EXCEPT !.scsi_blk_len = @ - len]
           f == IF c.scsi_blk_len = 0 THEN Stall(c, d.stageIdx) ELSE c
<1>1. Changes(d, c, {"scsi_blk_len"})
  BY DEF Changes, IsDev, Fields
<1>2. Account(d) = Complete(f, d.stageIdx, len)
  <2>1. c.stageIdx = d.stageIdx
    BY DEF IsDev, Fields
  <2> QED BY <2>1 DEF Account
<1> HIDE DEF len, c
<1>3. c.ring = d.ring
  BY <1>1 DEF Changes, Fields
<1>4. /\ Changes(d, f, {"scsi_blk_len", "ring"})
      /\ IsRing(f.ring) /\ f.ring.processing = d.ring.processing
  <2>1. CASE f = c
    BY <1>1, <1>3, <2>1 DEF Changes
  <2>2. CASE f = Stall(c, d.stageIdx)
    <3> DEFINE p == bufferFIFO_stallStage(c.ring, d.stageIdx)
    <3>1. IsRing(p) /\ p.processing = d.ring.processing
      BY <1>3, StallRing
    <3>2. f = [c EXCEPT !.ring = p]
      BY <2>2 DEF Stall
    <3> HIDE DEF p
    <3>3. Changes(c, f, {"ring"}) /\ f.ring = p
      BY <1>1, <3>2 DEF Changes, IsDev, Fields
    <3> QED BY <1>1, <3>1, <3>3 DEF Changes
  <2> QED BY <2>1, <2>2
<1> HIDE DEF f
<1>5. Sends(f, Complete(f, d.stageIdx, len))
  BY <1>4, CompleteSends DEF Changes
<1>6. Sends(d, Complete(f, d.stageIdx, len))
  BY <1>4, <1>5, SendsAfter DEF Changes, Fields
<1> QED BY <1>2, <1>6

LEMMA CryptSends ==
    ASSUME NEW d, IsDev(d), IsRing(d.ring)
    PROVE  Sends(d, usbd_scsi_idle(d))
<1> DEFINE c == [d EXCEPT !.g_cryptOutInt = FALSE,
                          !.crypt.sector = @ + 1, !.crypt.left = @ - 1]
           f == [c EXCEPT !.crypt.toTransfer = @ - d.crypt.txLen]
           s == d.crypt.stageIdx
           g == IF f.crypt.toTransfer = 0 THEN Stall(f, s) ELSE f
           h == [c EXCEPT !.crypt.running = TRUE]
<1>1. usbd_scsi_idle(d) = IF c.crypt.left = 0 THEN Complete(g, s, d.crypt.txLen) ELSE h
  BY DEF usbd_scsi_idle
<1>2. /\ Changes(d, f, {"crypt", "g_cryptOutInt"})
      /\ Changes(d, h, {"crypt", "g_cryptOutInt"})
  <2>1. Changes(d, c, {"crypt", "g_cryptOutInt"})
    BY DEF Changes, IsDev, Fields
  <2> HIDE DEF c
  <2> QED BY <2>1 DEF Changes, IsDev, Fields
<1> HIDE DEF c, f, h, s
<1>3. /\ Changes(d, g, {"crypt", "g_cryptOutInt", "ring"})
      /\ IsRing(g.ring) /\ g.ring.processing = d.ring.processing
  <2>1. CASE g = f
    BY <1>2, <2>1 DEF Changes, Fields
  <2>2. CASE g = Stall(f, s)
    <3> DEFINE p == bufferFIFO_stallStage(f.ring, s)
    <3>1. f.ring = d.ring
      BY <1>2 DEF Changes, Fields
    <3>2. IsRing(p) /\ p.processing = d.ring.processing
      BY <3>1, StallRing
    <3>3. g = [f EXCEPT !.ring = p]
      BY <2>2 DEF Stall
    <3> HIDE DEF p
    <3>4. Changes(f, g, {"ring"}) /\ g.ring = p
      BY <1>2, <3>3 DEF Changes, IsDev, Fields
    <3> QED BY <1>2, <3>2, <3>4 DEF Changes
  <2> QED BY <2>1, <2>2
<1> HIDE DEF g
<1>4. Sends(g, Complete(g, s, d.crypt.txLen))
  BY <1>3, CompleteSends DEF Changes
<1>5. Sends(d, Complete(g, s, d.crypt.txLen))
  BY <1>3, <1>4, SendsAfter DEF Changes, Fields
<1>6. Sends(d, h)
  BY <1>2 DEF Sends, Changes, Fields
<1> QED BY <1>1, <1>5, <1>6

LEMMA Aborted ==
    ASSUME NEW d, IsDev(d), NEW e, e = MSC_BOT_Abort(d)
    PROVE  /\ Changes(d, e, {"stalledIn", "stalledOut", "epOut"})
           /\ e.epOut = d.epOut \/ e.epOut = "cbw"
<1> DEFINE out == d.stalledOut \/ (~d.cbw.in /\ d.cbw.data # 0 /\ d.bot_status = "NORMAL")
           c == [d EXCEPT !.stalledIn = TRUE, !.stalledOut = out]
<1>1. e = c \/ e = [c EXCEPT !.epOut = "cbw"]
  BY DEF MSC_BOT_Abort, USBD_LL_PrepareReceive
<1> HIDE DEF out
<1> QED BY <1>1 DEF Changes, IsDev, Fields

LEMMA Answered10 ==
    ASSUME NEW d, IsDev(d), NEW c, IsDev(c), Changes(d, c, {"bot_state", "scsi_blk_nbr"}),
           c.bot_state = "SEND_DATA", NEW e, e = USBD_LL_Transmit(c, [what |-> "response"])
    PROVE  /\ Changes(d, e, {"bot_state", "scsi_blk_nbr", "epIn", "fault"})
           /\ e.bot_state = "SEND_DATA" /\ e.epIn = [what |-> "response"]
           /\ e.fault = IF d.epIn.what = "none" THEN d.fault ELSE d.fault \cup {"clobber"}
BY DEF Changes, IsDev, Fields, USBD_LL_Transmit

(* e is d with a transfer set up, its stages about to be launched. *)
StageCount(lun) == IF Encrypted(lun) THEN 3 ELSE 2
TransferFields == {"crypt", "bot_state", "reading", "scsi_blk_len",
                   "mmcDataToTransfer", "mmcBlockAddr", "ring", "disturbed"}
Readied(d, c, e) ==
    /\ Changes(d, e, TransferFields)
    /\ e.bot_state = IF c.kind = "read" THEN "DATA_IN" ELSE "DATA_OUT"
    /\ e.reading = (c.kind = "read")
    /\ e.scsi_blk_len = c.len /\ e.mmcDataToTransfer = c.len
    /\ e.mmcBlockAddr = c.lba
    /\ e.crypt = IF Encrypted(c.lun)
                   THEN [d.crypt EXCEPT !.toTransfer = c.len, !.sector = c.lba]
                   ELSE d.crypt
    /\ e.ring = bufferFIFO_start([d.ring EXCEPT !.numStages = StageCount(c.lun)],
                                 Smaller(c.len, BufSectors))
    /\ e.disturbed = d.disturbed
           \cup (IF c.lba + c.len > Capacity(c.lun) THEN {"range"} ELSE {})
           \cup (IF c.len = 0 THEN {"zero"} ELSE {})

LEMMA TransferSet ==
    ASSUME NEW d, IsDev(d), NEW c
    PROVE  \E e : StartTransfer(d, c) = RunStages(e) /\ Readied(d, c, e)
<1> DEFINE len == Smaller(c.len, BufSectors)
           n == IF Encrypted(c.lun) THEN 3 ELSE 2
           ring == bufferFIFO_start([d.ring EXCEPT !.numStages = n], len)
           b == IF Encrypted(c.lun)
                  THEN [d EXCEPT !.crypt.toTransfer = c.len, !.crypt.sector = c.lba] ELSE d
           a == Accepted(b, c)
           e == [a EXCEPT
                  !.bot_state = IF c.kind = "read" THEN "DATA_IN" ELSE "DATA_OUT",
                  !.reading = c.kind = "read",
                  !.scsi_blk_len = c.len,
                  !.mmcDataToTransfer = c.len,
                  !.mmcBlockAddr = c.lba,
                  !.ring = bufferFIFO_start([@ EXCEPT !.numStages = n], len)]
           more == d.disturbed
                       \cup (IF c.lba + c.len > Capacity(c.lun) THEN {"range"} ELSE {})
                       \cup (IF c.len = 0 THEN {"zero"} ELSE {})
           crypt == IF Encrypted(c.lun)
                      THEN [d.crypt EXCEPT !.toTransfer = c.len, !.sector = c.lba] ELSE d.crypt
<1>1. StartTransfer(d, c) = RunStages(e)
  BY DEF StartTransfer
<1>2. Changes(d, b, {"crypt"}) /\ b.crypt = crypt
  BY DEF Changes, IsDev, Fields
<1> HIDE DEF b, crypt
<1>3. Changes(b, a, {"disturbed"}) /\ a.disturbed = more
  <2>1. b.disturbed = d.disturbed
    BY <1>2 DEF Changes, Fields
  <2> QED BY <1>2, <2>1 DEF Changes, IsDev, Fields, Accepted
<1> HIDE DEF a, more
<1>4. a.ring = d.ring
  BY <1>2, <1>3 DEF Changes, Fields
<1>5. /\ Changes(a, e, {"bot_state", "reading", "scsi_blk_len", "mmcDataToTransfer",
                        "mmcBlockAddr", "ring"})
      /\ e.bot_state = IF c.kind = "read" THEN "DATA_IN" ELSE "DATA_OUT"
      /\ e.reading = (c.kind = "read")
      /\ e.scsi_blk_len = c.len /\ e.mmcDataToTransfer = c.len
      /\ e.mmcBlockAddr = c.lba
      /\ e.ring = ring
  <2>1. e.ring = bufferFIFO_start([a.ring EXCEPT !.numStages = n], len)
    BY <1>3 DEF Changes, IsDev, Fields
  <2>2. e.ring = ring
    BY <1>4, <2>1
  <2>3. Changes(a, e, {"bot_state", "reading", "scsi_blk_len", "mmcDataToTransfer",
                       "mmcBlockAddr", "ring"})
    <3> DEFINE state == IF c.kind = "read" THEN "DATA_IN" ELSE "DATA_OUT"
               next == bufferFIFO_start([a.ring EXCEPT !.numStages = n], len)
               f == [a EXCEPT !.bot_state = state, !.reading = c.kind = "read",
                              !.scsi_blk_len = c.len]
    <3>1. e = [f EXCEPT !.mmcDataToTransfer = c.len, !.mmcBlockAddr = c.lba, !.ring = next]
      BY <1>3 DEF Changes, IsDev, Fields
    <3> HIDE DEF e, state, next
    <3>2. Changes(a, f, {"bot_state", "reading", "scsi_blk_len"})
      BY <1>3 DEF Changes, IsDev, Fields
    <3> HIDE DEF f
    <3> QED BY <3>1, <3>2 DEF Changes, IsDev, Fields
  <2> HIDE DEF n, len, ring
  <2>4. /\ e.bot_state = IF c.kind = "read" THEN "DATA_IN" ELSE "DATA_OUT"
        /\ e.reading = (c.kind = "read")
        /\ e.scsi_blk_len = c.len /\ e.mmcDataToTransfer = c.len
        /\ e.mmcBlockAddr = c.lba
    BY <1>3 DEF Changes, IsDev, Fields
  <2> QED BY <2>2, <2>3, <2>4
<1> HIDE DEF e, ring
<1>6. Changes(d, e, TransferFields)
  BY <1>2, <1>3, <1>5 DEF Changes, TransferFields
<1>7. e.crypt = crypt /\ e.disturbed = more
  BY <1>2, <1>3, <1>5 DEF Changes, Fields
<1> QED
  <2>1. Readied(d, c, e)
    BY <1>5, <1>6, <1>7 DEF ring, crypt, more, Readied, StageCount
  <2> QED BY <1>1, <2>1

LEMMA StartRing ==
    ASSUME NEW b, IsRing(b), NEW n, NEW len
    PROVE  IsRing(bufferFIFO_start([b EXCEPT !.numStages = n], len))
BY DEF IsRing, RingFields, bufferFIFO_start, bufferFIFO_execStage

(* The command is noted, and b is the device then. *)
Noted(d, c, b) == Changes(d, b, {"cbw", "tag"}) /\ b.cbw = c /\ b.tag = c.tag

IsTransfer(c) == c.kind \in {"read", "write"}

(* The command c is over at once: the endpoints stall, its status is sent, or a  *)
(* short answer is. No transfer is answered, or passed, like that.               *)
Transport == {"tag", "cbw", "bot_state", "bot_status", "epIn", "epOut", "stalledIn",
              "stalledOut", "scsi_blk_nbr", "disturbed", "fault"}

Stalls(b, c, e) ==
    /\ e.bot_state = b.bot_state /\ e.epIn = b.epIn /\ e.epOut \in {b.epOut, "cbw"}
    /\ ~IsTransfer(c)
Concludes(c, e) ==
    /\ e.bot_state = "IDLE" /\ e.epOut = "cbw"
    /\ e.epIn.what = "csw" /\ e.epIn.tag = c.tag /\ (e.epIn.passed => ~IsTransfer(c))
Answers(b, c, e) ==
    /\ e.bot_state = "SEND_DATA" /\ e.epOut = b.epOut /\ e.epIn.what = "response"
    /\ ~IsTransfer(c)
AtOnce(b, c, e) ==
    /\ Changes(b, e, Transport) /\ e.cbw = c /\ e.tag = c.tag
    /\ b.disturbed \subseteq e.disturbed
    /\ "reset" \in e.disturbed => "reset" \in b.disturbed
    /\ b.epIn.what = "none" => e.fault = b.fault
    /\ Stalls(b, c, e) \/ Concludes(c, e) \/ Answers(b, c, e)

Starts(b, c, e) == IsTransfer(c) /\ Consistent(c) /\ e = StartTransfer(b, c)

LEMMA DecodeWays ==
    ASSUME NEW d, IsDev(d), NEW c, NEW e, e = MSC_BOT_CBW_Decode(d, c)
    PROVE  \E b : Noted(d, c, b) /\ (AtOnce(b, c, e) \/ Starts(b, c, e))
<1> DEFINE b == [d EXCEPT !.cbw = c, !.tag = c.tag]
           Refusing == {"bot_status", "stalledIn", "scsi_blk_nbr", "disturbed"}
           Noticed(x) == /\ Changes(b, x, Refusing) /\ b.disturbed \subseteq x.disturbed
                         /\ "reset" \in x.disturbed => "reset" \in b.disturbed
<1>1. Noted(d, c, b)
  BY DEF Noted, Changes, IsDev, Fields
<1>2. e = IF c.kind = "invalid" THEN MSC_BOT_Abort([b EXCEPT !.bot_status = "ERROR"])
          ELSE SCSI_ProcessCmd(b, c)
  BY DEF MSC_BOT_CBW_Decode
<1> HIDE DEF b
<1>3. IsDev(b) /\ b.cbw = c /\ b.tag = c.tag /\ Noticed(b)
  BY <1>1 DEF Noted, Changes
<1>4. ASSUME NEW x, Noticed(x), ~IsTransfer(c)
      PROVE  AtOnce(b, c, MSC_BOT_Abort(x))
  <2> DEFINE z == MSC_BOT_Abort(x)
  <2>1. Changes(x, z, {"stalledIn", "stalledOut", "epOut"}) /\ z.epOut \in {x.epOut, "cbw"}
    BY <1>4, Aborted DEF Changes
  <2> HIDE DEF z
  <2>2. Changes(b, z, Transport)
    BY <1>4, <2>1 DEF Changes, Transport
  <2>3. AtOnce(b, c, z)
    BY <1>3, <1>4, <2>1, <2>2 DEF AtOnce, Stalls, Changes, Fields
  <2> QED BY <2>3 DEF z
<1>5. ASSUME NEW x, Noticed(x), NEW status, status => ~IsTransfer(c)
      PROVE  AtOnce(b, c, MSC_BOT_SendCSW(x, status))
  <2> DEFINE z == MSC_BOT_SendCSW(x, status)
  <2>1. /\ Changes(x, z, {"bot_state", "epIn", "epOut", "fault"})
        /\ z.bot_state = "IDLE" /\ z.epOut = "cbw" /\ z.epIn = Csw(x, status)
        /\ z.fault = IF x.epIn.what = "none" THEN x.fault ELSE x.fault \cup {"clobber"}
    BY <1>5, CswSent DEF Changes
  <2> HIDE DEF z
  <2>2. Changes(b, z, Transport)
    BY <1>5, <2>1 DEF Changes, Transport
  <2>3. x.tag = c.tag
    BY <1>3, <1>5 DEF Changes, Fields
  <2>4. Concludes(c, z)
    BY <1>5, <2>1, <2>3 DEF Concludes, Csw
  <2>5. AtOnce(b, c, z)
    BY <1>3, <1>5, <2>1, <2>2, <2>4 DEF AtOnce, Changes, Fields
  <2> QED BY <2>5 DEF z
<1>6. ASSUME NEW x, Changes(b, x, {"bot_state", "scsi_blk_nbr"}), x.bot_state = "SEND_DATA",
             ~IsTransfer(c)
      PROVE  AtOnce(b, c, USBD_LL_Transmit(x, [what |-> "response"]))
  <2> DEFINE z == USBD_LL_Transmit(x, [what |-> "response"])
  <2>1. /\ Changes(b, z, {"bot_state", "scsi_blk_nbr", "epIn", "fault"})
        /\ z.bot_state = "SEND_DATA" /\ z.epIn = [what |-> "response"]
        /\ z.fault = IF b.epIn.what = "none" THEN b.fault ELSE b.fault \cup {"clobber"}
    <3>1. IsDev(x)
      BY <1>6 DEF Changes
    <3> QED BY <1>3, <1>6, <3>1, Answered10, Zenon
  <2> HIDE DEF z
  <2>2. z.epIn.what = "response"
    BY <2>1
  <2>3. Changes(b, z, Transport)
    BY <2>1 DEF Changes, Transport
  <2>4. AtOnce(b, c, z)
    BY <1>3, <1>6, <2>1, <2>2, <2>3 DEF AtOnce, Answers, Changes, Fields
  <2> QED BY <2>4 DEF z
<1>7. ASSUME NEW x, Noticed(x)
      PROVE  AtOnce(b, c, Refused(x))
  BY <1>5, <1>7 DEF Refused
<1>8. CASE c.kind = "invalid"
  <2> DEFINE x == [b EXCEPT !.bot_status = "ERROR"]
  <2>1. Noticed(x)
    BY <1>3 DEF Changes, IsDev, Fields
  <2> HIDE DEF x, Noticed
  <2>2. AtOnce(b, c, MSC_BOT_Abort(x))
    BY <1>4, <1>8, <2>1 DEF IsTransfer
  <2> QED BY <1>1, <1>2, <1>8, <2>2 DEF x
<1>9. CASE c.kind # "invalid" /\ IsTransfer(c)
  <2>1. Starts(b, c, e) \/ e = Refused(b)
    BY <1>2, <1>9 DEF SCSI_ProcessCmd, SCSI_Transfer10, IsTransfer, Starts
  <2> HIDE DEF Noticed
  <2> QED BY <1>1, <1>3, <1>7, <1>9, <2>1
<1>10. CASE c.kind = "read_capacity"
  <2> DEFINE x == [b EXCEPT !.scsi_blk_nbr = Capacity(c.lun), !.bot_state = "SEND_DATA"]
             y == [b EXCEPT !.stalledIn = TRUE]
  <2>1. /\ Changes(b, x, {"bot_state", "scsi_blk_nbr"}) /\ x.bot_state = "SEND_DATA"
        /\ Noticed(y) /\ ~IsTransfer(c)
    BY <1>3, <1>10 DEF Changes, IsDev, Fields, IsTransfer
  <2>2. e = USBD_LL_Transmit(x, [what |-> "response"]) \/ e = Refused(y)
    BY <1>2, <1>10 DEF SCSI_ProcessCmd, SCSI_ReadCapacity10
  <2> HIDE DEF x, y, Noticed
  <2> QED BY <1>1, <1>6, <1>7, <2>1, <2>2
<1>11. CASE c.kind = "test_unit_ready"
  <2> DEFINE x == [b EXCEPT !.disturbed = @ \cup {"abort"}]
  <2>1. Noticed(x) /\ ~IsTransfer(c)
    BY <1>3, <1>11 DEF Changes, IsDev, Fields, IsTransfer
  <2>2. \/ e = MSC_BOT_Abort(x)
        \/ e = MSC_BOT_SendCSW(b, TRUE)
        \/ e = Refused(b)
    BY <1>2, <1>11 DEF SCSI_ProcessCmd, SCSI_TestUnitReady
  <2> HIDE DEF x, Noticed
  <2> QED BY <1>1, <1>3, <1>4, <1>5, <1>7, <2>1, <2>2
<1>12. CASE c.kind = "inquiry"
  <2> DEFINE x == [b EXCEPT !.bot_state = "SEND_DATA"]
  <2>1. /\ Changes(b, x, {"bot_state", "scsi_blk_nbr"}) /\ x.bot_state = "SEND_DATA"
        /\ ~IsTransfer(c)
    BY <1>3, <1>12 DEF Changes, IsDev, Fields, IsTransfer
  <2>2. e = USBD_LL_Transmit(x, [what |-> "response"])
    BY <1>2, <1>12 DEF SCSI_ProcessCmd, SCSI_Inform
  <2> HIDE DEF x
  <2> QED BY <1>1, <1>6, <2>1, <2>2
<1>13. CASE c.kind \notin {"invalid", "read", "write", "read_capacity", "test_unit_ready",
                           "inquiry"}
  <2>1. e = Refused(b)
    BY <1>2, <1>13 DEF SCSI_ProcessCmd
  <2> HIDE DEF Noticed
  <2> QED BY <1>1, <1>3, <1>7, <2>1
<1> QED BY <1>8, <1>9, <1>10, <1>11, <1>12, <1>13 DEF IsTransfer

(* A new command of the host: it gets its status, or its data or answer first,  *)
(* or, refused with a stalled endpoint, neither.                                *)
LEMMA DecodeStatus ==
    ASSUME NEW d, IsDev(d), IsRing(d.ring), NEW c, NEW h,
           ~d.ring.processing, d.bot_state # "SEND_DATA", d.epIn.what \in {"none", "data"},
           d.epOut = "none", "reset" \notin d.disturbed,
           h.waiting, h.cmd = c, NEW e, e = MSC_BOT_CBW_Decode(d, c)
    PROVE  IsDev(e) /\ IsRing(e.ring) /\ StatusOk(e, h) /\ d.disturbed \subseteq e.disturbed
<1> DEFINE Good(x) == /\ IsDev(x) /\ IsRing(x.ring) /\ StatusOk(x, h)
                      /\ d.disturbed \subseteq x.disturbed
<1>1. PICK b : Noted(d, c, b) /\ (AtOnce(b, c, e) \/ Starts(b, c, e))
  BY DecodeWays
<1>2. /\ IsDev(b) /\ IsRing(b.ring) /\ ~b.ring.processing /\ b.bot_state # "SEND_DATA"
      /\ b.epIn.what \in {"none", "data"} /\ b.epOut = "none" /\ "reset" \notin b.disturbed
      /\ b.disturbed = d.disturbed /\ b.tag = c.tag /\ b.cbw = c
  BY <1>1 DEF Noted, Changes, Fields
<1>3. CASE AtOnce(b, c, e)
  <2>1. IsDev(e) /\ e.ring = b.ring
    BY <1>3 DEF AtOnce, Changes, Fields, Transport
  <2>2. e.tag = c.tag /\ "reset" \notin e.disturbed /\ d.disturbed \subseteq e.disturbed
    BY <1>2, <1>3 DEF AtOnce
  <2>3. CASE Stalls(b, c, e)
    BY <1>2, <2>1, <2>2, <2>3 DEF Stalls, StatusOk
  <2>4. CASE Concludes(c, e)
    BY <1>2, <2>1, <2>2, <2>4 DEF Concludes, StatusOk
  <2>5. CASE Answers(b, c, e)
    BY <1>2, <2>1, <2>2, <2>5 DEF Answers, StatusOk
  <2> QED BY <1>3, <2>3, <2>4, <2>5 DEF AtOnce
<1>4. CASE Starts(b, c, e)
  <2>1. PICK x : StartTransfer(b, c) = RunStages(x) /\ Readied(b, c, x)
    BY <1>2, TransferSet
  <2>2. /\ Changes(b, x, TransferFields)
        /\ x.bot_state # "SEND_DATA"
        /\ x.ring = bufferFIFO_start([b.ring EXCEPT !.numStages = StageCount(c.lun)],
                                     Smaller(c.len, BufSectors))
        /\ "reset" \notin x.disturbed /\ d.disturbed \subseteq x.disturbed
    BY <1>2, <2>1 DEF Readied
  <2>3. IsRing(x.ring)
    BY <1>2, <2>2, StartRing
  <2> DEFINE z == RunStages(x)
  <2>4. /\ Changes(x, z, Launching \cup {"ring"})
        /\ z.epIn = x.epIn \/ z.epIn.what = "data"
        /\ z.epOut = x.epOut \/ z.epOut = "data"
        /\ z.ring = [x.ring EXCEPT !.exec = {}]
    BY <2>2, <2>3, RunChanges DEF Changes
  <2> HIDE DEF z
  <2>5. IsRing(z.ring)
    BY <2>3, <2>4 DEF IsRing, RingFields
  <2>6. /\ x.epIn.what \in {"none", "data"} /\ x.epOut = "none" /\ x.tag = c.tag /\ x.cbw = c
    BY <1>2, <2>2 DEF Changes, Fields, TransferFields
  <2>7. Good(z)
    BY <1>2, <1>4, <2>2, <2>4, <2>5, <2>6 DEF Changes, Launching, Fields, StatusOk, Starts
  <2> QED BY <1>4, <2>1, <2>7 DEF z, Starts
<1> QED BY <1>1, <1>3, <1>4

(* Most steps change nothing the host can see. *)
SameStatus(d, e) ==
    /\ IsDev(e) /\ IsRing(e.ring)
    /\ e.ring.processing = d.ring.processing
    /\ ("reset" \in e.disturbed) = ("reset" \in d.disturbed)
    /\ d.disturbed \subseteq e.disturbed
    /\ e.tag = d.tag /\ e.cbw = d.cbw /\ e.bot_state = d.bot_state
    /\ e.epIn = d.epIn /\ e.epOut = d.epOut

LEMMA SameKeepsStatus ==
    ASSUME NEW d, NEW e, NEW h, StatusOk(d, h), SameStatus(d, e)
    PROVE  StatusOk(e, h)
BY DEF StatusOk, SameStatus

LEMMA SameTwice ==
    ASSUME NEW c, NEW d, NEW e, SameStatus(c, d), SameStatus(d, e)
    PROVE  SameStatus(c, e)
BY DEF SameStatus

Seen == {"tag", "cbw", "bot_state", "epIn", "epOut", "ring", "disturbed"}

LEMMA UnseenSame ==
    ASSUME NEW d, IsDev(d), IsRing(d.ring), NEW S, S \cap Seen = {}, NEW e, Changes(d, e, S)
    PROVE  SameStatus(d, e)
BY DEF SameStatus, Changes, Seen, Fields

LEMMA StallAtEndSame ==
    ASSUME NEW d, IsDev(d), IsRing(d.ring)
    PROVE  SameStatus(d, StallAtEnd(d))
<1> DEFINE p == bufferFIFO_stallStage(d.ring, d.mmcStageIdx)
           e == [d EXCEPT !.ring = p]
<1>1. SameStatus(d, d)
  BY DEF SameStatus
<1>2. IsRing(p) /\ p.processing = d.ring.processing
  BY StallRing
<1>3. StallAtEnd(d) = d \/ StallAtEnd(d) = e
  BY DEF StallAtEnd, Stall
<1> HIDE DEF p
<1>4. Changes(d, e, {"ring"}) /\ e.ring = p
  BY DEF Changes, IsDev, Fields
<1> HIDE DEF e
<1>5. SameStatus(d, e)
  BY <1>2, <1>4 DEF SameStatus, Changes, Fields
<1> QED BY <1>1, <1>3, <1>5

LEMMA CountedChanges ==
    ASSUME NEW d, IsDev(d)
    PROVE  Changes(d, Counted(d), {"mmcDataToTransfer", "mmcBlockAddr"})
BY DEF Changes, IsDev, Fields, Counted

LEMMA ContChanges ==
    ASSUME NEW d, IsDev(d)
    PROVE  Changes(d, HAL_MMC_WriteBlocks_DMA_Cont(d), {"op"})
BY DEF Changes, IsDev, Fields, HAL_MMC_WriteBlocks_DMA_Cont

LEMMA OwnedChanges ==
    ASSUME IsDev(dev), NEW f
    PROVE  /\ Changes(dev, Taken(f), {"cplt"})
           /\ Changes(dev, Owned(f), {"cplt", "fault"})
<1>1. Changes(dev, Taken(f), {"cplt"})
  BY DEF Changes, IsDev, Fields, Taken
<1>2. Changes(dev, Owned(f), {"cplt", "fault"})
  BY DEF Changes, IsDev, Fields, Taken, Owned, Fault
<1> QED BY <1>1, <1>2

(* The steps of the main loop that attend to a completion. *)
LEMMA TakenSame ==
    ASSUME IsDev(dev), IsRing(dev.ring), NEW f
    PROVE  /\ SameStatus(dev, Taken(f)) /\ SameStatus(dev, Owned(f))
           /\ SameStatus(dev, emmc_user_read_storage_rx_complete(Owned(f)))
           /\ SameStatus(dev, emmc_user_write_storage_tx_complete(Owned(f)))
           /\ SameStatus(dev, emmc_user_write_storage_tx_dma_complete(Owned(f)))
           /\ SameStatus(dev, HAL_MMC_WriteBlocks_DMA_Cont(Owned(f)))
           /\ \A g : SameStatus(dev, [Owned(f) EXCEPT !.cplt = @ \cup {g}])
<1> DEFINE o == Owned(f)
           c == Counted(o)
<1>1. Changes(dev, Taken(f), {"cplt"}) /\ Changes(dev, o, {"cplt", "fault"})
  BY OwnedChanges
<1>2. SameStatus(dev, Taken(f))
  BY <1>1, UnseenSame DEF Seen
<1> HIDE DEF o
<1>3. SameStatus(dev, o)
  BY <1>1, UnseenSame DEF Seen
<1>4. IsDev(o) /\ IsRing(o.ring)
  BY <1>3 DEF SameStatus
<1>5. Changes(o, c, {"mmcDataToTransfer", "mmcBlockAddr"})
  BY <1>4, CountedChanges
<1>6. /\ Changes(o, HAL_MMC_WriteBlocks_DMA_Cont(o), {"op"})
      /\ SameStatus(o, StallAtEnd(o))
  BY <1>4, ContChanges, StallAtEndSame
<1>7. SameStatus(o, HAL_MMC_WriteBlocks_DMA_Cont(o))
  BY <1>4, <1>6, UnseenSame DEF Seen
<1> HIDE DEF c
<1>8. SameStatus(o, c)
  BY <1>4, <1>5, UnseenSame DEF Seen
<1>9. IsDev(c) /\ IsRing(c.ring)
  BY <1>8 DEF SameStatus
<1>10. /\ Changes(c, HAL_MMC_WriteBlocks_DMA_Cont(c), {"op"})
       /\ SameStatus(c, StallAtEnd(c))
  BY <1>9, ContChanges, StallAtEndSame
<1>11. SameStatus(c, HAL_MMC_WriteBlocks_DMA_Cont(c))
  BY <1>9, <1>10, UnseenSame DEF Seen
<1>12. SameStatus(dev, c)
  BY <1>3, <1>8, SameTwice
<1>13. ASSUME NEW g
       PROVE  SameStatus(dev, [o EXCEPT !.cplt = @ \cup {g}])
  <2>1. Changes(o, [o EXCEPT !.cplt = @ \cup {g}], {"cplt"})
    BY <1>4 DEF Changes, IsDev, Fields
  <2>2. SameStatus(o, [o EXCEPT !.cplt = @ \cup {g}])
    BY <1>4, <2>1, UnseenSame DEF Seen
  <2> QED BY <1>3, <2>2, SameTwice
<1>14. /\ SameStatus(dev, StallAtEnd(c)) /\ SameStatus(dev, StallAtEnd(o))
       /\ SameStatus(dev, HAL_MMC_WriteBlocks_DMA_Cont(c))
       /\ SameStatus(dev, HAL_MMC_WriteBlocks_DMA_Cont(o))
  BY <1>3, <1>6, <1>7, <1>10, <1>11, <1>12, SameTwice
<1> QED BY <1>2, <1>3, <1>13, <1>14
  DEF o, c, emmc_user_read_storage_rx_complete, emmc_user_write_storage_tx_complete,
      emmc_user_write_storage_tx_dma_complete

LEMMA StatusInitially == Init => StatusInv
<1> SUFFICES ASSUME Init
             PROVE  StatusInv
  OBVIOUS
<1>1. IsDev(dev)
  BY DEF Init, IsDev, Fields
<1>2. /\ dev.ring = ZeroedFifo /\ dev.disturbed = {}
      /\ dev.bot_state = "IDLE" /\ dev.epIn.what = "none"
  BY DEF Init
<1>3. IsRing(dev.ring) /\ ~dev.ring.processing
  <2> DEFINE b == ZeroedFifo
  <2>1. b = [f \in RingFields |-> b[f]]
    BY DEF ZeroedFifo, RingFields
  <2>2. b.processing = FALSE
    BY DEF ZeroedFifo
  <2> HIDE DEF b
  <2>3. IsRing(b) /\ ~b.processing
    BY <2>1, <2>2 DEF IsRing
  <2> QED BY <1>2, <2>3 DEF b
<1>4. IsHost(host)
  BY DEF Init, IsHost, HostFields
<1> QED BY <1>1, <1>2, <1>3, <1>4 DEF StatusInv, StatusOk

(* The steps that change the host. *)
LEMMA OnlyHostSteps ==
    ASSUME [Next]_vars
    PROVE  host' = host \/ SendCommand \/ HostExchange \/ ResetRecovery
<1>1. CASE Hardware
  BY <1>1 DEF Hardware, ReadEnds, WriteDmaEnds, WriteEnds, CryptEnds
<1>2. CASE MainLoop
  BY <1>2 DEF MainLoop, ReadComplete, WriteDmaComplete, WriteComplete, DbComplete,
              CryptComplete, emmc_user_done, TestNone, PickDb, PickStorage, Assign,
              ClearReady, Start, RingAfter, DbAfter, MainOnly
<1>3. CASE DbFromMain \/ DbFromInterrupt \/ usbd_scsi_device_state_change
  BY <1>3 DEF DbFromMain, DbFromInterrupt, usbd_scsi_device_state_change, MainOnly
<1>4. CASE UNCHANGED vars
  BY <1>4 DEF vars
<1> QED BY <1>1, <1>2, <1>3, <1>4 DEF Next

LEMMA HostStays ==
    ASSUME IsHost(host), [Next]_vars
    PROVE  IsHost(host')
<1>1. CASE host' = host
  BY <1>1
<1>2. CASE SendCommand \/ HostExchange \/ ResetRecovery
  BY <1>2 DEF IsHost, HostFields, SendCommand, HostExchange, SendData, SendUnwantedData,
             ReceiveData, ReceiveStatus, ClearHalt, ResetRecovery
<1> QED BY <1>1, <1>2, OnlyHostSteps

LEMMA StatusStep ==
    StatusInv /\ [Next]_vars => StatusInv' /\ dev.disturbed \subseteq dev'.disturbed
<1> DEFINE Good == StatusInv' /\ dev.disturbed \subseteq dev'.disturbed
<1> SUFFICES ASSUME StatusInv, [Next]_vars
             PROVE  Good
  OBVIOUS
<1>1. IsDev(dev) /\ IsRing(dev.ring) /\ IsHost(host) /\ StatusOk(dev, host)
  BY DEF StatusInv
<1>host. IsHost(host')
  BY HostStays, <1>1
<1>2. ASSUME IsDev(dev'), IsRing(dev'.ring), StatusOk(dev', host'),
             dev.disturbed \subseteq dev'.disturbed
      PROVE  Good
  BY <1>host, <1>2 DEF StatusInv
<1>3. ASSUME SameStatus(dev, dev'), host' = host
      PROVE  Good
  BY <1>1, <1>2, <1>3, SameKeepsStatus DEF SameStatus
<1>4. ASSUME NEW S, S \cap Seen = {}, Changes(dev, dev', S), host' = host
      PROVE  Good
  BY <1>1, <1>3, <1>4, UnseenSame
<1>5. ASSUME Sends(dev, dev'), host' = host
      PROVE  Good
  BY <1>1, <1>2, <1>5, SendsKeepsStatus DEF Sends
<1>6. CASE UNCHANGED vars
  <2>1. SameStatus(dev, dev') /\ host' = host
    BY <1>1, <1>6 DEF vars, SameStatus
  <2> QED BY <1>3, <2>1
<1>7. CASE Hardware
  <2>1. Changes(dev, dev', {"op", "cplt", "crypt", "g_cryptOutInt"}) /\ host' = host
    BY <1>1, <1>7
    DEF Hardware, ReadEnds, WriteDmaEnds, WriteEnds, CryptEnds, Flag, Changes, IsDev, Fields
  <2> QED BY <1>4, <2>1 DEF Seen
<1>8. CASE MainLoop
  <2>1. CASE ReadComplete \/ WriteDmaComplete \/ WriteComplete \/ DbComplete
    <3>1. SameStatus(dev, dev')
      BY <1>1, <2>1, TakenSame DEF ReadComplete, WriteDmaComplete, WriteComplete, DbComplete
    <3>2. host' = host
      BY <2>1 DEF ReadComplete, WriteDmaComplete, WriteComplete, DbComplete, MainOnly
    <3> QED BY <1>3, <3>1, <3>2
  <2>2. CASE CryptComplete
    <3>1. Sends(dev, dev') /\ host' = host
      BY <1>1, <2>2, CryptSends DEF CryptComplete, MainOnly
    <3> QED BY <1>5, <3>1
  <2>3. CASE emmc_user_done \/ TestNone \/ PickDb \/ PickStorage \/ ClearReady
    <3>1. Changes(dev, dev', {"g_emmc_user", "ready"}) /\ host' = host
      BY <1>1, <2>3 DEF emmc_user_done, TestNone, PickDb, PickStorage, ClearReady, MainOnly,
                        Changes, IsDev, Fields
    <3> QED BY <1>4, <3>1 DEF Seen
  <2>4. CASE Assign
    <3>1. Changes(dev, dev', {"g_emmc_user", "disturbed"}) /\ host' = host
      BY <1>1, <2>4 DEF Assign, MainOnly, Changes, IsDev, Fields
    <3>2. /\ ("reset" \in dev'.disturbed) = ("reset" \in dev.disturbed)
          /\ dev.disturbed \subseteq dev'.disturbed
      BY <1>1, <2>4 DEF Assign, IsDev, Fields
    <3>3. SameStatus(dev, dev')
      BY <1>1, <3>1, <3>2 DEF SameStatus, Changes, Fields
    <3> QED BY <1>3, <3>1, <3>3
  <2>5. CASE Start
    <3>1. Changes(dev, dev', {"op"}) /\ host' = host
      BY <1>1, <2>5, UserStartChanges DEF Start, MainOnly
    <3> QED BY <1>4, <3>1 DEF Seen
  <2>6. CASE RingAfter
    <3>1. Sends(dev, dev') /\ host' = host
      BY <1>1, <2>6, CompleteSends DEF RingAfter, MainOnly
    <3> QED BY <1>5, <3>1
  <2>7. CASE DbAfter
    <3> DEFINE none == [dev EXCEPT !.g_db_action = "none"]
               next == [dev EXCEPT !.g_db_action = "write"]
    <3>1. dev' = none \/ dev' = MarkReady(next, "DB")
      BY <2>7 DEF DbAfter
    <3>2. Changes(dev, none, {"g_db_action"}) /\ Changes(dev, next, {"g_db_action"})
      BY <1>1 DEF Changes, IsDev, Fields
    <3> HIDE DEF none, next
    <3>3. Changes(next, MarkReady(next, "DB"), {"fault", "ready"})
      BY <3>2, MarkChanges DEF Changes
    <3>4. Changes(dev, dev', {"g_db_action", "fault", "ready"}) /\ host' = host
      BY <2>7, <3>1, <3>2, <3>3 DEF Changes, DbAfter
    <3> QED BY <1>4, <3>4 DEF Seen
  <2> QED BY <1>8, <2>1, <2>2, <2>3, <2>4, <2>5, <2>6, <2>7 DEF MainLoop
<1>9. CASE DbFromMain \/ DbFromInterrupt
  <2>1. PICK action \in {"read", "write"} :
          LET c == [dev EXCEPT !.g_db_action = action]
          IN dev' = MarkReady(c, "DB") \/ dev' = emmc_user_queue(c, "DB")
    BY <1>9 DEF DbFromMain, DbFromInterrupt
  <2> DEFINE c == [dev EXCEPT !.g_db_action = action]
  <2>2. Changes(dev, c, {"g_db_action"})
    BY <1>1 DEF Changes, IsDev, Fields
  <2>3. dev' = MarkReady(c, "DB") \/ dev' = emmc_user_queue(c, "DB")
    BY <2>1
  <2> HIDE DEF c
  <2>4. /\ Changes(c, MarkReady(c, "DB"), {"fault", "ready"})
        /\ Changes(c, emmc_user_queue(c, "DB"), Scheduling \cup {"fault"})
    BY <2>2, MarkChanges, QueueChanges DEF Changes
  <2>5. Changes(dev, dev', Scheduling \cup {"g_db_action", "fault"})
    BY <2>2, <2>3, <2>4 DEF Changes, Scheduling
  <2>6. host' = host
    BY <1>9 DEF DbFromMain, DbFromInterrupt
  <2> QED BY <1>4, <2>5, <2>6 DEF Seen, Scheduling
<1>10. CASE usbd_scsi_device_state_change
  <2>1. Changes(dev, dev', {"visible"}) /\ host' = host
    BY <1>1, <1>10 DEF usbd_scsi_device_state_change, MainOnly, Changes, IsDev, Fields
  <2> QED BY <1>4, <2>1 DEF Seen
<1>11. CASE SendCommand
  <2>1. PICK c \in Commands :
          LET cmd == [c EXCEPT !.tag = host.cmd.tag + 1]
          IN /\ Running /\ ~host.waiting
             /\ dev.epOut = "cbw" /\ ~dev.stalledOut /\ "reset" \notin dev.disturbed
             /\ dev' = MSC_BOT_CBW_Decode([dev EXCEPT !.epOut = "none"], cmd)
             /\ host' = [waiting |-> TRUE, cmd |-> cmd, sent |-> 0, got |-> <<>>]
    BY <1>11 DEF SendCommand
  <2> DEFINE cmd == [c EXCEPT !.tag = host.cmd.tag + 1]
             d == [dev EXCEPT !.epOut = "none"]
  <2>2. dev' = MSC_BOT_CBW_Decode(d, cmd)
    BY <2>1
  <2>3. Changes(dev, d, {"epOut"}) /\ d.epOut = "none"
    BY <1>1 DEF Changes, IsDev, Fields
  <2>4. host'.waiting /\ host'.cmd = cmd
    BY <2>1
  <2> HIDE DEF d, cmd
  <2>5. /\ IsDev(d) /\ IsRing(d.ring) /\ ~d.ring.processing /\ d.bot_state # "SEND_DATA"
        /\ d.epIn.what \in {"none", "data"} /\ "reset" \notin d.disturbed
        /\ d.disturbed = dev.disturbed
    BY <1>1, <2>1, <2>3 DEF Changes, Fields, StatusOk
  <2>6. /\ IsDev(dev') /\ IsRing(dev'.ring) /\ StatusOk(dev', host')
        /\ dev.disturbed \subseteq dev'.disturbed
    BY <2>2, <2>3, <2>4, <2>5, DecodeStatus
  <2> QED BY <1>2, <2>6
<1>12. CASE HostExchange
  <2>1. CASE SendData
    <3> DEFINE d == [dev EXCEPT !.epOut = "none"]
    <3>1. /\ dev' = MSC_BOT_DataOut(d) /\ dev.epOut = "data"
          /\ host'.waiting = host.waiting /\ host'.cmd = host.cmd
      <4>1. host' = [host EXCEPT !.sent = Smaller(@ + dev.writeLen, host.cmd.data)]
        BY <2>1 DEF SendData
      <4> QED BY <2>1, <4>1 DEF SendData
    <3>2. Changes(dev, d, {"epOut"}) /\ d.epOut = "none"
      BY <1>1 DEF Changes, IsDev, Fields
    <3> HIDE DEF d
    <3>3. /\ IsDev(d) /\ IsRing(d.ring) /\ StatusOk(d, host')
          /\ d.disturbed = dev.disturbed
      BY <1>1, <3>1, <3>2 DEF Changes, Fields, StatusOk
    <3>4. Sends(d, d) /\ Sends(d, Account(d))
      BY <3>3, AccountSends DEF Sends
    <3>5. Sends(d, dev')
      BY <3>1, <3>4 DEF MSC_BOT_DataOut, SCSI_ProcessWrite
    <3> QED BY <1>2, <3>3, <3>5, SendsKeepsStatus DEF Sends
  <2>2. CASE SendUnwantedData
    <3> DEFINE c == [Command("invalid", 0, 0, 0, FALSE, 0) EXCEPT !.tag = 0]
               d == [dev EXCEPT !.epOut = "none"]
               x == [d EXCEPT !.cbw = c, !.tag = c.tag]
               y == [x EXCEPT !.bot_status = "ERROR"]
    <3>1. /\ dev' = MSC_BOT_CBW_Decode(d, c) /\ dev.epOut = "cbw"
          /\ host' = [host EXCEPT !.sent = @ + 1]
      BY <2>2 DEF SendUnwantedData
    <3>2. dev' = MSC_BOT_Abort(y)
      <4>1. c.kind = "invalid"
        BY DEF Command
      <4> QED BY <3>1, <4>1 DEF MSC_BOT_CBW_Decode
    <3>3. Changes(dev, y, {"epOut", "cbw", "tag", "bot_status"})
      <4> HIDE DEF c
      <4> QED BY <1>1 DEF Changes, IsDev, Fields
    <3> HIDE DEF y
    <3>4. Changes(y, dev', {"stalledIn", "stalledOut", "epOut"})
      BY <3>2, <3>3, Aborted DEF Changes
    <3>5. Changes(dev, dev', {"epOut", "cbw", "tag", "bot_status", "stalledIn", "stalledOut"})
      BY <3>3, <3>4 DEF Changes
    <3>6. host'.waiting = host.waiting /\ host'.cmd = host.cmd
      BY <3>1
    <3>7. /\ IsDev(dev') /\ IsRing(dev'.ring) /\ StatusOk(dev', host')
          /\ dev.disturbed \subseteq dev'.disturbed
      BY <1>1, <3>1, <3>5, <3>6 DEF Changes, Fields, StatusOk
    <3> QED BY <1>2, <3>7
  <2>3. CASE ReceiveData \/ ReceiveStatus
    <3>1. /\ dev' = MSC_BOT_DataIn(Sent) /\ host'.cmd = host.cmd
          /\ dev.epIn.what \in {"data", "response"} => host'.waiting = host.waiting
          /\ dev.epIn.what = "csw" \/ dev.epIn.what \in {"data", "response"}
          /\ dev.epIn.what = "csw" => ~host'.waiting
      <4>1. CASE ReceiveData
        <5>1. \/ host' = host
              \/ host' = [host EXCEPT !.got =
                       @ \o [i \in 1 .. dev.epIn.len |-> content[dev.epIn.buf][i]]]
          BY <4>1 DEF ReceiveData
        <5>2. host'.cmd = host.cmd /\ host'.waiting = host.waiting
          BY <1>1, <5>1 DEF IsHost, HostFields
        <5> QED BY <4>1, <5>2 DEF ReceiveData
      <4>2. CASE ReceiveStatus
        BY <4>2 DEF ReceiveStatus
      <4> QED BY <2>3, <4>1, <4>2
    <3> DEFINE d == Sent
    <3>2. Changes(dev, d, {"epIn"}) /\ d.epIn.what = "none"
      BY <1>1 DEF Sent, Changes, IsDev, Fields
    <3>3. dev' = MSC_BOT_DataIn(d)
      BY <3>1
    <3> HIDE DEF d
    <3>4. IsDev(d) /\ IsRing(d.ring) /\ d.disturbed = dev.disturbed
      BY <1>1, <3>2 DEF Changes, Fields
    <3>5. CASE d.bot_state = "DATA_IN"
      <4>1. StatusOk(d, host')
        BY <1>1, <3>1, <3>2, <3>5 DEF Changes, Fields, StatusOk
      <4> DEFINE x == [d EXCEPT !.g_usb_transmitting = FALSE]
      <4>2. dev' = Account(x) \/ dev' = d
        BY <3>3, <3>5 DEF MSC_BOT_DataIn, SCSI_ProcessRead
      <4>3. Changes(d, x, {"g_usb_transmitting"})
        BY <3>4 DEF Changes, IsDev, Fields
      <4> HIDE DEF x
      <4>4. Sends(x, Account(x))
        BY <3>4, <4>3, AccountSends DEF Changes, Fields
      <4>5. Sends(d, Account(x)) /\ Sends(d, d)
        BY <3>4, <4>3, <4>4, SendsAfter DEF Changes, Fields, Sends
      <4>6. Sends(d, dev')
        BY <4>2, <4>5
      <4> QED BY <1>2, <3>4, <4>1, <4>6, SendsKeepsStatus DEF Sends
    <3>6. CASE d.bot_state = "SEND_DATA"
      <4>1. dev' = MSC_BOT_SendCSW(d, TRUE)
        BY <3>3, <3>6 DEF MSC_BOT_DataIn
      <4>2. /\ Changes(d, dev', {"bot_state", "epIn", "epOut", "fault"})
            /\ dev'.bot_state = "IDLE" /\ dev'.epIn = Csw(d, TRUE)
        BY <3>4, <4>1, CswSent
      <4>3. dev'.epIn.what = "csw" /\ dev'.epIn.tag = d.tag
        BY <4>2 DEF Csw
      <4>4. /\ "reset" \notin dev.disturbed /\ dev.bot_state = "SEND_DATA"
            /\ d.disturbed = dev.disturbed /\ d.ring = dev.ring /\ d.tag = dev.tag
        BY <1>1, <2>3, <3>2, <3>6
        DEF Changes, Fields, StatusOk, ReceiveData, ReceiveStatus, Polling
      <4>5. host'.waiting /\ ~dev.ring.processing /\ dev.tag = host.cmd.tag
        BY <1>1, <3>1, <4>4 DEF StatusOk
      <4>6. /\ dev'.ring = d.ring /\ dev'.disturbed = d.disturbed /\ IsDev(dev')
        BY <4>2 DEF Changes, Fields
      <4>7. /\ IsDev(dev') /\ IsRing(dev'.ring) /\ StatusOk(dev', host')
            /\ dev.disturbed \subseteq dev'.disturbed
        BY <3>1, <3>4, <4>2, <4>3, <4>4, <4>5, <4>6 DEF StatusOk
      <4> QED BY <1>2, <4>7
    <3>7. CASE d.bot_state \notin {"DATA_IN", "SEND_DATA"}
      <4>1. dev' = d
        BY <3>3, <3>7 DEF MSC_BOT_DataIn
      <4>2. StatusOk(d, host')
        BY <1>1, <3>1, <3>2, <3>7 DEF Changes, Fields, StatusOk
      <4> QED BY <1>2, <3>4, <4>1, <4>2
    <3> QED BY <3>5, <3>6, <3>7
  <2>4. CASE ClearHalt
    <3>1. Changes(dev, dev', {"stalledIn", "stalledOut"})
      BY <1>1, <2>4 DEF ClearHalt, Changes, IsDev, Fields
    <3>2. host' = host \/ host' = [host EXCEPT !.sent = host.cmd.data]
      BY <2>4 DEF ClearHalt
    <3>3. host'.waiting = host.waiting /\ host'.cmd = host.cmd
      BY <1>1, <3>2 DEF IsHost, HostFields
    <3>4. /\ IsDev(dev') /\ IsRing(dev'.ring) /\ StatusOk(dev', host')
          /\ dev.disturbed \subseteq dev'.disturbed
      BY <1>1, <3>1, <3>3 DEF Changes, Fields, StatusOk
    <3> QED BY <1>2, <3>4
  <2> QED BY <1>12, <2>1, <2>2, <2>3, <2>4 DEF HostExchange
<1>13. CASE ResetRecovery
  <2>1. Changes(dev, MSC_BOT_Reset(dev), {"bot_state", "bot_status", "epOut"})
    BY <1>1 DEF Changes, IsDev, Fields, MSC_BOT_Reset, USBD_LL_PrepareReceive
  <2>2. MSC_BOT_Reset(dev).bot_state = "IDLE"
    BY <1>1 DEF IsDev, Fields, MSC_BOT_Reset, USBD_LL_PrepareReceive
  <2> DEFINE e == MSC_BOT_Reset(dev)
             more == IF host.waiting THEN e.disturbed \cup {"reset"} ELSE e.disturbed
  <2>3. dev' = [e EXCEPT !.stalledIn = FALSE, !.stalledOut = FALSE, !.disturbed = more]
    BY <1>13, <2>1 DEF ResetRecovery, Changes, IsDev, Fields
  <2>4. host' = [host EXCEPT !.waiting = FALSE, !.sent = 0, !.got = <<>>]
    BY <1>13 DEF ResetRecovery
  <2> HIDE DEF e
  <2>5. /\ Changes(dev, e, {"bot_state", "bot_status", "epOut"}) /\ e.bot_state = "IDLE"
    BY <2>1, <2>2 DEF e
  <2>6. Changes(e, dev', {"stalledIn", "stalledOut", "disturbed"}) /\ dev'.disturbed = more
    <3> HIDE DEF more
    <3> QED BY <2>3, <2>5 DEF Changes, IsDev, Fields
  <2>7. e.disturbed = dev.disturbed
    BY <2>5 DEF Changes, Fields
  <2>8. IsDev(dev') /\ IsRing(dev'.ring) /\ ~host'.waiting
    BY <1>1, <2>4, <2>5, <2>6 DEF Changes, Fields
  <2>9. StatusOk(dev', host')
    BY <1>1, <2>5, <2>6, <2>7, <2>8 DEF Changes, Fields, StatusOk
  <2>10. dev.disturbed \subseteq dev'.disturbed
    BY <2>6, <2>7
  <2> QED BY <1>2, <2>8, <2>9, <2>10
<1> QED BY <1>6, <1>7, <1>8, <1>9, <1>10, <1>11, <1>12, <1>13 DEF Next

(* The status the device sends is that of the command the host waits for, also  *)
(* when refused data was taken for commands (MSC_BOT_SendCSW, csw.dTag).        *)
THEOREM Statuses == Spec => []StatusIsMine
<1>1. Init => StatusInv
  BY StatusInitially
<1>2. StatusInv /\ [Next]_vars => StatusInv'
  BY StatusStep
<1>3. StatusInv => StatusIsMine
  BY DEF StatusInv, StatusOk, StatusIsMine, StatusPending
<1> QED BY <1>1, <1>2, <1>3, PTL DEF Spec

------------------------------------------------------------------------------
(* No fault: what relates the stages of a transfer, the peripherals and the     *)
(* main loop, while the race of emmc_user_queue is not lost.                    *)

(* The sectors each stage has left, and the length it is moving: what the ring  *)
(* of BufferFifo keeps in `left' and `len'. The writer of the card counts a     *)
(* buffer as soon as the card has the data, before the card is done.            *)
MmcStage(d) == IF d.reading THEN 0 ELSE LastStage(d)
UsbStage(d) == IF d.reading THEN LastStage(d) ELSE 0

CountedAhead(d) ==
    IF d.g_emmc_user = "STORAGE" /\ (d.op.kind = "write_data" \/ "tx" \in d.cplt)
      THEN d.mmcReadLen ELSE 0

StageLeft(d) ==
    [s \in StageIdx |-> IF s = MmcStage(d) THEN d.mmcDataToTransfer + CountedAhead(d)
                        ELSE IF s = UsbStage(d) THEN d.scsi_blk_len
                        ELSE IF s = 1 THEN d.crypt.toTransfer ELSE 0]
StageLen(d) ==
    [s \in StageIdx |-> IF s = MmcStage(d) THEN d.mmcReadLen
                        ELSE IF s = UsbStage(d) THEN d.writeLen
                        ELSE IF s = 1 THEN d.crypt.txLen ELSE 0]
Finishing(d, m) == IF m.after = "ring" THEN {MmcStage(d)} ELSE {}

F == INSTANCE BufferFifoProofs WITH
       MaxBufferSize <- BufSectors, MaxTransfer <- 1, StageCounts <- {2, 3},
       bf <- dev.ring, total <- dev.cbw.len, left <- StageLeft(dev),
       len <- StageLen(dev), finishing <- Finishing(dev, main), content <- content

Doing(d) == d.op # NoOp \/ d.cplt # {}
Operations ==
    [kind : {"read", "write", "write_wait", "write_data"}, addr : Nat, len : Nat, buf : Int]
Crypts == [stageIdx : Nat, txLen : Nat, left : Nat, from : Nat, to : Nat,
           running : BOOLEAN, toTransfer : Nat, sector : Nat]
Users == {"NONE", "DB", "STORAGE"}

DevType(d) ==
    /\ d.g_emmc_user \in Users /\ d.ready \subseteq {"DB", "STORAGE"}
    /\ d.op \in Operations \cup {NoOp}
    /\ d.g_db_action \in {"none", "read", "write"}
    /\ d.scsi_blk_len \in Nat /\ d.writeLen \in Nat /\ d.mmcReadLen \in Nat
    /\ d.mmcBlockAddr \in Nat /\ d.mmcDataToTransfer \in Nat
    /\ d.mmcBuffer \in Buffers
    /\ d.crypt \in Crypts /\ d.g_cryptOutInt \in BOOLEAN
    /\ d.reading \in BOOLEAN
    /\ d.cbw.len \in Nat
    /\ d.ring \in FifoStruct

CardOk(d) ==
    /\ \/ d.op = NoOp /\ d.cplt \in {{}, {"rx"}, {"tx"}}
       \/ d.op = NoOp /\ d.g_emmc_user = "DB" /\ d.cplt \in {{"read_db"}, {"write_db"}}
       \/ d.op.kind \in {"read", "write", "write_data"} /\ d.cplt = {}
       \/ d.op.kind = "write_wait" /\ d.cplt = {"tx_dma"}
    /\ Doing(d) => d.g_emmc_user # "NONE"
    /\ d.op # NoOp => (d.op.buf = -1 <=> d.g_emmc_user = "DB")
    /\ d.g_emmc_user = "STORAGE" =>
         /\ d.op # NoOp =>
              /\ d.reading <=> d.op.kind = "read"
              /\ d.op.len = d.mmcReadLen /\ d.op.buf = d.mmcBuffer
         /\ "rx" \in d.cplt => d.reading
         /\ "tx" \in d.cplt \/ "tx_dma" \in d.cplt => ~d.reading
         /\ d.op.kind \in {"write_wait", "write_data"} \/ d.cplt # {} => d.mmcReadLen > 0

MainType(m) ==
    m \in [pc : {"loop", "done", "test", "pick_db", "pick_storage", "assign", "clear",
                 "start", "after"},
           user : Users, after : {"none", "ring", "db"}]

MainOk(d, m) ==
    /\ m.pc = "loop" => m = Idle
    /\ m.pc = "after" => m.after # "none"
    /\ m.pc \in {"assign", "clear", "start"} => m.user # "NONE"
    /\ m.pc = "assign" /\ d.g_emmc_user = "NONE" => m.user \in d.ready
    /\ m.pc \in {"clear", "start"} =>
         d.g_emmc_user = m.user /\ (m.pc = "clear" <=> m.user \in d.ready)
    /\ m.pc = "done" => \/ m.after = "ring" /\ d.g_emmc_user = "STORAGE"
                        \/ m.after = "db" /\ d.g_emmc_user = "DB"
    /\ m.pc \in {"clear", "start", "done"} => ~Doing(d)
    /\ d.g_emmc_user \in d.ready => m.pc = "clear"
    /\ m.after = "ring" => "STORAGE" \notin d.ready /\ (d.g_emmc_user = "STORAGE" => m.pc = "done")
    /\ m.after = "db" => "DB" \notin d.ready /\ (d.g_emmc_user = "DB" => m.pc = "done")
    /\ d.g_db_action = "none" =>
         "DB" \notin d.ready /\ d.g_emmc_user # "DB" /\ m.after # "db"

MmcBusy(d, m) == "STORAGE" \in d.ready \/ d.g_emmc_user = "STORAGE" \/ m.after = "ring"
UsbBusy(d) == d.epIn.what = "data" \/ d.epOut = "data"
CryptBusy(d) == d.crypt.running \/ d.g_cryptOutInt

MmcOk(d, m) ==
    MmcBusy(d, m) =>
         /\ d.ring.processing /\ d.mmcStageIdx = MmcStage(d)
         /\ m.after # "ring" => d.ring.stageProcessing[MmcStage(d)]
UsbOk(d) ==
    /\ UsbBusy(d) =>
         /\ d.ring.processing /\ d.ring.stageProcessing[UsbStage(d)]
         /\ d.stageIdx = UsbStage(d)
    /\ d.epIn.what = "data" => d.reading /\ d.g_usb_transmitting
    /\ d.epOut = "data" => ~d.reading
CryptOk(d) ==
    CryptBusy(d) =>
         /\ d.ring.processing /\ d.ring.numStages = 3 /\ d.ring.stageProcessing[1]
         /\ d.crypt.stageIdx = 1 /\ d.crypt.left \in 1 .. d.crypt.txLen
         /\ ~(d.crypt.running /\ d.g_cryptOutInt)

BotOk(d) ==
    /\ d.bot_state \in {"DATA_IN", "DATA_OUT"} =>
          d.ring.processing /\ (d.reading <=> d.bot_state = "DATA_IN")
    /\ d.ring.processing => /\ d.epIn.what \in {"none", "data"}
                            /\ d.ring.numStages \in {2, 3}

Base(d, m) ==
    /\ IsDev(d) /\ DevType(d) /\ CardOk(d) /\ MainType(m) /\ MainOk(d, m)
    /\ MmcOk(d, m) /\ UsbOk(d) /\ CryptOk(d) /\ BotOk(d)

RingOk(d, m) ==
    IF ~d.ring.processing THEN \A s \in StageIdx : ~d.ring.stageProcessing[s]
    ELSE IF d.cbw.len > 0
      THEN F!RingInv(d.ring, d.cbw.len, StageLeft(d), StageLen(d), Finishing(d, m))
      ELSE /\ \A s \in StageIdx : d.ring.stageProcessing[s] <=> s = 0
           /\ StageLen(d)[0] = 0 /\ m.after # "ring"

HostOk(h) == h.sent \in Nat /\ h.cmd.data \in Nat

Undisturbed ==
    /\ Base(dev, main) /\ RingOk(dev, main) /\ HostOk(host) /\ dev.fault = {}

(* The transfer lies within its volume, and so does what the card is doing for  *)
(* it: an operation begins where the sectors that are left begin.               *)
MmcLeft(d) == d.mmcDataToTransfer + CountedAhead(d)
InPlace(d) ==
    d.op # NoOp /\ d.g_emmc_user = "STORAGE"
    => d.op.addr = region_start(d.cbw.lun) + d.cbw.lba + d.cbw.len - MmcLeft(d)

Fits(c) == /\ c.lun \in Luns /\ c.lba \in Nat /\ c.len \in Nat
           /\ c.lba + c.len <= Capacity(c.lun)

VolumeOk(d) ==
    /\ Fits(d.cbw) /\ MmcLeft(d) <= d.cbw.len
    /\ d.mmcBlockAddr = d.cbw.lba + d.cbw.len - d.mmcDataToTransfer
    /\ InPlace(d)

------------------------------------------------------------------------------
(* The facts of BufferFifo, in the words of BufferManager. *)

LEMMA Same ==
    /\ F!FifoStruct = FifoStruct /\ F!StageIdx = StageIdx /\ F!Buffers = Buffers
    /\ \A b, s : F!ReadBuffer(b, s) = ReadBuffer(b, s)
    /\ \A b, s : F!WriteBuffer(b, s) = WriteBuffer(b, s)
    /\ \A b : F!StagesOf(b) = 0 .. b.numStages - 1
    /\ \A x, y : F!Smaller(x, y) = Smaller(x, y)
<1>1. F!MaxStages = MaxStages
  BY DEF F!MaxStages, MaxStages
<1>2. F!StageIdx = StageIdx /\ F!Buffers = Buffers
  BY <1>1 DEF F!StageIdx, StageIdx, F!Buffers, Buffers
<1>3. F!FifoStruct = FifoStruct
  BY <1>1, <1>2 DEF F!FifoStruct, FifoStruct
<1> QED BY <1>2, <1>3
  DEF F!ReadBuffer, ReadBuffer, F!WriteBuffer, WriteBuffer, F!StagesOf, F!Smaller, Smaller

LEMMA SameOperations ==
    ASSUME NEW b, NEW s, NEW l
    PROVE  /\ F!bufferFIFO_stallStage(b, s) = bufferFIFO_stallStage(b, s)
           /\ F!bufferFIFO_processingComplete(b, s, l) = bufferFIFO_processingComplete(b, s, l)
           /\ F!bufferFIFO_start(b, l) = bufferFIFO_start(b, l)
<1>1. F!bufferFIFO_stallStage(b, s) = bufferFIFO_stallStage(b, s)
  BY DEF F!bufferFIFO_stallStage, bufferFIFO_stallStage
<1>2. \A c, t : F!bufferFIFO_execStage(c, t) = bufferFIFO_execStage(c, t)
  BY DEF F!bufferFIFO_execStage, bufferFIFO_execStage
<1>3. \A c, t : F!ExecUnlessStalled(c, t) = ExecUnlessStalled(c, t)
  BY <1>2 DEF F!ExecUnlessStalled, ExecUnlessStalled, F!bufferFIFO_stageStalled,
              bufferFIFO_stageStalled
<1>4. \A c : F!DetectCompletion(c) = DetectCompletion(c)
  <2>1. \A c : F!NextStallIndex(c) = NextStallIndex(c)
    BY DEF F!NextStallIndex, NextStallIndex, F!Drained, Drained
  <2> QED BY <2>1 DEF F!DetectCompletion, DetectCompletion
<1>5. F!Advance(b, s, l) = Advance(b, s, l)
  BY Same DEF F!Advance, Advance
<1>6. F!bufferFIFO_processingComplete(b, s, l) = bufferFIFO_processingComplete(b, s, l)
  BY <1>3, <1>4, <1>5 DEF F!bufferFIFO_processingComplete, bufferFIFO_processingComplete
<1>7. F!bufferFIFO_start(b, l) = bufferFIFO_start(b, l)
  BY <1>2, Same DEF F!bufferFIFO_start, bufferFIFO_start, F!FirstWriteIndex, FirstWriteIndex,
                    F!FirstReadIndex, FirstReadIndex
<1> QED BY <1>1, <1>6, <1>7

(* The assumptions of BufferFifo, for the ring of the mass storage function. *)
LEMMA RingConstants ==
    /\ BufferCount \in Nat \ {0} /\ BufSectors \in Nat \ {0} /\ 1 \in Nat \ {0}
    /\ {2, 3} \subseteq 2 .. F!MaxStages
    /\ \A n \in {2, 3} : n - 2 < BufferCount
BY BufferCountAssumption, MassStorageAssumption DEF F!MaxStages

LEMMA StagesAre == StageIdx = {0, 1, 2, 3} /\ StageIdx = 0 .. 3
BY DEF StageIdx, MaxStages

LEMMA FlightFacts ==
    ASSUME NEW b, NEW tot \in Nat, NEW lft, NEW ln, NEW fin,
           F!RingInv(b, tot, lft, ln, fin),
           NEW s \in StageIdx, b.stageProcessing[s]
    PROVE  /\ s \in 0 .. b.numStages - 1
           /\ ln[s] \in Nat /\ 0 < ln[s]
           /\ s \notin fin => lft[s] \in Nat /\ ln[s] <= lft[s]
BY Same, RingConstants, F!RingFlight

(* b has become p: stage s passed a buffer on, and p.exec were called. *)
PassedOn(b, p, s, lft, fin) ==
    /\ p \in FifoStruct /\ p.numStages = b.numStages /\ b.processing
    /\ \A t \in p.exec :
          /\ t \in 0 .. b.numStages - 1 /\ t \notin fin \ {s}
          /\ t # s => ~b.stageProcessing[t]
          /\ p.stageProcessing[t]
          /\ t # 0 => 0 < p.bufferSize[ReadBuffer(p, t)]
    /\ \A t \in StageIdx : b.stageProcessing[t] /\ t # s => p.stageProcessing[t]
    /\ ~p.processing =>
          /\ p.exec = {} /\ fin = {s}
          /\ \A t \in StageIdx : ~p.stageProcessing[t]
          /\ \A t \in 0 .. b.numStages - 1 : lft[t] = 0

LEMMA PassOnFacts ==
    ASSUME NEW b, NEW tot \in Nat, NEW lft, NEW ln, NEW fin,
           F!RingInv(b, tot, lft, ln, fin),
           NEW s \in fin,
           NEW p, p = bufferFIFO_processingComplete(b, s, ln[s])
    PROVE  PassedOn(b, p, s, lft, fin)
<1>1. p = F!bufferFIFO_processingComplete(b, s, ln[s])
  BY SameOperations
<1>2. F!Called(b, p, s, lft, fin)
  BY <1>1, RingConstants, F!RingLaunches
<1> QED BY <1>2, Same DEF F!Called, PassedOn

LEMMA PassOnKeeps ==
    ASSUME NEW b, NEW tot \in Nat, NEW lft, NEW ln, NEW fin,
           F!RingInv(b, tot, lft, ln, fin),
           NEW s \in fin,
           NEW p, p = bufferFIFO_processingComplete(b, s, ln[s]),
           NEW c, c = [p EXCEPT !.exec = {}],
           NEW ln2, ln2 = F!LaunchLen(p, lft, ln)
    PROVE  F!RingInv(c, tot, lft, ln2, fin \ {s})
<1>1. p = F!bufferFIFO_processingComplete(b, s, ln[s])
  BY SameOperations
<1>2. F!RingInv(p, tot, lft, ln2, fin \ {s})
  BY <1>1, RingConstants, F!RingPassOn
<1> QED BY <1>2, RingConstants, F!RingExec

StalledIf(b, s, n) == IF n = 0 THEN bufferFIFO_stallStage(b, s) ELSE b
LessBy(lft, lft2, s, n) ==
    /\ lft2[s] = lft[s] - n
    /\ \A u \in StageIdx : u # s => lft2[u] = lft[u]

LEMMA AccountKeeps ==
    ASSUME NEW b, NEW tot \in Nat, NEW lft, NEW ln, NEW fin,
           F!RingInv(b, tot, lft, ln, fin),
           NEW s \in StageIdx, b.stageProcessing[s], s \notin fin,
           NEW lft2 \in [StageIdx -> Nat],
           LessBy(lft, lft2, s, ln[s]),
           NEW p, p = StalledIf(b, s, lft2[s])
    PROVE  F!RingInv(p, tot, lft2, ln, fin \cup {s})
<1>1. p = IF lft2[s] = 0 THEN F!bufferFIFO_stallStage(b, s) ELSE b
  BY SameOperations DEF StalledIf
<1>2. lft2[s] = lft[s] - F!Smaller(lft[s], ln[s])
  <2>1. lft[s] \in Nat /\ ln[s] \in Nat /\ ln[s] <= lft[s]
    BY FlightFacts
  <2>2. F!Smaller(lft[s], ln[s]) = Smaller(lft[s], ln[s])
    BY Same
  <2> QED BY <2>1, <2>2 DEF Smaller, LessBy
<1>3. s \in F!StageIdx /\ lft2 \in [F!StageIdx -> Nat]
      /\ \A u \in F!StageIdx : u # s => lft2[u] = lft[u]
  BY Same DEF LessBy
<1> QED BY <1>1, <1>2, <1>3, RingConstants, F!RingAccount

(* A transfer of n stages has begun: its first stage was called. *)
Begun(p, n) ==
    /\ p \in FifoStruct /\ p.numStages = n /\ p.processing /\ p.exec = {0}
    /\ \A s \in StageIdx : p.stageProcessing[s] <=> s = 0
    /\ \A tot \in Nat \ {0}, lft \in [StageIdx -> Nat], ln \in [StageIdx -> Nat] :
          /\ \A s \in 0 .. n - 1 : lft[s] = tot
          /\ ln[0] = Smaller(tot, BufSectors)
          => F!RingInv([p EXCEPT !.exec = {}], tot, lft, ln, {})

LEMMA StartMakes ==
    ASSUME NEW b \in FifoStruct, \A s \in StageIdx : ~b.stageProcessing[s],
           NEW n \in {2, 3}, NEW l \in Nat,
           NEW p, p = bufferFIFO_start([b EXCEPT !.numStages = n], l)
    PROVE  Begun(p, n)
<1>1. p = F!bufferFIFO_start([b EXCEPT !.numStages = n], l)
  BY SameOperations
<1>2. n \in 2 .. F!MaxStages /\ n \in {2, 3}
  BY DEF F!MaxStages
<1>3. F!Started(p, n)
  BY <1>1, <1>2, Same, RingConstants, F!StartStarts
<1>4. /\ p \in FifoStruct /\ p.numStages = n /\ p.processing /\ p.exec = {0}
      /\ \A s \in StageIdx : p.stageProcessing[s] <=> s = 0
  <2>1. \A s \in StageIdx : s \in Int /\ (s < n \/ s >= n)
    BY StagesAre
  <2> QED BY <1>2, <1>3, <2>1, Same DEF F!Started
<1>5. ASSUME NEW tot \in Nat \ {0},
             NEW lft \in [StageIdx -> Nat], NEW ln \in [StageIdx -> Nat],
             \A s \in 0 .. n - 1 : lft[s] = tot, ln[0] = Smaller(tot, BufSectors)
      PROVE  F!RingInv([p EXCEPT !.exec = {}], tot, lft, ln, {})
  <2>1. F!RingInv(p, tot, lft, ln, {})
    BY <1>2, <1>3, <1>5, Same, RingConstants, F!RingStart
  <2> QED BY <2>1, RingConstants, F!RingExec
<1> QED BY <1>4, <1>5 DEF Begun

------------------------------------------------------------------------------
(* The place of a transfer on the card. *)

Carries(d, e) == VolumeOk(d) => VolumeOk(e)

PlaceFields ==
    {"cbw", "mmcDataToTransfer", "mmcBlockAddr", "op", "g_emmc_user", "cplt", "mmcReadLen"}

LEMMA Untouched ==
    ASSUME NEW d, NEW S, S \cap PlaceFields = {}, NEW e, Changes(d, e, S)
    PROVE  Carries(d, e)
<1>1. PlaceFields \subseteq Fields \ S
  BY DEF PlaceFields, Fields
<1>2. \A f \in PlaceFields : e[f] = d[f]
  BY <1>1 DEF Changes
<1>3. /\ e.cbw = d.cbw /\ e.mmcDataToTransfer = d.mmcDataToTransfer
      /\ e.mmcBlockAddr = d.mmcBlockAddr /\ e.op = d.op /\ e.g_emmc_user = d.g_emmc_user
      /\ e.cplt = d.cplt /\ e.mmcReadLen = d.mmcReadLen
  BY <1>2 DEF PlaceFields
<1>4. MmcLeft(e) = MmcLeft(d)
  BY <1>3 DEF MmcLeft, CountedAhead
<1> QED BY <1>3, <1>4 DEF Carries, VolumeOk, InPlace

LEMMA CarriesOn ==
    ASSUME NEW d, NEW e, Carries(d, e), NEW f, Carries(e, f)
    PROVE  Carries(d, f)
BY DEF Carries

(* The operation on the card, if it is of the transfer, is where it was, or     *)
(* there is none; or the step is known to keep the place.                       *)
KeepsPlace(d, e) ==
    \/ e.op = NoOp \/ e.g_emmc_user # "STORAGE"
    \/ d.op # NoOp /\ d.g_emmc_user = "STORAGE" /\ e.op.addr = d.op.addr
    \/ Carries(d, e)

LEMMA Placed ==
    ASSUME NEW d, NEW e, e.cbw = d.cbw, e.mmcDataToTransfer = d.mmcDataToTransfer,
           e.mmcBlockAddr = d.mmcBlockAddr, CountedAhead(e) = CountedAhead(d),
           KeepsPlace(d, e)
    PROVE  Carries(d, e)
<1>1. MmcLeft(e) = MmcLeft(d)
  BY DEF MmcLeft
<1> QED BY <1>1 DEF Carries, VolumeOk, InPlace, KeepsPlace

(* An address within a volume is within the eMMC: the sum does not wrap. *)
LEMMA NoWrap ==
    ASSUME NEW lun \in Luns, NEW n \in Nat, n <= Capacity(lun)
    PROVE  /\ (region_start(lun) + n) % AddrMod = region_start(lun) + n
           /\ n % AddrMod = n
<1>1. /\ AddrMod \in Nat /\ Capacity0 \in Nat /\ Capacity1 \in Nat
      /\ AddrMod > 1 + Capacity0 + Capacity1
  BY MassStorageAssumption
<1>2. \A x \in Nat : x < AddrMod => x % AddrMod = x
  BY <1>1
<1>3. region_start(lun) + n \in Nat /\ region_start(lun) + n < AddrMod /\ n < AddrMod
  BY <1>1 DEF Luns, region_start, EMMC_STORAGE_FIRST_BLOCK, Capacity
<1> QED BY <1>2, <1>3

LEMMA StorageAddrIs ==
    ASSUME NEW d, VolumeOk(d), d.mmcDataToTransfer \in Nat, CountedAhead(d) = 0
    PROVE  StorageAddr(d) = region_start(d.cbw.lun) + d.cbw.lba + d.cbw.len - MmcLeft(d)
<1>1. /\ d.cbw.lun \in Luns /\ d.cbw.lba \in Nat /\ d.cbw.len \in Nat
      /\ d.cbw.lba + d.cbw.len <= Capacity(d.cbw.lun)
      /\ MmcLeft(d) = d.mmcDataToTransfer /\ d.mmcDataToTransfer <= d.cbw.len
      /\ d.mmcBlockAddr = d.cbw.lba + d.cbw.len - d.mmcDataToTransfer
  BY DEF VolumeOk, Fits, MmcLeft
<1>2. Capacity(d.cbw.lun) \in Nat /\ region_start(d.cbw.lun) \in Nat
  BY MassStorageAssumption DEF Capacity, region_start, EMMC_STORAGE_FIRST_BLOCK
<1>3. d.mmcBlockAddr \in Nat /\ d.mmcBlockAddr <= Capacity(d.cbw.lun)
  BY <1>1, <1>2
<1>4. StorageAddr(d) = region_start(d.cbw.lun) + d.mmcBlockAddr
  BY <1>1, <1>3, NoWrap DEF StorageAddr
<1> QED BY <1>1, <1>2, <1>4

------------------------------------------------------------------------------
(* Giving the eMMC to its next user. *)

(* emmc_user_start finds the card free and starts the operation of the user. *)
LEMMA StartOk ==
    ASSUME NEW d, IsDev(d), DevType(d), d.op = NoOp, d.cplt = {},
           NEW u \in {"DB", "STORAGE"}, d.g_emmc_user = u,
           u = "DB" => d.g_db_action # "none", BotOk(d),
           NEW e, e = emmc_user_start(d, u)
    PROVE  /\ Changes(d, e, {"op"}) /\ CardOk(e) /\ DevType(e)
           /\ e.op = NoOp \/ e.op.kind \in {"read", "write"}
           /\ Carries(d, e)
<1>1. Changes(d, e, {"op"})
  BY UserStartChanges
<1>2. /\ e.g_emmc_user = u /\ e.cplt = {} /\ e.reading = d.reading
      /\ e.mmcReadLen = d.mmcReadLen /\ e.mmcBuffer = d.mmcBuffer
      /\ e.cbw = d.cbw /\ e.mmcDataToTransfer = d.mmcDataToTransfer
      /\ e.mmcBlockAddr = d.mmcBlockAddr
  BY <1>1 DEF Changes, Fields
<1>3. ASSUME NEW kind \in {"read", "write"}, NEW addr \in Nat, NEW len \in Nat, NEW buf \in Int,
             e = StartBlocks(d, kind, addr, len, buf)
      PROVE  \/ e.op = NoOp
             \/ /\ e.op = [kind |-> kind, addr |-> addr, len |-> len, buf |-> buf]
                /\ e.op \in Operations
  <2> DEFINE op == [kind |-> kind, addr |-> addr, len |-> len, buf |-> buf]
  <2>1. op \in Operations
    BY DEF Operations
  <2>2. e = d \/ e = [d EXCEPT !.op = op]
    BY <1>3 DEF StartBlocks
  <2> HIDE DEF op
  <2>3. e = [d EXCEPT !.op = op] => e.op = op
    BY DEF IsDev, Fields
  <2> QED BY <2>1, <2>2, <2>3 DEF op
<1>4. CASE u = "DB"
  <2>1. e = StartBlocks(d, d.g_db_action, 0, 1, -1)
    BY <1>4 DEF emmc_user_start, emmc_user_db_start
  <2>2. d.g_db_action \in {"read", "write"}
    BY <1>4 DEF DevType
  <2>3. \/ e.op = NoOp
        \/ /\ e.op = [kind |-> d.g_db_action, addr |-> 0, len |-> 1, buf |-> -1]
           /\ e.op \in Operations
    BY <1>3, <2>1, <2>2
  <2>4. e.op = NoOp \/ (e.op.buf = -1 /\ e.op.kind \in {"read", "write"} /\ e.op \in Operations)
    BY <2>2, <2>3
  <2>5. CardOk(e)
    BY <1>2, <1>4, <2>4 DEF CardOk, Doing, NoOp
  <2>6. Carries(d, e)
    <3>1. CountedAhead(e) = CountedAhead(d)
      BY <1>2, <1>4 DEF CountedAhead
    <3>2. KeepsPlace(d, e)
      BY <1>2, <1>4 DEF KeepsPlace
    <3> QED BY <1>2, <3>1, <3>2, Placed
  <2> QED BY <1>1, <2>4, <2>5, <2>6 DEF Changes, Fields, DevType
<1>5. CASE u = "STORAGE"
  <2> DEFINE a == StorageAddr(d)
  <2>1. a \in Nat
    <3>1. region_start(d.cbw.lun) + d.mmcBlockAddr \in Nat
      BY MassStorageAssumption DEF region_start, EMMC_STORAGE_FIRST_BLOCK, DevType
    <3>2. AddrMod \in Nat \ {0}
      BY MassStorageAssumption
    <3> HIDE DEF a
    <3>3. \A x \in Nat : x % AddrMod \in Nat
      BY <3>2
    <3> QED BY <3>1, <3>3 DEF a, StorageAddr
  <2>2. /\ d.mmcReadLen \in Nat /\ d.mmcBuffer \in Int /\ d.mmcBuffer >= 0
    BY BufferCountAssumption DEF DevType, Buffers
  <2>0. ASSUME e.op = NoOp \/ (e.op.addr = a /\ e.op.kind \in {"read", "write"})
        PROVE  Carries(d, e)
    <3>1. CountedAhead(e) = 0 /\ CountedAhead(d) = 0
      BY <1>2, <2>0 DEF CountedAhead, NoOp
    <3>2. MmcLeft(e) = MmcLeft(d) /\ d.mmcDataToTransfer \in Nat
      BY <1>2, <3>1 DEF MmcLeft, DevType
    <3>3. VolumeOk(d) => a = region_start(d.cbw.lun) + d.cbw.lba + d.cbw.len - MmcLeft(d)
      BY <3>1, <3>2, StorageAddrIs
    <3> HIDE DEF a
    <3> QED BY <1>2, <2>0, <3>2, <3>3 DEF Carries, VolumeOk, InPlace
  <2>3. CASE d.bot_state = "DATA_IN"
    <3>1. e = StartBlocks(d, "read", a, d.mmcReadLen, d.mmcBuffer)
      BY <1>5, <2>3 DEF emmc_user_start, emmc_user_storage_start
    <3> HIDE DEF a
    <3>2. \/ e.op = NoOp
          \/ /\ e.op = [kind |-> "read", addr |-> a, len |-> d.mmcReadLen, buf |-> d.mmcBuffer]
             /\ e.op \in Operations
      BY <1>3, <2>1, <2>2, <3>1
    <3>3. \/ e.op = NoOp
          \/ /\ e.op.kind = "read" /\ e.op.len = d.mmcReadLen /\ e.op.buf = d.mmcBuffer
             /\ e.op \in Operations /\ e.op.addr = a
      BY <3>2
    <3>4. d.reading
      BY <2>3 DEF BotOk
    <3>5. CardOk(e)
      BY <1>2, <1>5, <2>2, <3>3, <3>4 DEF CardOk, Doing, NoOp
    <3>6. Carries(d, e)
      BY <2>0, <3>3
    <3> QED BY <1>1, <3>3, <3>5, <3>6 DEF Changes, Fields, DevType
  <2>4. CASE d.bot_state = "DATA_OUT"
    <3>1. e = StartBlocks(d, "write", a, d.mmcReadLen, d.mmcBuffer)
      BY <1>5, <2>4 DEF emmc_user_start, emmc_user_storage_start
    <3> HIDE DEF a
    <3>2. \/ e.op = NoOp
          \/ /\ e.op = [kind |-> "write", addr |-> a, len |-> d.mmcReadLen, buf |-> d.mmcBuffer]
             /\ e.op \in Operations
      BY <1>3, <2>1, <2>2, <3>1
    <3>3. \/ e.op = NoOp
          \/ /\ e.op.kind = "write" /\ e.op.len = d.mmcReadLen /\ e.op.buf = d.mmcBuffer
             /\ e.op \in Operations /\ e.op.addr = a
      BY <3>2
    <3>4. ~d.reading
      BY <2>4 DEF BotOk
    <3>5. CardOk(e)
      BY <1>2, <1>5, <2>2, <3>3, <3>4 DEF CardOk, Doing, NoOp
    <3>6. Carries(d, e)
      BY <2>0, <3>3
    <3> QED BY <1>1, <3>3, <3>5, <3>6 DEF Changes, Fields, DevType
  <2>5. CASE d.bot_state \notin {"DATA_IN", "DATA_OUT"}
    <3>1. e = d
      BY <1>5, <2>5 DEF emmc_user_start, emmc_user_storage_start
    <3>2. CardOk(e)
      BY <1>5, <3>1 DEF CardOk, Doing, NoOp
    <3>3. Carries(d, e)
      BY <3>1 DEF Carries
    <3> QED BY <1>1, <3>1, <3>2, <3>3
  <2> QED BY <2>3, <2>4, <2>5
<1> QED BY <1>4, <1>5

(* A user that is not in the queue nor has the eMMC joins the queue: no         *)
(* assertion fails, and the eMMC goes to the first in the queue if it is free.  *)
LEMMA QueueOk ==
    ASSUME NEW d, IsDev(d), DevType(d), CardOk(d), BotOk(d),
           NEW m, MainType(m), MainOk(d, m),
           NEW u \in {"DB", "STORAGE"}, u \notin d.ready, d.g_emmc_user # u,
           u = "STORAGE" => m.after # "ring",
           u = "DB" => m.after # "db" /\ d.g_db_action # "none",
           NEW e, e = emmc_user_queue(d, u)
    PROVE  /\ Changes(d, e, {"g_emmc_user", "ready", "op"})
           /\ DevType(e) /\ CardOk(e) /\ MainOk(e, m)
           /\ {e.g_emmc_user} \cup e.ready = {d.g_emmc_user, u} \cup d.ready
              \/ {e.g_emmc_user} \cup e.ready \cup {"NONE"} = {d.g_emmc_user, u} \cup d.ready
           /\ CountedAhead(e) = CountedAhead(d) /\ Carries(d, e)
<1> DEFINE c == MarkReady(d, u)
<1>1. c = [d EXCEPT !.ready = @ \cup {u}] /\ e = emmc_user_schedule(c)
  BY DEF MarkReady, emmc_user_queue
<1>2. Changes(d, c, {"ready"}) /\ c.ready = d.ready \cup {u}
  BY <1>1 DEF Changes, IsDev, Fields
<1> HIDE DEF c
<1>3. IsDev(c) /\ DevType(c) /\ CardOk(c) /\ BotOk(c)
  BY <1>2 DEF Changes, Fields, DevType, CardOk, Doing, BotOk
<1>4. MainOk(c, m)
  BY <1>2 DEF Changes, Fields, MainOk, Doing, MainType, Users, Idle
<1>marked. Carries(d, c)
  BY <1>2, Untouched DEF PlaceFields
<1>5. CASE c.g_emmc_user # "NONE"
  <2>1. e = c
    BY <1>1, <1>5 DEF emmc_user_schedule
  <2>2. CountedAhead(c) = CountedAhead(d)
    BY <1>2 DEF CountedAhead, Changes, Fields
  <2>3. c.g_emmc_user = d.g_emmc_user
    BY <1>2 DEF Changes, Fields
  <2> QED BY <1>2, <1>3, <1>4, <1>marked, <2>1, <2>2, <2>3 DEF Changes
<1>6. CASE c.g_emmc_user = "NONE"
  <2> DEFINE v == Picked(c)
             x == [c EXCEPT !.g_emmc_user = v, !.ready = @ \ {v}]
  <2>1. v \in {"DB", "STORAGE"} /\ v \in c.ready
    BY <1>2, <1>3 DEF Picked, DevType
  <2>2. e = emmc_user_start(x, v)
    BY <1>1, <1>6, <2>1 DEF emmc_user_schedule
  <2> HIDE DEF v
  <2>3. Changes(c, x, {"g_emmc_user", "ready"}) /\ x.g_emmc_user = v /\ x.ready = c.ready \ {v}
    BY <1>3 DEF Changes, IsDev, Fields
  <2> HIDE DEF x
  <2>4. c.op = NoOp /\ c.cplt = {}
    BY <1>3, <1>6 DEF CardOk, Doing
  <2>5. /\ IsDev(x) /\ DevType(x) /\ x.op = NoOp /\ x.cplt = {} /\ BotOk(x)
        /\ v = "DB" => x.g_db_action # "none"
    BY <1>3, <1>4, <2>1, <2>3, <2>4 DEF Changes, Fields, DevType, BotOk, Users, MainOk
  <2>6. /\ Changes(x, e, {"op"}) /\ CardOk(e) /\ DevType(e)
        /\ e.op = NoOp \/ e.op.kind \in {"read", "write"}
        /\ Carries(x, e)
    BY <2>1, <2>2, <2>3, <2>5, StartOk
  <2>7. e.g_emmc_user = v /\ e.ready = c.ready \ {v} /\ e.cplt = {}
        /\ e.g_db_action = c.g_db_action
    BY <2>3, <2>5, <2>6 DEF Changes, Fields
  <2>8. MainOk(e, m)
    BY <1>4, <1>6, <2>1, <2>7 DEF MainOk, Doing, MainType, Users, Idle
  <2>9. CountedAhead(e) = CountedAhead(d)
    <3>1. CountedAhead(e) = 0
      BY <2>6, <2>7 DEF CountedAhead, NoOp
    <3>2. d.g_emmc_user = "NONE"
      BY <1>2, <1>6 DEF Changes, Fields
    <3> QED BY <3>1, <3>2 DEF CountedAhead
  <2>10. {e.g_emmc_user} \cup e.ready = d.ready \cup {u}
    BY <1>2, <2>1, <2>7
  <2>11. d.g_emmc_user = "NONE"
    BY <1>2, <1>6 DEF Changes, Fields
  <2>12. {e.g_emmc_user} \cup e.ready \cup {"NONE"} = {d.g_emmc_user, u} \cup d.ready
    BY <2>10, <2>11
  <2>13. Changes(d, e, {"g_emmc_user", "ready", "op"})
    BY <1>2, <2>3, <2>6 DEF Changes
  <2>14. Carries(c, x)
    <3>1. /\ x.cbw = c.cbw /\ x.mmcDataToTransfer = c.mmcDataToTransfer
          /\ x.mmcBlockAddr = c.mmcBlockAddr
      BY <2>3 DEF Changes, Fields
    <3>2. CountedAhead(x) = CountedAhead(c)
      BY <2>4, <2>5 DEF CountedAhead, NoOp
    <3>3. KeepsPlace(c, x)
      BY <2>5 DEF KeepsPlace
    <3> QED BY <3>1, <3>2, <3>3, Placed
  <2>15. Carries(d, e)
    BY <1>marked, <2>6, <2>14, CarriesOn
  <2> QED BY <2>6, <2>8, <2>9, <2>12, <2>13, <2>15
<1> QED BY <1>5, <1>6

------------------------------------------------------------------------------
(* Launching a stage. *)

LEMMA RingSizes ==
    ASSUME NEW b \in FifoStruct, NEW s \in StageIdx
    PROVE  /\ ReadBuffer(b, s) \in Buffers /\ WriteBuffer(b, s) \in Buffers
           /\ b.bufferSize[ReadBuffer(b, s)] \in Nat
<1>1. b.stageReadIndex[s] \in Nat /\ b.stageWriteIndex[s] \in Nat
  BY DEF FifoStruct
<1>2. \A n \in Nat : n % BufferCount \in Buffers
  BY BufferCountAssumption DEF Buffers
<1>3. ReadBuffer(b, s) \in Buffers /\ WriteBuffer(b, s) \in Buffers
  BY <1>1, <1>2 DEF ReadBuffer, WriteBuffer
<1> QED BY <1>3 DEF FifoStruct

(* The peripheral of stage t is at rest. *)
Resting(d, m, t) ==
    IF t = MmcStage(d) THEN ~MmcBusy(d, m)
    ELSE IF t = UsbStage(d) THEN ~UsbBusy(d) ELSE t = 1 => ~CryptBusy(d)

(* The length a stage sets off with. *)
NewLen(d, s) == IF s = 0 THEN Smaller(StageLeft(d)[0], BufSectors) ELSE BufferSize(d, s)

(* e is d with stage s launched; the others are as they were. *)
StageOk(d, e, m, s) ==
    /\ Base(e, m) /\ e.fault = d.fault /\ Changes(d, e, Launching)
    /\ StageLeft(e) = StageLeft(d) /\ Carries(d, e)
    /\ StageLen(e)[s] = NewLen(d, s)
    /\ \A t \in StageIdx \ {s} : /\ StageLen(e)[t] = StageLen(d)[t]
                                 /\ Resting(e, m, t) <=> Resting(d, m, t)

(* What is needed to launch it. *)
Launchable(d, m, s) ==
    /\ Base(d, m) /\ d.ring.processing
    /\ s \in StageIdx /\ s < d.ring.numStages /\ d.ring.stageProcessing[s]
    /\ Resting(d, m, s)
    /\ s # 0 => BufferSize(d, s) > 0

LEMMA StagesDiffer ==
    ASSUME NEW d, d.ring.numStages \in {2, 3}, d.reading \in BOOLEAN
    PROVE  /\ MmcStage(d) \in StageIdx /\ UsbStage(d) \in StageIdx
           /\ MmcStage(d) # UsbStage(d)
           /\ MmcStage(d) < d.ring.numStages /\ UsbStage(d) < d.ring.numStages
           /\ MmcStage(d) = 0 <=> d.reading
           /\ UsbStage(d) = 0 <=> ~d.reading
           /\ d.ring.numStages = 3 => MmcStage(d) # 1 /\ UsbStage(d) # 1
           /\ LastStage(d) = IF d.reading THEN UsbStage(d) ELSE MmcStage(d)
BY StagesAre DEF MmcStage, UsbStage, LastStage

LEMMA LaunchMmc ==
    ASSUME NEW d, NEW m, NEW s, Launchable(d, m, s), s = MmcStage(d),
           NEW c, Changes(d, c, {"mmcBuffer", "mmcStageIdx", "mmcReadLen"}),
           c.mmcStageIdx = s, c.mmcReadLen = NewLen(d, s), c.mmcReadLen \in Nat,
           c.mmcBuffer \in Buffers,
           NEW e, e = emmc_user_queue(c, "STORAGE")
    PROVE  StageOk(d, e, m, s)
<1>1. /\ IsDev(d) /\ DevType(d) /\ CardOk(d) /\ MainType(m) /\ MainOk(d, m)
      /\ MmcOk(d, m) /\ UsbOk(d) /\ CryptOk(d) /\ BotOk(d)
      /\ d.ring.processing /\ d.ring.stageProcessing[s] /\ ~MmcBusy(d, m)
      /\ s \in StageIdx
  BY DEF Launchable, Base, Resting
<1>2. /\ IsDev(c) /\ DevType(c) /\ CardOk(c) /\ MainOk(c, m) /\ BotOk(c)
      /\ UsbOk(c) /\ CryptOk(c)
  <2>1. DevType(c)
    BY <1>1 DEF Changes, Fields, DevType
  <2>2. CardOk(c)
    BY <1>1 DEF Changes, Fields, CardOk, Doing, MmcBusy
  <2>3. MainOk(c, m)
    BY <1>1 DEF Changes, Fields, MainOk, Doing
  <2>4. BotOk(c)
    BY <1>1 DEF Changes, Fields, BotOk
  <2>5. UsbOk(c) /\ CryptOk(c)
    BY <1>1 DEF Changes, Fields, UsbOk, UsbBusy, UsbStage, LastStage, CryptOk, CryptBusy
  <2> QED BY <2>1, <2>2, <2>3, <2>4, <2>5 DEF Changes
<1>3. /\ "STORAGE" \notin c.ready /\ c.g_emmc_user # "STORAGE" /\ m.after # "ring"
  BY <1>1 DEF Changes, Fields, MmcBusy
<1>4. /\ Changes(c, e, {"g_emmc_user", "ready", "op"})
      /\ DevType(e) /\ CardOk(e) /\ MainOk(e, m)
      /\ CountedAhead(e) = CountedAhead(c) /\ Carries(c, e)
  BY <1>1, <1>2, <1>3, QueueOk
<1>5. Changes(d, e, {"mmcBuffer", "mmcStageIdx", "mmcReadLen", "g_emmc_user", "ready", "op"})
  BY <1>4 DEF Changes
<1>6. /\ e.mmcStageIdx = s /\ e.mmcReadLen = NewLen(d, s)
      /\ e.ring = d.ring /\ e.reading = d.reading
      /\ e.epIn = d.epIn /\ e.epOut = d.epOut /\ e.crypt = d.crypt
      /\ e.g_cryptOutInt = d.g_cryptOutInt /\ e.writeLen = d.writeLen
      /\ e.mmcDataToTransfer = d.mmcDataToTransfer /\ e.scsi_blk_len = d.scsi_blk_len
      /\ e.fault = d.fault
  BY <1>4, <1>5 DEF Changes, Fields
<1>7. MmcStage(e) = MmcStage(d) /\ UsbStage(e) = UsbStage(d)
  BY <1>6 DEF MmcStage, UsbStage, LastStage
<1>8. MmcOk(e, m)
  BY <1>1, <1>6, <1>7 DEF MmcOk
<1>9. BotOk(e)
  BY <1>2, <1>4 DEF Changes, Fields, BotOk
<1>10. UsbOk(e) /\ CryptOk(e)
  BY <1>2, <1>4 DEF Changes, Fields, UsbOk, UsbBusy, UsbStage, LastStage, CryptOk, CryptBusy
<1>11. Base(e, m)
  BY <1>1, <1>4, <1>8, <1>9, <1>10 DEF Base, Changes
<1>12. CountedAhead(e) = CountedAhead(d)
  <2>1. CountedAhead(c) = 0
    BY <1>3 DEF CountedAhead
  <2>2. CountedAhead(d) = 0
    BY <1>1 DEF CountedAhead, MmcBusy
  <2> QED BY <1>4, <2>1, <2>2
<1>13. StageLeft(e) = StageLeft(d)
  BY <1>6, <1>7, <1>12 DEF StageLeft
<1>14. StageLen(e)[s] = NewLen(d, s)
  BY <1>1, <1>6, <1>7 DEF StageLen
<1>15. ASSUME NEW t \in StageIdx \ {s}
       PROVE  /\ StageLen(e)[t] = StageLen(d)[t]
              /\ Resting(e, m, t) <=> Resting(d, m, t)
  BY <1>6, <1>7 DEF StageLen, Resting, UsbBusy, CryptBusy
<1>16. Changes(d, e, Launching)
  BY <1>5 DEF Changes, Launching
<1>17. Carries(d, e)
  <2>1. /\ c.cbw = d.cbw /\ c.mmcDataToTransfer = d.mmcDataToTransfer
        /\ c.mmcBlockAddr = d.mmcBlockAddr
    BY DEF Changes, Fields
  <2>2. CountedAhead(c) = CountedAhead(d)
    BY <1>4, <1>12
  <2>3. KeepsPlace(d, c)
    BY <1>3 DEF KeepsPlace
  <2>4. Carries(d, c)
    BY <2>1, <2>2, <2>3, Placed
  <2> QED BY <1>4, <2>4, CarriesOn
<1> QED BY <1>6, <1>11, <1>13, <1>14, <1>15, <1>16, <1>17 DEF StageOk

LEMMA LaunchUsb ==
    ASSUME NEW d, NEW m, NEW s, Launchable(d, m, s), s = UsbStage(d),
           NEW e, Changes(d, e, {"g_usb_transmitting", "stageIdx", "writeLen", "writeBuffer",
                                 "epIn", "epOut", "fault"}),
           e.stageIdx = s, e.writeLen = NewLen(d, s), e.writeLen \in Nat,
           \/ d.reading /\ e.epIn.what = "data" /\ e.epOut = d.epOut /\ e.g_usb_transmitting
           \/ ~d.reading /\ e.epIn = d.epIn /\ e.epOut = "data",
           e.fault = d.fault
    PROVE  StageOk(d, e, m, s)
<1>1. /\ IsDev(d) /\ DevType(d) /\ CardOk(d) /\ MainType(m) /\ MainOk(d, m)
      /\ MmcOk(d, m) /\ UsbOk(d) /\ CryptOk(d) /\ BotOk(d)
      /\ d.ring.processing /\ d.ring.stageProcessing[s]
      /\ s \in StageIdx /\ d.ring.numStages \in {2, 3} /\ d.reading \in BOOLEAN
  BY DEF Launchable, Base, BotOk, DevType
<1>2. MmcStage(d) # s
  BY <1>1, StagesDiffer
<1>3. ~UsbBusy(d)
  BY <1>2 DEF Launchable, Resting
<1>4. /\ e.ring = d.ring /\ e.reading = d.reading
      /\ e.g_emmc_user = d.g_emmc_user /\ e.ready = d.ready /\ e.op = d.op /\ e.cplt = d.cplt
      /\ e.mmcReadLen = d.mmcReadLen /\ e.crypt = d.crypt
      /\ e.g_cryptOutInt = d.g_cryptOutInt /\ e.mmcStageIdx = d.mmcStageIdx
      /\ e.mmcDataToTransfer = d.mmcDataToTransfer /\ e.scsi_blk_len = d.scsi_blk_len
  BY DEF Changes, Fields
<1>5. MmcStage(e) = MmcStage(d) /\ UsbStage(e) = UsbStage(d)
  BY <1>4 DEF MmcStage, UsbStage, LastStage
<1>6. Base(e, m)
  <2>1. DevType(e)
    BY <1>1 DEF Changes, Fields, DevType
  <2>2. CardOk(e)
    BY <1>1 DEF Changes, Fields, CardOk, Doing
  <2>3. MainOk(e, m)
    BY <1>1 DEF Changes, Fields, MainOk, Doing
  <2>4. MmcOk(e, m)
    BY <1>1, <1>4, <1>5 DEF MmcOk, MmcBusy
  <2>5. UsbOk(e)
    BY <1>1, <1>3, <1>4, <1>5 DEF UsbOk, UsbBusy
  <2>6. CryptOk(e)
    BY <1>1, <1>4 DEF CryptOk, CryptBusy
  <2>7. BotOk(e)
    BY <1>1 DEF Changes, Fields, BotOk
  <2> QED BY <1>1, <2>1, <2>2, <2>3, <2>4, <2>5, <2>6, <2>7 DEF Base, Changes
<1>7. StageLeft(e) = StageLeft(d)
  BY <1>4, <1>5 DEF StageLeft, CountedAhead
<1>8. StageLen(e)[s] = NewLen(d, s)
  BY <1>1, <1>2, <1>5 DEF StageLen
<1>9. ASSUME NEW t \in StageIdx \ {s}
      PROVE  /\ StageLen(e)[t] = StageLen(d)[t]
             /\ Resting(e, m, t) <=> Resting(d, m, t)
  BY <1>4, <1>5 DEF StageLen, Resting, MmcBusy, CryptBusy
<1>10. Changes(d, e, Launching)
  BY DEF Changes, Launching
<1>11. Carries(d, e)
  BY Untouched DEF PlaceFields
<1> QED BY <1>6, <1>7, <1>8, <1>9, <1>10, <1>11 DEF StageOk

Loaded(k, s, size, r, w) ==
    [k EXCEPT !.stageIdx = s, !.txLen = size, !.left = size, !.from = r, !.to = w,
              !.running = TRUE]
IsLoaded(x, k, s, size) ==
    /\ x \in Crypts /\ x.stageIdx = s /\ x.txLen = size
    /\ x.left = size /\ x.running /\ x.toTransfer = k.toTransfer

LEMMA CryptSet ==
    ASSUME NEW k \in Crypts, NEW s \in Nat, NEW size \in Nat, NEW r \in Nat, NEW w \in Nat,
           NEW x, x = Loaded(k, s, size, r, w)
    PROVE  IsLoaded(x, k, s, size)
<1>1. x \in Crypts
  BY DEF Crypts, Loaded
<1>2. x.stageIdx = s /\ x.txLen = size /\ x.left = size /\ x.running /\ x.toTransfer = k.toTransfer
  BY DEF Crypts, Loaded
<1> QED BY <1>1, <1>2 DEF IsLoaded

LEMMA LaunchCrypt ==
    ASSUME NEW d, NEW m, NEW s, Launchable(d, m, s), s # MmcStage(d), s # UsbStage(d),
           NEW e, e = processCryptBuffer(d, s)
    PROVE  StageOk(d, e, m, s)
<1>1. /\ IsDev(d) /\ DevType(d) /\ CardOk(d) /\ MainType(m) /\ MainOk(d, m)
      /\ MmcOk(d, m) /\ UsbOk(d) /\ CryptOk(d) /\ BotOk(d)
      /\ d.ring.processing /\ d.ring.stageProcessing[s] /\ s < d.ring.numStages
      /\ s \in StageIdx /\ d.ring.numStages \in {2, 3} /\ d.reading \in BOOLEAN
      /\ d.ring \in FifoStruct /\ d.crypt \in Crypts
  BY DEF Launchable, Base, BotOk, DevType
<1>3. s = 1 /\ d.ring.numStages = 3
  BY <1>1, StagesAre DEF MmcStage, UsbStage, LastStage
<1>2. ~CryptBusy(d) /\ (s # 0 => BufferSize(d, s) > 0)
  BY <1>3 DEF Launchable, Resting
<1> DEFINE r == ReadBuffer(d.ring, s)
           w == WriteBuffer(d.ring, s)
           size == BufferSize(d, s)
<1>4. r \in Nat /\ w \in Nat /\ size \in Nat /\ size > 0
  BY <1>1, <1>2, <1>3, RingSizes, BufferCountAssumption DEF Buffers, BufferSize
<1>5. /\ Changes(d, e, {"crypt"})
      /\ e.crypt = Loaded(d.crypt, s, size, r, w)
  <2> HIDE DEF r, w, size
  <2>1. e = [d EXCEPT !.crypt.stageIdx = s, !.crypt.txLen = size, !.crypt.left = size,
                      !.crypt.from = r, !.crypt.to = w, !.crypt.running = TRUE]
    BY DEF processCryptBuffer, r, w, size
  <2> QED BY <1>1, <2>1 DEF Changes, IsDev, Fields, Loaded
<1> HIDE DEF r, w, size
<1>6. /\ e.crypt \in Crypts /\ e.crypt.stageIdx = s /\ e.crypt.txLen = size
      /\ e.crypt.left = size /\ e.crypt.running /\ e.crypt.toTransfer = d.crypt.toTransfer
  <2>1. s \in Nat
    BY <1>3
  <2> QED
    <3>1. d.crypt \in Crypts
      BY <1>1
    <3>2. r \in Nat /\ w \in Nat /\ size \in Nat
      BY <1>4
    <3>3. e.crypt = Loaded(d.crypt, s, size, r, w)
      BY <1>5
    <3>4. IsLoaded(e.crypt, d.crypt, s, size)
      BY <2>1, <3>1, <3>2, <3>3, CryptSet, Zenon
    <3> QED BY <3>4 DEF IsLoaded
<1>7. /\ e.ring = d.ring /\ e.reading = d.reading /\ e.writeLen = d.writeLen
      /\ e.g_emmc_user = d.g_emmc_user /\ e.ready = d.ready /\ e.op = d.op /\ e.cplt = d.cplt
      /\ e.mmcReadLen = d.mmcReadLen /\ e.epIn = d.epIn /\ e.epOut = d.epOut
      /\ e.g_cryptOutInt = d.g_cryptOutInt /\ e.fault = d.fault
      /\ e.mmcDataToTransfer = d.mmcDataToTransfer /\ e.scsi_blk_len = d.scsi_blk_len
  BY <1>5 DEF Changes, Fields
<1>8. MmcStage(e) = MmcStage(d) /\ UsbStage(e) = UsbStage(d)
  BY <1>7 DEF MmcStage, UsbStage, LastStage
<1>9. Base(e, m)
  <2>1. DevType(e)
    BY <1>1, <1>5, <1>6 DEF Changes, Fields, DevType
  <2>2. CardOk(e)
    BY <1>1, <1>5 DEF Changes, Fields, CardOk, Doing
  <2>3. MainOk(e, m)
    BY <1>1, <1>5 DEF Changes, Fields, MainOk, Doing
  <2>4. MmcOk(e, m)
    BY <1>1, <1>5, <1>8 DEF Changes, Fields, MmcOk, MmcBusy
  <2>5. UsbOk(e)
    BY <1>1, <1>5, <1>8 DEF Changes, Fields, UsbOk, UsbBusy
  <2>6. CryptOk(e)
    <3>1. e.crypt.left \in 1 .. e.crypt.txLen
      BY <1>4, <1>6
    <3>2. ~e.g_cryptOutInt
      BY <1>2, <1>7 DEF CryptBusy
    <3> QED BY <1>1, <1>3, <1>6, <1>7, <3>1, <3>2 DEF CryptOk
  <2>7. BotOk(e)
    BY <1>1, <1>5 DEF Changes, Fields, BotOk
  <2> QED BY <1>1, <1>5, <2>1, <2>2, <2>3, <2>4, <2>5, <2>6, <2>7 DEF Base, Changes
<1>10. StageLeft(e) = StageLeft(d)
  BY <1>6, <1>7, <1>8 DEF StageLeft, CountedAhead
<1>11. StageLen(e)[s] = NewLen(d, s)
  BY <1>1, <1>3, <1>6, <1>8 DEF StageLen, NewLen, size
<1>12. ASSUME NEW t \in StageIdx \ {s}
       PROVE  /\ StageLen(e)[t] = StageLen(d)[t]
              /\ Resting(e, m, t) <=> Resting(d, m, t)
  <2>1. t = MmcStage(d) \/ t = UsbStage(d) \/ (t # 1 /\ t # MmcStage(d) /\ t # UsbStage(d))
    BY <1>3
  <2>2. t # MmcStage(d) /\ t # UsbStage(d) => t = 3
    BY <1>1, <1>3, StagesAre DEF MmcStage, UsbStage, LastStage
  <2>3. StageLen(e)[t] = StageLen(d)[t]
    BY <1>3, <1>7, <1>8 DEF StageLen
  <2> QED BY <1>3, <1>7, <1>8, <2>3 DEF Resting, MmcBusy, UsbBusy
<1>13. Changes(d, e, Launching)
  BY <1>5 DEF Changes, Launching
<1>14. Carries(d, e)
  BY <1>5, Untouched DEF PlaceFields
<1> QED BY <1>7, <1>9, <1>10, <1>11, <1>12, <1>13, <1>14 DEF StageOk

LEMMA StageRuns ==
    ASSUME NEW d, NEW m, NEW s, Launchable(d, m, s), NEW e, e = processStage(d, s)
    PROVE  StageOk(d, e, m, s)
<1>1. /\ IsDev(d) /\ d.ring \in FifoStruct /\ s \in StageIdx
      /\ d.ring.numStages \in {2, 3} /\ d.reading \in BOOLEAN
      /\ d.mmcDataToTransfer \in Nat /\ d.scsi_blk_len \in Nat /\ BufSectors \in Nat
  BY MassStorageAssumption DEF Launchable, Base, BotOk, DevType
<1>2. /\ ReadBuffer(d.ring, s) \in Buffers /\ WriteBuffer(d.ring, s) \in Buffers
      /\ BufferSize(d, s) \in Nat
  BY <1>1, RingSizes DEF BufferSize
<1>3. /\ MmcStage(d) = 0 <=> d.reading
      /\ UsbStage(d) = 0 <=> ~d.reading
      /\ MmcStage(d) # UsbStage(d)
      /\ LastStage(d) = IF d.reading THEN UsbStage(d) ELSE MmcStage(d)
  BY <1>1, StagesDiffer
<1>4. \A x \in Nat : Smaller(x, BufSectors) \in Nat
  BY <1>1 DEF Smaller
<1>10. /\ s = 0 /\ d.reading => e = processMMCReadBuffer(d, s)
       /\ s = 0 /\ ~d.reading => e = processUSBWriteBuffer(d, s)
       /\ s = LastStage(d) /\ d.reading => e = processUSBReadBuffer(d, s)
       /\ s = LastStage(d) /\ ~d.reading => e = processMMCWriteBuffer(d, s)
       /\ s # 0 /\ s # LastStage(d) => e = processCryptBuffer(d, s)
  <2>1. LastStage(d) # 0 /\ d.reading \in BOOLEAN
    BY <1>1, <1>3
  <2> QED BY <2>1 DEF processStage
<1>5. CASE s = 0 /\ d.reading
  <2> DEFINE c == [d EXCEPT !.mmcBuffer = WriteBuffer(d.ring, s),
                            !.mmcStageIdx = s,
                            !.mmcReadLen = Smaller(d.mmcDataToTransfer, BufSectors)]
  <2>1. /\ Changes(d, c, {"mmcBuffer", "mmcStageIdx", "mmcReadLen"})
        /\ c.mmcStageIdx = s /\ c.mmcReadLen = Smaller(d.mmcDataToTransfer, BufSectors)
        /\ c.mmcBuffer = WriteBuffer(d.ring, s)
    BY <1>1 DEF Changes, IsDev, Fields
  <2>2. e = emmc_user_queue(c, "STORAGE")
    BY <1>5, <1>10 DEF processMMCReadBuffer
  <2> HIDE DEF c
  <2>3. NewLen(d, s) = Smaller(d.mmcDataToTransfer, BufSectors)
    <3>1. CountedAhead(d) = 0
      BY <1>3, <1>5 DEF Launchable, Resting, MmcBusy, CountedAhead
    <3>2. StageLeft(d)[0] = d.mmcDataToTransfer
      BY <1>1, <1>3, <1>5, <3>1 DEF StageLeft
    <3> QED BY <1>5, <3>2 DEF NewLen
  <2> QED BY <1>1, <1>2, <1>3, <1>4, <1>5, <2>1, <2>2, <2>3, LaunchMmc
<1>6. CASE s = LastStage(d) /\ ~d.reading
  <2> DEFINE c == [d EXCEPT !.mmcStageIdx = s,
                            !.mmcReadLen = BufferSize(d, s),
                            !.mmcBuffer = ReadBuffer(d.ring, s)]
  <2>1. /\ Changes(d, c, {"mmcBuffer", "mmcStageIdx", "mmcReadLen"})
        /\ c.mmcStageIdx = s /\ c.mmcReadLen = BufferSize(d, s)
        /\ c.mmcBuffer = ReadBuffer(d.ring, s)
    BY <1>1 DEF Changes, IsDev, Fields
  <2>2. e = emmc_user_queue(c, "STORAGE")
    BY <1>6, <1>10 DEF processMMCWriteBuffer
  <2> HIDE DEF c
  <2>3. NewLen(d, s) = BufferSize(d, s)
    BY <1>3, <1>6 DEF NewLen
  <2> QED BY <1>1, <1>2, <1>3, <1>6, <2>1, <2>2, <2>3, LaunchMmc
<1>7. CASE s = 0 /\ ~d.reading
  <2>1. /\ Changes(d, e, {"stageIdx", "writeLen", "writeBuffer", "epOut"})
        /\ e.stageIdx = s /\ e.writeLen = Smaller(d.scsi_blk_len, BufSectors)
        /\ e.epOut = "data"
    <3> DEFINE buf == WriteBuffer(d.ring, s)
               len == Smaller(d.scsi_blk_len, BufSectors)
               c == [d EXCEPT !.stageIdx = s, !.writeBuffer = buf, !.writeLen = len]
    <3>1. e = [c EXCEPT !.epOut = "data"]
      BY <1>7, <1>10 DEF processUSBWriteBuffer, USBD_LL_PrepareReceive
    <3> HIDE DEF buf, len
    <3>2. /\ Changes(d, c, {"stageIdx", "writeLen", "writeBuffer"})
          /\ c.stageIdx = s /\ c.writeLen = len
      BY <1>1 DEF Changes, IsDev, Fields
    <3> HIDE DEF c
    <3> QED BY <3>1, <3>2 DEF Changes, IsDev, Fields, len
  <2>2. e.epIn = d.epIn /\ e.fault = d.fault
    BY <2>1 DEF Changes, Fields
  <2>3. NewLen(d, s) = Smaller(d.scsi_blk_len, BufSectors)
    BY <1>1, <1>3, <1>7 DEF NewLen, StageLeft
  <2>4. Changes(d, e, {"g_usb_transmitting", "stageIdx", "writeLen", "writeBuffer",
                       "epIn", "epOut", "fault"})
    BY <2>1 DEF Changes
  <2> QED BY <1>1, <1>3, <1>4, <1>7, <2>1, <2>2, <2>3, <2>4, LaunchUsb
<1>8. CASE s = LastStage(d) /\ d.reading
  <2>1. s # 0
    BY <1>3, <1>8
  <2>2. d.epIn.what = "none"
    BY <1>3, <1>8 DEF Launchable, Base, BotOk, Resting, UsbBusy
  <2>3. e = processUSBReadBuffer(d, s)
    BY <1>8, <1>10
  <2>4. /\ Changes(d, e, {"g_usb_transmitting", "stageIdx", "writeLen", "epIn", "fault"})
        /\ e.stageIdx = s /\ e.writeLen = BufferSize(d, s) /\ e.g_usb_transmitting
        /\ e.epIn.what = "data" /\ e.fault = d.fault
    <3> DEFINE size == BufferSize(d, s)
               what == [what |-> "data", buf |-> WriteBuffer(d.ring, s), len |-> size]
               c == [d EXCEPT !.g_usb_transmitting = TRUE, !.stageIdx = s, !.writeLen = size]
    <3>1. e = USBD_LL_Transmit(c, what)
      BY <2>3 DEF processUSBReadBuffer
    <3>2. IsDev(d) /\ what.what = "data"
      BY <1>1
    <3> HIDE DEF size, what
    <3>3. /\ Changes(d, c, {"g_usb_transmitting", "stageIdx", "writeLen"})
          /\ c.stageIdx = s /\ c.writeLen = size /\ c.g_usb_transmitting
      BY <3>2 DEF Changes, IsDev, Fields
    <3> HIDE DEF c
    <3>4. Changes(c, e, {"epIn", "fault"}) /\ e.epIn = what /\ e.fault = d.fault
      <4>1. c.epIn.what = "none" /\ c.fault = d.fault
        BY <2>2, <3>3 DEF Changes, Fields
      <4> QED BY <3>1, <3>3, <4>1 DEF Changes, IsDev, Fields, USBD_LL_Transmit
    <3> QED BY <3>2, <3>3, <3>4 DEF Changes, Fields, size
  <2>5. e.epOut = d.epOut
    BY <2>4 DEF Changes, Fields
  <2>6. NewLen(d, s) = BufferSize(d, s)
    BY <2>1 DEF NewLen
  <2>7. Changes(d, e, {"g_usb_transmitting", "stageIdx", "writeLen", "writeBuffer",
                       "epIn", "epOut", "fault"})
    BY <2>4 DEF Changes
  <2> QED BY <1>2, <1>3, <1>8, <2>4, <2>5, <2>6, <2>7, LaunchUsb
<1>9. CASE s # 0 /\ s # LastStage(d)
  <2>1. e = processCryptBuffer(d, s)
    BY <1>9, <1>10
  <2>2. s # MmcStage(d) /\ s # UsbStage(d)
    BY <1>1, <1>3, <1>9
  <2> QED BY <2>1, <2>2, LaunchCrypt
<1> QED BY <1>1, <1>5, <1>6, <1>7, <1>8, <1>9

(* The ring moves under the peripherals: those at work stay in flight. *)
SameLengths(d, e, m) ==
    /\ StageLeft(e) = StageLeft(d) /\ StageLen(e) = StageLen(d)
    /\ MmcStage(e) = MmcStage(d) /\ UsbStage(e) = UsbStage(d)
    /\ \A t \in StageIdx : Resting(e, m, t) <=> Resting(d, m, t)

LEMMA RingMoves ==
    ASSUME NEW d, NEW m, Base(d, m), d.ring.processing,
           NEW e, Changes(d, e, {"ring"}), e.ring \in FifoStruct,
           e.ring.numStages = d.ring.numStages, e.ring.processing,
           \A t \in StageIdx :
               d.ring.stageProcessing[t] /\ ~Resting(d, m, t) /\ t \notin Finishing(d, m)
               => e.ring.stageProcessing[t]
    PROVE  Base(e, m) /\ SameLengths(d, e, m)
<1>1. /\ IsDev(d) /\ DevType(d) /\ CardOk(d) /\ MainType(m) /\ MainOk(d, m)
      /\ MmcOk(d, m) /\ UsbOk(d) /\ CryptOk(d) /\ BotOk(d)
      /\ d.ring.numStages \in {2, 3} /\ d.reading \in BOOLEAN
  BY DEF Base, BotOk, DevType
<1>2. /\ e.reading = d.reading /\ e.writeLen = d.writeLen /\ e.crypt = d.crypt
      /\ e.g_emmc_user = d.g_emmc_user /\ e.ready = d.ready /\ e.op = d.op /\ e.cplt = d.cplt
      /\ e.mmcReadLen = d.mmcReadLen /\ e.epIn = d.epIn /\ e.epOut = d.epOut
      /\ e.g_cryptOutInt = d.g_cryptOutInt /\ e.mmcStageIdx = d.mmcStageIdx
      /\ e.mmcDataToTransfer = d.mmcDataToTransfer /\ e.scsi_blk_len = d.scsi_blk_len
      /\ e.stageIdx = d.stageIdx /\ e.g_usb_transmitting = d.g_usb_transmitting
      /\ e.bot_state = d.bot_state
  BY DEF Changes, Fields
<1>3. MmcStage(e) = MmcStage(d) /\ UsbStage(e) = UsbStage(d)
  BY <1>2 DEF MmcStage, UsbStage, LastStage
<1>4. \A t : Resting(e, m, t) <=> Resting(d, m, t)
  BY <1>2, <1>3 DEF Resting, MmcBusy, UsbBusy, CryptBusy
<1>5. StageLeft(e) = StageLeft(d) /\ StageLen(e) = StageLen(d)
  BY <1>2, <1>3 DEF StageLeft, StageLen, CountedAhead
<1>6. /\ MmcStage(d) \in StageIdx /\ UsbStage(d) \in StageIdx
      /\ MmcStage(d) # UsbStage(d)
      /\ d.ring.numStages = 3 => MmcStage(d) # 1 /\ UsbStage(d) # 1
  BY <1>1, StagesDiffer
<1>7. /\ MmcBusy(d, m) <=> ~Resting(d, m, MmcStage(d))
      /\ UsbBusy(d) <=> ~Resting(d, m, UsbStage(d))
      /\ d.ring.numStages = 3 => (CryptBusy(d) <=> ~Resting(d, m, 1))
  BY <1>6 DEF Resting
<1>8. MmcOk(e, m)
  BY <1>1, <1>2, <1>3, <1>6, <1>7 DEF MmcOk, MmcBusy, Finishing
<1>9. UsbOk(e)
  <2>1. UsbStage(d) \notin Finishing(d, m)
    BY <1>6 DEF Finishing
  <2> QED BY <1>1, <1>2, <1>3, <1>6, <1>7, <2>1 DEF UsbOk, UsbBusy
<1>10. CryptOk(e)
  <2>1. d.ring.numStages = 3 => 1 \notin Finishing(d, m)
    BY <1>6 DEF Finishing
  <2> QED BY <1>1, <1>2, <1>6, <1>7, <2>1, StagesAre DEF CryptOk, CryptBusy
<1>11. BotOk(e)
  BY <1>1, <1>2 DEF BotOk
<1>12. DevType(e) /\ CardOk(e) /\ MainOk(e, m)
  BY <1>1 DEF Changes, Fields, DevType, CardOk, MainOk, Doing
<1> QED
  BY <1>1, <1>3, <1>4, <1>5, <1>8, <1>9, <1>10, <1>11, <1>12 DEF Base, SameLengths, Changes

(* The stages the ring has just called can be launched. *)
Called(d, m) ==
    /\ Base(d, m) /\ d.ring.processing
    /\ \A t \in d.ring.exec :
          /\ t \in StageIdx /\ t < d.ring.numStages /\ d.ring.stageProcessing[t]
          /\ Resting(d, m, t)
          /\ t # 0 => BufferSize(d, t) > 0

(* c is d with the stages S launched. *)
Launched(d, c, m, S) ==
    /\ Base(c, m) /\ c.fault = d.fault /\ Changes(d, c, Launching)
    /\ StageLeft(c) = StageLeft(d) /\ Carries(d, c)
    /\ \A t \in StageIdx :
          /\ t \in S => StageLen(c)[t] = NewLen(d, t)
          /\ t \notin S => /\ StageLen(c)[t] = StageLen(d)[t]
                           /\ Resting(c, m, t) <=> Resting(d, m, t)

LEMMA RunsOne ==
    ASSUME NEW d, NEW m, Called(d, m), NEW c, NEW S, Launched(d, c, m, S),
           NEW s \in StageIdx, s \notin S,
           NEW e, e = IF s \in d.ring.exec THEN processStage(c, s) ELSE c
    PROVE  Launched(d, e, m, S \cup (d.ring.exec \cap {s}))
<1>1. c.ring = d.ring
  BY DEF Launched, Changes, Fields, Launching
<1>2. CASE s \notin d.ring.exec
  <2>1. S \cup (d.ring.exec \cap {s}) = S
    BY <1>2
  <2> QED BY <1>2, <2>1
<1>3. CASE s \in d.ring.exec
  <2>1. S \cup (d.ring.exec \cap {s}) = S \cup {s}
    BY <1>3
  <2>2. BufferSize(c, s) = BufferSize(d, s)
    BY <1>1 DEF BufferSize
  <2>3. Launchable(c, m, s)
    BY <1>1, <1>3, <2>2 DEF Called, Launched, Launchable
  <2>4. StageOk(c, e, m, s)
    BY <1>3, <2>3, StageRuns
  <2>5. NewLen(c, s) = NewLen(d, s)
    BY <2>2 DEF NewLen, Launched
  <2>6. Changes(d, e, Launching)
    BY <2>4 DEF StageOk, Launched, Changes
  <2>7. ASSUME NEW t \in StageIdx
        PROVE  /\ t \in S \cup {s} => StageLen(e)[t] = NewLen(d, t)
               /\ t \notin S \cup {s} => /\ StageLen(e)[t] = StageLen(d)[t]
                                         /\ Resting(e, m, t) <=> Resting(d, m, t)
    <3>1. CASE t = s
      BY <2>4, <2>5, <3>1 DEF StageOk
    <3>2. CASE t # s
      BY <2>4, <3>2 DEF StageOk, Launched
    <3> QED BY <3>1, <3>2
  <2>8. Carries(d, e)
    BY <2>4, CarriesOn DEF StageOk, Launched
  <2> QED BY <2>1, <2>4, <2>6, <2>7, <2>8 DEF StageOk, Launched
<1> QED BY <1>2, <1>3

LEMMA RunOk ==
    ASSUME NEW d, NEW m, Called(d, m), NEW e, e = RunStages(d)
    PROVE  /\ Base(e, m) /\ e.fault = d.fault /\ StageLeft(e) = StageLeft(d) /\ Carries(d, e)
           /\ Changes(d, e, Launching \cup {"ring"})
           /\ e.ring = [d.ring EXCEPT !.exec = {}]
           /\ StageLen(e) = F!LaunchLen(d.ring, StageLeft(d), StageLen(d))
<1> DEFINE Run(c, s) == IF s \in d.ring.exec THEN processStage(c, s) ELSE c
           c0 == Run(d, 0)
           c1 == Run(c0, 1)
           c2 == Run(c1, 2)
           X == d.ring.exec
<1>1. e = [c2 EXCEPT !.ring.exec = {}]
  BY DEF RunStages
<1>2. /\ IsDev(d) /\ d.ring \in FifoStruct /\ d.ring.numStages \in {2, 3}
  BY DEF Called, Base, DevType, BotOk
<1>3. X \subseteq {0, 1, 2} /\ {0, 1, 2} \subseteq StageIdx
  BY <1>2, StagesAre DEF Called
<1>4. Launched(d, d, m, {})
  BY <1>2 DEF Called, Launched, Changes, Carries
<1>5. ASSUME NEW c, NEW S, Launched(d, c, m, S), NEW s \in StageIdx, s \notin S
      PROVE  Launched(d, Run(c, s), m, S \cup (X \cap {s}))
  BY <1>5, RunsOne
<1> HIDE DEF Run
<1>6. Launched(d, c0, m, X \cap {0})
  <2>1. Launched(d, c0, m, {} \cup (X \cap {0}))
    BY <1>3, <1>4, <1>5
  <2>2. {} \cup (X \cap {0}) = X \cap {0}
    OBVIOUS
  <2> QED BY <2>1, <2>2
<1> HIDE DEF c0
<1>7. Launched(d, c1, m, (X \cap {0}) \cup (X \cap {1}))
  <2>1. 1 \notin X \cap {0}
    OBVIOUS
  <2> QED BY <1>3, <1>5, <1>6, <2>1
<1> HIDE DEF c1
<1>8. Launched(d, c2, m, X)
  <2>1. 2 \notin (X \cap {0}) \cup (X \cap {1})
    OBVIOUS
  <2>2. ((X \cap {0}) \cup (X \cap {1})) \cup (X \cap {2}) = X
    BY <1>3
  <2>3. Launched(d, c2, m, ((X \cap {0}) \cup (X \cap {1})) \cup (X \cap {2}))
    BY <1>3, <1>5, <1>7, <2>1
  <2> QED BY <2>2, <2>3
<1> HIDE DEF c2
<1>9. c2.ring = d.ring /\ IsDev(c2)
  BY <1>8 DEF Launched, Changes, Fields, Launching
<1>10. Changes(c2, e, {"ring"}) /\ e.ring = [d.ring EXCEPT !.exec = {}] /\ e.fault = c2.fault
  BY <1>1, <1>9 DEF Changes, IsDev, Fields
<1>11. /\ e.ring \in FifoStruct /\ e.ring.numStages = d.ring.numStages
       /\ e.ring.processing = d.ring.processing
       /\ e.ring.stageProcessing = d.ring.stageProcessing
  BY <1>2, <1>10 DEF FifoStruct
<1>12. Base(e, m) /\ SameLengths(c2, e, m)
  BY <1>8, <1>9, <1>10, <1>11, RingMoves DEF Launched, Called
<1>13. StageLen(e) = F!LaunchLen(d.ring, StageLeft(d), StageLen(d))
  <2>1. StageLen(e) = StageLen(c2)
    BY <1>12 DEF SameLengths
  <2>2. \A t \in StageIdx : StageLen(c2)[t] = IF t \in X THEN NewLen(d, t) ELSE StageLen(d)[t]
    BY <1>8 DEF Launched
  <2>3. \A t \in StageIdx : NewLen(d, t) =
            IF t = 0 THEN F!Smaller(StageLeft(d)[0], BufSectors)
            ELSE d.ring.bufferSize[F!ReadBuffer(d.ring, t)]
    BY Same DEF NewLen, BufferSize
  <2>4. StageLen(c2) = [t \in StageIdx |-> StageLen(c2)[t]]
    BY DEF StageLen
  <2>5. StageLen(c2) = [t \in StageIdx |->
            IF t \notin X THEN StageLen(d)[t]
            ELSE IF t = 0 THEN F!Smaller(StageLeft(d)[0], BufSectors)
            ELSE d.ring.bufferSize[F!ReadBuffer(d.ring, t)]]
    BY <2>2, <2>3, <2>4
  <2> QED BY <2>1, <2>5, Same DEF F!LaunchLen
<1>14. Changes(d, e, Launching \cup {"ring"})
  BY <1>8, <1>10 DEF Launched, Changes
<1>15. StageLeft(e) = StageLeft(d) /\ e.fault = d.fault
  BY <1>8, <1>10, <1>12 DEF Launched, SameLengths
<1>16. Carries(d, e)
  <2>1. Carries(c2, e)
    BY <1>10, Untouched DEF PlaceFields
  <2> QED BY <1>8, <2>1, CarriesOn DEF Launched
<1> QED BY <1>10, <1>12, <1>13, <1>14, <1>15, <1>16

------------------------------------------------------------------------------
(* A buffer is passed on. *)

(* A stage that is not in flight is at rest. *)
LEMMA OutOfFlight ==
    ASSUME NEW d, NEW m, Base(d, m), NEW t \in StageIdx, ~d.ring.stageProcessing[t],
           t \notin Finishing(d, m)
    PROVE  Resting(d, m, t)
<1>1. CASE t = MmcStage(d)
  <2>1. m.after # "ring"
    BY <1>1 DEF Finishing
  <2> QED BY <1>1, <2>1 DEF Base, MmcOk, Resting
<1>2. CASE t # MmcStage(d) /\ t = UsbStage(d)
  BY <1>2 DEF Base, UsbOk, Resting
<1>3. CASE t # MmcStage(d) /\ t # UsbStage(d)
  BY <1>3 DEF Base, CryptOk, Resting
<1> QED BY <1>1, <1>2, <1>3

(* The status is sent on an endpoint that is free. *)
LEMMA CswFree ==
    ASSUME NEW d, IsDev(d), d.epIn.what = "none", NEW status, NEW e,
           e = MSC_BOT_SendCSW(d, status)
    PROVE  /\ Changes(d, e, {"bot_state", "epIn", "epOut"})
           /\ e.bot_state = "IDLE" /\ e.epOut = "cbw" /\ e.epIn = Csw(d, status)
<1>1. /\ Changes(d, e, {"bot_state", "epIn", "epOut", "fault"}) /\ e.fault = d.fault
      /\ e.bot_state = "IDLE" /\ e.epOut = "cbw" /\ e.epIn = Csw(d, status)
  BY CswSent
<1> QED BY <1>1 DEF Changes, Fields

(* d has become e: a buffer was passed on, the next pieces were launched, and   *)
(* when that was the last one the status was sent.                              *)
Completed(d, e, m) ==
    /\ Base(e, m) /\ RingOk(e, m) /\ e.fault = d.fault
    /\ Changes(d, e, Launching \cup {"ring", "bot_state"}) /\ Carries(d, e)

LEMMA CompletesOk ==
    ASSUME NEW d, NEW m, Base(d, m), d.cbw.len > 0,
           NEW s \in StageIdx, s \notin Finishing(d, m), Resting(d, m, s),
           F!RingInv(d.ring, d.cbw.len, StageLeft(d), StageLen(d), {s} \cup Finishing(d, m)),
           NEW e, e = Complete(d, s, StageLen(d)[s])
    PROVE  Completed(d, e, m)
<1> DEFINE p == bufferFIFO_processingComplete(d.ring, s, StageLen(d)[s])
           fin == {s} \cup Finishing(d, m)
           c == [d EXCEPT !.ring = p]
           b == RunStages(c)
<1>1. e = IF d.ring.processing /\ ~p.processing THEN transferComplete(b) ELSE b
  BY DEF Complete
<1>2. IsDev(d) /\ d.cbw.len \in Nat /\ s \in fin /\ d.reading \in BOOLEAN
  BY DEF Base, DevType
<1> HIDE DEF p, fin
<1>3. /\ p \in FifoStruct /\ p.numStages = d.ring.numStages /\ d.ring.processing
      /\ \A t \in p.exec :
            /\ t \in 0 .. d.ring.numStages - 1 /\ t \notin fin \ {s}
            /\ t # s => ~d.ring.stageProcessing[t]
            /\ p.stageProcessing[t]
            /\ t # 0 => 0 < p.bufferSize[ReadBuffer(p, t)]
      /\ \A t \in StageIdx : d.ring.stageProcessing[t] /\ t # s => p.stageProcessing[t]
      /\ ~p.processing =>
            /\ p.exec = {} /\ fin = {s}
            /\ \A t \in StageIdx : ~p.stageProcessing[t]
            /\ \A t \in 0 .. d.ring.numStages - 1 : StageLeft(d)[t] = 0
  <2>1. PassedOn(d.ring, p, s, StageLeft(d), fin)
    BY <1>2, PassOnFacts DEF p, fin
  <2> QED BY <2>1 DEF PassedOn
<1>4. d.ring.numStages \in {2, 3} /\ d.epIn.what \in {"none", "data"}
  BY <1>3 DEF Base, BotOk
<1>5. fin \ {s} = Finishing(d, m)
  BY DEF fin
<1>6. Changes(d, c, {"ring"}) /\ c.ring = p /\ c.fault = d.fault /\ c.cbw = d.cbw
  BY <1>2 DEF Changes, IsDev, Fields
<1> HIDE DEF c, b
<1>7. CASE p.processing
  <2>1. Base(c, m) /\ SameLengths(d, c, m)
    BY <1>3, <1>6, <1>7, RingMoves
  <2>2. Called(c, m)
    <3>1. ASSUME NEW t \in p.exec
          PROVE  /\ t \in StageIdx /\ t < p.numStages /\ Resting(c, m, t)
                 /\ t # 0 => BufferSize(c, t) > 0
      <4>1. t \in StageIdx /\ t < p.numStages
        BY <1>3, <1>4, StagesAre
      <4>2. t = s \/ (~d.ring.stageProcessing[t] /\ t \notin Finishing(d, m))
        BY <1>3, <1>5
      <4>3. Resting(d, m, t)
        BY <4>1, <4>2, OutOfFlight
      <4> QED BY <1>3, <1>6, <2>1, <4>1, <4>3 DEF SameLengths, BufferSize
    <3> QED BY <1>3, <1>6, <1>7, <2>1, <3>1 DEF Called
  <2>3. /\ Base(b, m) /\ b.fault = c.fault /\ StageLeft(b) = StageLeft(c)
        /\ Changes(c, b, Launching \cup {"ring"})
        /\ b.ring = [c.ring EXCEPT !.exec = {}]
        /\ StageLen(b) = F!LaunchLen(c.ring, StageLeft(c), StageLen(c)) /\ Carries(c, b)
    BY <2>2, RunOk DEF b
  <2>4. b.ring = [p EXCEPT !.exec = {}] /\ StageLeft(b) = StageLeft(d)
        /\ StageLen(b) = F!LaunchLen(p, StageLeft(d), StageLen(d))
    BY <1>6, <2>1, <2>3 DEF SameLengths
  <2>5. F!RingInv(b.ring, d.cbw.len, StageLeft(d), StageLen(b), fin \ {s})
    BY <1>2, <2>4, PassOnKeeps DEF p, fin
  <2>6. b.ring.processing /\ b.ring.numStages = d.ring.numStages
    BY <1>3, <1>7, <2>4 DEF FifoStruct
  <2>7. Changes(d, b, Launching \cup {"ring"})
    BY <1>6, <2>3 DEF Changes
  <2>8. b.cbw = d.cbw /\ b.reading = d.reading
    BY <2>7 DEF Changes, Fields, Launching
  <2>9. Finishing(b, m) = Finishing(d, m)
    BY <2>6, <2>8 DEF Finishing, MmcStage, LastStage
  <2>10. RingOk(b, m)
    BY <1>5, <2>4, <2>5, <2>6, <2>8, <2>9 DEF RingOk
  <2>11. e = b
    BY <1>1, <1>7
  <2>12. Carries(d, b)
    <3>1. Carries(d, c)
      BY <1>6, Untouched DEF PlaceFields
    <3> QED BY <2>3, <3>1, CarriesOn
  <2> QED BY <1>6, <2>3, <2>7, <2>10, <2>11, <2>12 DEF Completed, Changes
<1>8. CASE ~p.processing
  <2>1. /\ p.exec = {} /\ fin = {s}
        /\ \A t \in StageIdx : ~p.stageProcessing[t]
        /\ \A t \in 0 .. d.ring.numStages - 1 : StageLeft(d)[t] = 0
    BY <1>3, <1>8
  <2>2. Finishing(d, m) = {}
    BY <1>5, <2>1
  <2>3. \A t \in StageIdx : Resting(d, m, t)
    BY <1>3, <2>1, <2>2, OutOfFlight
  <2>4. ~MmcBusy(d, m) /\ ~UsbBusy(d) /\ ~CryptBusy(d) /\ d.mmcDataToTransfer = 0
    <3>1. /\ MmcStage(d) \in StageIdx /\ UsbStage(d) \in StageIdx
          /\ MmcStage(d) # UsbStage(d)
          /\ MmcStage(d) \in 0 .. d.ring.numStages - 1
          /\ d.ring.numStages = 3 => MmcStage(d) # 1 /\ UsbStage(d) # 1
      BY <1>2, <1>4, StagesDiffer, StagesAre
    <3>2. ~MmcBusy(d, m) /\ ~UsbBusy(d)
      BY <2>3, <3>1 DEF Resting
    <3>3. ~CryptBusy(d)
      <4>1. CryptBusy(d) => d.ring.numStages = 3
        BY DEF Base, CryptOk
      <4> QED BY <2>3, <3>1, <4>1, StagesAre DEF Resting
    <3>4. d.mmcDataToTransfer + CountedAhead(d) = 0
      BY <2>1, <3>1 DEF StageLeft
    <3>5. d.mmcDataToTransfer \in Nat /\ CountedAhead(d) \in Nat
      BY DEF Base, DevType, CountedAhead
    <3> QED BY <3>2, <3>3, <3>4, <3>5
  <2>5. Changes(c, b, {"ring"}) /\ b.ring = p
    <3>1. b = [c EXCEPT !.ring.exec = {}]
      BY <1>6, <2>1 DEF b, RunStages
    <3>2. [p EXCEPT !.exec = {}] = p
      BY <1>3, <2>1 DEF FifoStruct
    <3> QED BY <1>6, <3>1, <3>2 DEF Changes, IsDev, Fields
  <2>6. Changes(d, b, {"ring"})
    BY <1>6, <2>5 DEF Changes
  <2>7. b.mmcDataToTransfer = 0 /\ b.epIn = d.epIn /\ d.epIn.what = "none" /\ b.fault = d.fault
    BY <1>4, <2>4, <2>6 DEF Changes, Fields, UsbBusy
  <2>8. e = MSC_BOT_SendCSW(b, TRUE)
    BY <1>1, <1>3, <1>8, <2>7 DEF transferComplete
  <2>9. /\ Changes(b, e, {"bot_state", "epIn", "epOut"})
        /\ e.bot_state = "IDLE" /\ e.epOut = "cbw" /\ e.epIn = Csw(b, TRUE)
    <3>1. IsDev(b) /\ b.epIn.what = "none"
      BY <2>6, <2>7 DEF Changes
    <3> QED BY <2>8, <3>1, CswFree
  <2>10. e.fault = d.fault /\ e.epIn.what = "csw"
    BY <2>7, <2>9 DEF Csw, Changes, Fields
  <2>11. Changes(d, e, {"ring", "bot_state", "epIn", "epOut", "fault"}) /\ e.ring = p
    BY <2>5, <2>6, <2>9 DEF Changes, Fields
  <2>12. /\ DevType(e) /\ CardOk(e) /\ MainOk(e, m)
         /\ ~MmcBusy(e, m) /\ ~UsbBusy(e) /\ ~CryptBusy(e)
    <3>1. IsDev(d) /\ DevType(d) /\ CardOk(d) /\ MainOk(d, m)
      BY DEF Base
    <3>2. DevType(e)
      BY <1>3, <2>11, <3>1 DEF DevType, Changes, Fields
    <3>3. CardOk(e) /\ MainOk(e, m)
      BY <2>11, <3>1 DEF CardOk, MainOk, Changes, Fields, Doing
    <3>4. ~MmcBusy(e, m) /\ ~CryptBusy(e)
      BY <2>4, <2>11 DEF MmcBusy, CryptBusy, Changes, Fields
    <3>5. ~UsbBusy(e)
      BY <2>9, <2>10 DEF UsbBusy
    <3> QED BY <3>2, <3>3, <3>4, <3>5
  <2>13. MmcOk(e, m) /\ UsbOk(e) /\ CryptOk(e) /\ BotOk(e)
    BY <1>8, <2>9, <2>11, <2>12 DEF MmcOk, UsbOk, UsbBusy, CryptOk, BotOk
  <2>14. Base(e, m)
    BY <2>11, <2>12, <2>13 DEF Base, Changes
  <2>15. RingOk(e, m)
    BY <1>8, <2>1, <2>11 DEF RingOk
  <2>16. Changes(d, e, Launching \cup {"ring", "bot_state"})
    BY <2>11 DEF Changes, Launching
  <2>17. Carries(d, e)
    BY <2>11, Untouched DEF PlaceFields
  <2> QED BY <2>10, <2>14, <2>15, <2>16, <2>17 DEF Completed
<1> QED BY <1>3, <1>7, <1>8 DEF FifoStruct

------------------------------------------------------------------------------
(* The steps that leave the ring alone: the card, and the main loop. *)

Scheduler == {"op", "cplt", "g_emmc_user", "ready", "g_db_action", "visible", "disturbed"}

(* The place of the transfer, if there is one, is kept: unless a command with    *)
(* an address beyond its volume has come.                                       *)
Carried(d, e) ==
    /\ d.ring.processing => VolumeOk(d)
    /\ "range" \notin e.disturbed
    => (e.ring.processing => VolumeOk(e))

LEMMA CarriedIf ==
    ASSUME NEW d, NEW e, d.ring.processing, Carries(d, e)
    PROVE  Carried(d, e)
BY DEF Carries, Carried

LEMMA Scheduled ==
    ASSUME NEW d, NEW m, Base(d, m), RingOk(d, m), d.fault = {},
           NEW e, Changes(d, e, Scheduler),
           e.op \in Operations \cup {NoOp}, e.g_emmc_user \in Users,
           e.ready \subseteq {"DB", "STORAGE"}, e.g_db_action \in {"none", "read", "write"},
           CardOk(e), CountedAhead(e) = CountedAhead(d), KeepsPlace(d, e),
           NEW n, MainType(n), MainOk(e, n), n.after = "ring" <=> m.after = "ring",
           MmcBusy(e, n) => MmcBusy(d, m)
    PROVE  Base(e, n) /\ RingOk(e, n) /\ e.fault = {} /\ Carried(d, e)
<1>1. /\ IsDev(d) /\ DevType(d) /\ MmcOk(d, m) /\ UsbOk(d) /\ CryptOk(d) /\ BotOk(d)
  BY DEF Base
<1>2. /\ e.reading = d.reading /\ e.writeLen = d.writeLen /\ e.crypt = d.crypt
      /\ e.mmcReadLen = d.mmcReadLen /\ e.epIn = d.epIn /\ e.epOut = d.epOut
      /\ e.g_cryptOutInt = d.g_cryptOutInt /\ e.mmcStageIdx = d.mmcStageIdx
      /\ e.mmcDataToTransfer = d.mmcDataToTransfer /\ e.scsi_blk_len = d.scsi_blk_len
      /\ e.stageIdx = d.stageIdx /\ e.g_usb_transmitting = d.g_usb_transmitting
      /\ e.bot_state = d.bot_state /\ e.ring = d.ring /\ e.cbw = d.cbw /\ e.fault = d.fault
  BY DEF Changes, Fields, Scheduler
<1>3. MmcStage(e) = MmcStage(d) /\ UsbStage(e) = UsbStage(d)
  BY <1>2 DEF MmcStage, UsbStage, LastStage
<1>4. StageLeft(e) = StageLeft(d) /\ StageLen(e) = StageLen(d)
  BY <1>2, <1>3 DEF StageLeft, StageLen
<1>5. DevType(e)
  BY <1>1 DEF Changes, Fields, Scheduler, DevType
<1>6. MmcOk(e, n) /\ UsbOk(e) /\ CryptOk(e) /\ BotOk(e)
  <2>1. MmcOk(e, n)
    BY <1>1, <1>2, <1>3 DEF MmcOk
  <2>2. UsbOk(e)
    BY <1>1, <1>2, <1>3 DEF UsbOk, UsbBusy
  <2>3. CryptOk(e) /\ BotOk(e)
    BY <1>1, <1>2 DEF CryptOk, CryptBusy, BotOk
  <2> QED BY <2>1, <2>2, <2>3
<1>7. Finishing(e, n) = Finishing(d, m)
  BY <1>3 DEF Finishing
<1>8. RingOk(e, n)
  BY <1>2, <1>4, <1>7 DEF RingOk
<1>9. Carried(d, e)
  <2>1. e.mmcBlockAddr = d.mmcBlockAddr
    BY DEF Changes, Fields, Scheduler
  <2>2. Carries(d, e)
    BY <1>2, <2>1, Placed
  <2> QED BY <1>2, <2>2 DEF Carries, Carried
<1> QED BY <1>2, <1>5, <1>6, <1>8, <1>9 DEF Base, Changes

(* What is to be shown of a step. *)
Kept == /\ Base(dev', main') /\ RingOk(dev', main') /\ dev'.fault = {}
        /\ Carried(dev, dev')

LEMMA UndisturbedFacts ==
    ASSUME Undisturbed
    PROVE  /\ Base(dev, main) /\ RingOk(dev, main) /\ dev.fault = {}
           /\ IsDev(dev) /\ DevType(dev) /\ CardOk(dev) /\ MainType(main)
           /\ MainOk(dev, main) /\ BotOk(dev)
BY DEF Undisturbed, Base

LEMMA ReadEndsKeeps == ASSUME Undisturbed, ReadEnds PROVE Kept
<1>1. /\ IsDev(dev) /\ DevType(dev) /\ CardOk(dev) /\ MainOk(dev, main)
  BY UndisturbedFacts
<1>2. dev.op.kind = "read" /\ dev.op # NoOp /\ dev.cplt = {} /\ dev.op.len > 0
  BY <1>1 DEF ReadEnds, CardOk, NoOp
<1>3. Changes(dev, dev', {"op", "cplt"}) /\ dev'.op = NoOp /\ dev'.cplt = {"rx"}
      /\ main' = main
  BY <1>1, <1>2 DEF ReadEnds, Flag, Changes, IsDev, Fields
<1>4. CardOk(dev')
  BY <1>1, <1>2, <1>3 DEF Changes, Fields, CardOk, Doing, NoOp
<1>5. MainOk(dev', main)
  BY <1>1, <1>2, <1>3 DEF Changes, Fields, MainOk, Doing
<1>6. CountedAhead(dev') = CountedAhead(dev)
  BY <1>2, <1>3 DEF CountedAhead, NoOp
<1>7. MmcBusy(dev', main) => MmcBusy(dev, main)
  BY <1>3 DEF Changes, Fields, MmcBusy
<1>8. Changes(dev, dev', Scheduler)
  BY <1>3 DEF Changes, Scheduler
<1>9. /\ dev'.op \in Operations \cup {NoOp} /\ dev'.g_emmc_user \in Users
      /\ dev'.ready \subseteq {"DB", "STORAGE"}
      /\ dev'.g_db_action \in {"none", "read", "write"}
  BY <1>1, <1>3 DEF Changes, Fields, DevType
<1>10. KeepsPlace(dev, dev')
  BY <1>3 DEF KeepsPlace
<1> QED
  BY <1>3, <1>4, <1>5, <1>6, <1>7, <1>8, <1>9, <1>10, UndisturbedFacts, Scheduled DEF Kept

LEMMA WriteDmaEndsKeeps == ASSUME Undisturbed, WriteDmaEnds PROVE Kept
<1>1. /\ IsDev(dev) /\ DevType(dev) /\ CardOk(dev) /\ MainOk(dev, main)
  BY UndisturbedFacts
<1>2. dev.op.kind = "write" /\ dev.op # NoOp /\ dev.cplt = {} /\ dev.op.len > 0
  BY <1>1 DEF WriteDmaEnds, CardOk, NoOp
<1>3. /\ Changes(dev, dev', {"op", "cplt"})
      /\ dev'.op = [dev.op EXCEPT !.kind = "write_wait"] /\ dev'.cplt = {"tx_dma"}
      /\ main' = main
  BY <1>1, <1>2 DEF WriteDmaEnds, Changes, IsDev, Fields
<1>4. /\ dev'.op \in Operations /\ dev'.op.kind = "write_wait" /\ dev'.op # NoOp
      /\ dev'.op.len = dev.op.len /\ dev'.op.buf = dev.op.buf
  <2>1. dev.op \in Operations
    BY <1>1, <1>2 DEF DevType
  <2> QED BY <1>3, <2>1 DEF Operations, NoOp
<1>5. CardOk(dev')
  BY <1>1, <1>2, <1>3, <1>4 DEF Changes, Fields, CardOk, Doing
<1>6. MainOk(dev', main)
  BY <1>1, <1>2, <1>3 DEF Changes, Fields, MainOk, Doing
<1>7. CountedAhead(dev') = CountedAhead(dev)
  BY <1>2, <1>3, <1>4 DEF CountedAhead
<1>8. MmcBusy(dev', main) => MmcBusy(dev, main)
  BY <1>3 DEF Changes, Fields, MmcBusy
<1>9. Changes(dev, dev', Scheduler)
  BY <1>3 DEF Changes, Scheduler
<1>10. /\ dev'.op \in Operations \cup {NoOp} /\ dev'.g_emmc_user \in Users
       /\ dev'.ready \subseteq {"DB", "STORAGE"}
       /\ dev'.g_db_action \in {"none", "read", "write"}
  BY <1>1, <1>3, <1>4 DEF Changes, Fields, DevType
<1>11. KeepsPlace(dev, dev')
  <2>1. dev'.op.addr = dev.op.addr
    <3>1. dev.op \in Operations
      BY <1>1, <1>2 DEF DevType
    <3> QED BY <1>3, <3>1 DEF Operations
  <2>2. dev'.g_emmc_user = dev.g_emmc_user
    BY <1>3 DEF Changes, Fields
  <2> QED BY <1>2, <2>1, <2>2 DEF KeepsPlace
<1> QED BY <1>3, <1>5, <1>6, <1>7, <1>8, <1>9, <1>10, <1>11, UndisturbedFacts,
     Scheduled DEF Kept

LEMMA WriteEndsKeeps == ASSUME Undisturbed, WriteEnds PROVE Kept
<1>1. /\ IsDev(dev) /\ DevType(dev) /\ CardOk(dev) /\ MainOk(dev, main)
  BY UndisturbedFacts
<1>2. dev.op.kind = "write_data" /\ dev.op # NoOp /\ dev.cplt = {}
  BY <1>1 DEF WriteEnds, CardOk, NoOp
<1>3. Changes(dev, dev', {"op", "cplt"}) /\ dev'.op = NoOp /\ dev'.cplt = {"tx"}
      /\ main' = main
  BY <1>1, <1>2 DEF WriteEnds, Flag, Changes, IsDev, Fields
<1>4. CardOk(dev')
  BY <1>1, <1>2, <1>3 DEF Changes, Fields, CardOk, Doing, NoOp
<1>5. MainOk(dev', main)
  BY <1>1, <1>2, <1>3 DEF Changes, Fields, MainOk, Doing
<1>6. CountedAhead(dev') = CountedAhead(dev)
  BY <1>2, <1>3 DEF Changes, Fields, CountedAhead
<1>7. MmcBusy(dev', main) => MmcBusy(dev, main)
  BY <1>3 DEF Changes, Fields, MmcBusy
<1>8. Changes(dev, dev', Scheduler)
  BY <1>3 DEF Changes, Scheduler
<1>9. /\ dev'.op \in Operations \cup {NoOp} /\ dev'.g_emmc_user \in Users
      /\ dev'.ready \subseteq {"DB", "STORAGE"}
      /\ dev'.g_db_action \in {"none", "read", "write"}
  BY <1>1, <1>3 DEF Changes, Fields, DevType
<1>10. KeepsPlace(dev, dev')
  BY <1>3 DEF KeepsPlace
<1> QED
  BY <1>3, <1>4, <1>5, <1>6, <1>7, <1>8, <1>9, <1>10, UndisturbedFacts, Scheduled DEF Kept

(* The database takes the completion of its own operation. *)
LEMMA DbCompleteKeeps == ASSUME Undisturbed, DbComplete PROVE Kept
<1>1. /\ IsDev(dev) /\ DevType(dev) /\ CardOk(dev) /\ MainType(main) /\ MainOk(dev, main)
  BY UndisturbedFacts
<1>2. PICK f \in {"read_db", "write_db"} :
        /\ main.pc = "loop" /\ f \in dev.cplt
        /\ dev' = Taken(f)
        /\ main' = [main EXCEPT !.pc = "done", !.after = "db"]
  BY DEF DbComplete, At
<1>3. dev.op = NoOp /\ dev.g_emmc_user = "DB" /\ dev.cplt = {f}
  BY <1>1, <1>2 DEF CardOk
<1>4. Changes(dev, dev', {"cplt"}) /\ dev'.cplt = {}
  BY <1>1, <1>2, <1>3 DEF Taken, Changes, IsDev, Fields
<1>5. /\ main.after = "none" /\ MainType(main')
      /\ main'.pc = "done" /\ main'.after = "db"
  <2>1. main.after = "none"
    BY <1>1, <1>2 DEF MainOk, Idle
  <2> QED BY <1>1, <1>2, <2>1 DEF MainType
<1>6. CardOk(dev')
  BY <1>1, <1>3, <1>4 DEF Changes, Fields, CardOk, Doing, NoOp
<1>7. MainType(main') /\ MainOk(dev', main')
  <2>2. /\ dev'.g_emmc_user = "DB" /\ dev'.ready = dev.ready /\ dev'.op = NoOp
        /\ dev'.g_db_action = dev.g_db_action
    BY <1>3, <1>4 DEF Changes, Fields
  <2>3. "DB" \notin dev.ready /\ dev.g_db_action # "none"
    BY <1>1, <1>2, <1>3 DEF MainOk
  <2> QED BY <1>4, <1>5, <2>2, <2>3 DEF MainOk, Doing
<1>8. CountedAhead(dev') = CountedAhead(dev)
  BY <1>3, <1>4 DEF Changes, Fields, CountedAhead
<1>9. MmcBusy(dev', main') => MmcBusy(dev, main)
  BY <1>4, <1>5 DEF Changes, Fields, MmcBusy
<1>10. main'.after = "ring" <=> main.after = "ring"
  BY <1>5
<1>11. Changes(dev, dev', Scheduler)
  BY <1>4 DEF Changes, Scheduler
<1>12. /\ dev'.op \in Operations \cup {NoOp} /\ dev'.g_emmc_user \in Users
       /\ dev'.ready \subseteq {"DB", "STORAGE"}
       /\ dev'.g_db_action \in {"none", "read", "write"}
  BY <1>1, <1>4 DEF Changes, Fields, DevType
<1>13. KeepsPlace(dev, dev')
  BY <1>3, <1>4 DEF KeepsPlace, Changes, Fields
<1> QED BY <1>6, <1>7, <1>8, <1>9, <1>10, <1>11, <1>12, <1>13, UndisturbedFacts,
     Scheduled DEF Kept

(* emmc_user_schedule called from the main loop, step by step. *)
LEMMA DoneKeeps == ASSUME Undisturbed, emmc_user_done PROVE Kept
<1>1. /\ IsDev(dev) /\ DevType(dev) /\ CardOk(dev) /\ MainType(main) /\ MainOk(dev, main)
  BY UndisturbedFacts
<1>2. /\ main.pc = "done" /\ dev' = [dev EXCEPT !.g_emmc_user = "NONE"]
      /\ main' = [main EXCEPT !.pc = "test"]
  BY DEF emmc_user_done, At, Goto
<1>3. Changes(dev, dev', {"g_emmc_user"}) /\ dev'.g_emmc_user = "NONE"
  BY <1>1, <1>2 DEF Changes, IsDev, Fields
<1>4. main'.pc = "test" /\ main'.user = main.user /\ main'.after = main.after /\ MainType(main')
  BY <1>1, <1>2 DEF MainType
<1>5. dev.op = NoOp /\ dev.cplt = {}
  BY <1>1, <1>2 DEF MainOk, Doing
<1>6. dev'.op = dev.op /\ dev'.cplt = dev.cplt /\ dev'.ready = dev.ready
      /\ dev'.g_db_action = dev.g_db_action
  BY <1>3 DEF Changes, Fields
<1>7. CardOk(dev')
  BY <1>3, <1>5, <1>6 DEF CardOk, Doing, NoOp
<1>8. MainOk(dev', main')
  BY <1>1, <1>3, <1>4, <1>6 DEF MainOk, DevType
<1>9. CountedAhead(dev') = CountedAhead(dev)
  BY <1>3, <1>5, <1>6 DEF CountedAhead, NoOp
<1>10. MmcBusy(dev', main') => MmcBusy(dev, main)
  BY <1>3, <1>4, <1>6 DEF MmcBusy
<1>11. Changes(dev, dev', Scheduler)
  BY <1>3 DEF Changes, Scheduler
<1>12. /\ dev'.op \in Operations \cup {NoOp} /\ dev'.g_emmc_user \in Users
       /\ dev'.ready \subseteq {"DB", "STORAGE"}
       /\ dev'.g_db_action \in {"none", "read", "write"}
  BY <1>1, <1>3, <1>6 DEF DevType, Users
<1>13. KeepsPlace(dev, dev')
  BY <1>3 DEF KeepsPlace
<1> QED BY <1>4, <1>7, <1>8, <1>9, <1>10, <1>11, <1>12, <1>13, UndisturbedFacts,
     Scheduled DEF Kept

LEMMA PicksKeep ==
    ASSUME Undisturbed, TestNone \/ PickDb \/ PickStorage
    PROVE  Kept
<1>1. /\ IsDev(dev) /\ DevType(dev) /\ CardOk(dev) /\ MainType(main) /\ MainOk(dev, main)
  BY UndisturbedFacts
<1>2. dev' = dev
  BY DEF TestNone, PickDb, PickStorage
<1>3. MainType(main') /\ main'.after = main.after /\ MainOk(dev, main')
  <2>1. main.pc \in {"test", "pick_db", "pick_storage"}
    BY DEF TestNone, PickDb, PickStorage, At
  <2>2. CASE Return
    <3>1. CASE main.after = "none"
      <4>1. main' = Idle
        BY <2>2, <3>1 DEF Return
      <4> QED BY <1>1, <2>1, <3>1, <4>1 DEF MainOk, Idle, MainType, Users
    <3>2. CASE main.after # "none"
      <4>1. main' = [main EXCEPT !.pc = "after"]
        BY <2>2, <3>2 DEF Return
      <4>2. MainType(main') /\ main'.pc = "after" /\ main'.after = main.after
        BY <1>1, <4>1 DEF MainType
      <4> QED BY <1>1, <2>1, <3>2, <4>2 DEF MainOk
    <3> QED BY <3>1, <3>2
  <2>3. CASE \E pc \in {"pick_db", "pick_storage"} : main' = [main EXCEPT !.pc = pc]
    <3>1. /\ MainType(main') /\ main'.pc \in {"pick_db", "pick_storage"}
          /\ main'.after = main.after
      BY <1>1, <2>3 DEF MainType
    <3> QED BY <1>1, <2>1, <3>1 DEF MainOk
  <2>4. CASE \E u \in {"DB", "STORAGE"} :
                u \in dev.ready /\ main' = [main EXCEPT !.pc = "assign", !.user = u]
    <3>1. PICK u \in {"DB", "STORAGE"} :
             u \in dev.ready /\ main' = [main EXCEPT !.pc = "assign", !.user = u]
      BY <2>4
    <3>2. MainType(main') /\ main'.pc = "assign" /\ main'.user = u /\ main'.after = main.after
      BY <1>1, <3>1 DEF MainType, Users
    <3> QED BY <1>1, <2>1, <3>1, <3>2 DEF MainOk
  <2> QED BY <2>2, <2>3, <2>4 DEF TestNone, PickDb, PickStorage, Goto
<1>4. Changes(dev, dev', Scheduler)
  BY <1>1, <1>2 DEF Changes
<1>5. MmcBusy(dev', main') => MmcBusy(dev, main)
  BY <1>2, <1>3 DEF MmcBusy
<1>6. /\ dev'.op \in Operations \cup {NoOp} /\ dev'.g_emmc_user \in Users
      /\ dev'.ready \subseteq {"DB", "STORAGE"}
      /\ dev'.g_db_action \in {"none", "read", "write"}
  BY <1>1, <1>2 DEF DevType
<1>7. CardOk(dev') /\ CountedAhead(dev') = CountedAhead(dev) /\ MainOk(dev', main')
  BY <1>1, <1>2, <1>3
<1>8. KeepsPlace(dev, dev')
  BY <1>2 DEF KeepsPlace
<1> QED BY <1>3, <1>4, <1>5, <1>6, <1>7, <1>8, UndisturbedFacts, Scheduled DEF Kept

(* The race is not lost: no interrupt has given the eMMC away since the test. *)
LEMMA AssignKeeps ==
    ASSUME Undisturbed, Assign, "race" \notin dev'.disturbed
    PROVE  Kept
<1>1. /\ IsDev(dev) /\ DevType(dev) /\ CardOk(dev) /\ MainType(main) /\ MainOk(dev, main)
  BY UndisturbedFacts
<1> DEFINE more == IF dev.g_emmc_user = "NONE" THEN dev.disturbed
                   ELSE dev.disturbed \cup {"race"}
<1>2. /\ main.pc = "assign" /\ main' = [main EXCEPT !.pc = "clear"]
      /\ dev' = [dev EXCEPT !.g_emmc_user = main.user, !.disturbed = more]
  BY <1>1 DEF Assign, At, Goto, IsDev, Fields
<1> HIDE DEF more
<1>3. /\ Changes(dev, dev', {"g_emmc_user", "disturbed"}) /\ dev'.g_emmc_user = main.user
      /\ dev'.disturbed = more
  BY <1>1, <1>2 DEF Changes, IsDev, Fields
<1>4. dev.g_emmc_user = "NONE"
  BY <1>3 DEF more
<1>5. MainType(main') /\ main'.pc = "clear" /\ main'.user = main.user /\ main'.after = main.after
  BY <1>1, <1>2 DEF MainType
<1>6. main.user \in dev.ready /\ main.user \in {"DB", "STORAGE"}
  BY <1>1, <1>2, <1>4 DEF MainOk, DevType
<1>7. dev.op = NoOp /\ dev.cplt = {}
  BY <1>1, <1>4 DEF CardOk, Doing
<1>8. dev'.op = dev.op /\ dev'.cplt = dev.cplt /\ dev'.ready = dev.ready
      /\ dev'.g_db_action = dev.g_db_action
  BY <1>3 DEF Changes, Fields
<1>9. CardOk(dev')
  BY <1>3, <1>7, <1>8 DEF CardOk, Doing, NoOp
<1>10. MainOk(dev', main')
  BY <1>1, <1>2, <1>3, <1>5, <1>6, <1>7, <1>8 DEF MainOk, Doing
<1>11. CountedAhead(dev') = CountedAhead(dev)
  BY <1>7, <1>8 DEF CountedAhead, NoOp
<1>12. MmcBusy(dev', main') => MmcBusy(dev, main)
  BY <1>3, <1>5, <1>6, <1>8 DEF MmcBusy
<1>13. Changes(dev, dev', Scheduler)
  BY <1>3 DEF Changes, Scheduler
<1>14. /\ dev'.op \in Operations \cup {NoOp} /\ dev'.g_emmc_user \in Users
       /\ dev'.ready \subseteq {"DB", "STORAGE"}
       /\ dev'.g_db_action \in {"none", "read", "write"}
  BY <1>1, <1>3, <1>6, <1>8 DEF DevType, Users
<1>15. KeepsPlace(dev, dev')
  BY <1>7, <1>8 DEF KeepsPlace
<1> QED BY <1>5, <1>9, <1>10, <1>11, <1>12, <1>13, <1>14, <1>15, UndisturbedFacts,
     Scheduled DEF Kept

LEMMA ClearReadyKeeps == ASSUME Undisturbed, ClearReady PROVE Kept
<1>1. /\ IsDev(dev) /\ DevType(dev) /\ CardOk(dev) /\ MainType(main) /\ MainOk(dev, main)
  BY UndisturbedFacts
<1>2. /\ main.pc = "clear" /\ main' = [main EXCEPT !.pc = "start"]
      /\ dev' = [dev EXCEPT !.ready = @ \ {main.user}]
  BY DEF ClearReady, At, Goto
<1>3. Changes(dev, dev', {"ready"}) /\ dev'.ready = dev.ready \ {main.user}
  BY <1>1, <1>2 DEF Changes, IsDev, Fields
<1>4. MainType(main') /\ main'.pc = "start" /\ main'.user = main.user /\ main'.after = main.after
  BY <1>1, <1>2 DEF MainType
<1>5. dev.op = NoOp /\ dev.cplt = {} /\ dev.g_emmc_user = main.user
  BY <1>1, <1>2 DEF MainOk, Doing
<1>6. dev'.op = dev.op /\ dev'.cplt = dev.cplt /\ dev'.g_emmc_user = dev.g_emmc_user
      /\ dev'.g_db_action = dev.g_db_action
  BY <1>3 DEF Changes, Fields
<1>7. CardOk(dev')
  BY <1>1, <1>3 DEF CardOk, Doing, Changes, Fields
<1>8. MainOk(dev', main')
  BY <1>1, <1>2, <1>3, <1>4, <1>5, <1>6 DEF MainOk, Doing
<1>9. CountedAhead(dev') = CountedAhead(dev)
  BY <1>5, <1>6 DEF CountedAhead, NoOp
<1>10. MmcBusy(dev', main') => MmcBusy(dev, main)
  BY <1>3, <1>4, <1>6 DEF MmcBusy
<1>11. Changes(dev, dev', Scheduler)
  BY <1>3 DEF Changes, Scheduler
<1>12. /\ dev'.op \in Operations \cup {NoOp} /\ dev'.g_emmc_user \in Users
       /\ dev'.ready \subseteq {"DB", "STORAGE"}
       /\ dev'.g_db_action \in {"none", "read", "write"}
  BY <1>1, <1>3, <1>6 DEF DevType, Users
<1>13. KeepsPlace(dev, dev')
  BY <1>5, <1>6 DEF KeepsPlace
<1> QED BY <1>4, <1>7, <1>8, <1>9, <1>10, <1>11, <1>12, <1>13, UndisturbedFacts,
     Scheduled DEF Kept

LEMMA StartKeeps == ASSUME Undisturbed, Start PROVE Kept
<1>1. /\ IsDev(dev) /\ DevType(dev) /\ CardOk(dev) /\ MainType(main) /\ MainOk(dev, main)
      /\ BotOk(dev)
  BY UndisturbedFacts
<1>2. main.pc = "start" /\ dev' = emmc_user_start(dev, main.user) /\ Return
  BY DEF Start, At
<1>3. dev.op = NoOp /\ dev.cplt = {} /\ dev.g_emmc_user = main.user
      /\ main.user \in {"DB", "STORAGE"} /\ main.user \notin dev.ready
  BY <1>1, <1>2 DEF MainOk, Doing, MainType, Users
<1>4. main.user = "DB" => dev.g_db_action # "none"
  BY <1>1, <1>3 DEF MainOk
<1>5. /\ Changes(dev, dev', {"op"}) /\ CardOk(dev') /\ DevType(dev')
      /\ dev'.op = NoOp \/ dev'.op.kind \in {"read", "write"}
      /\ Carries(dev, dev')
  BY <1>1, <1>2, <1>3, <1>4, StartOk
<1>6. /\ dev'.cplt = dev.cplt /\ dev'.g_emmc_user = dev.g_emmc_user /\ dev'.ready = dev.ready
      /\ dev'.g_db_action = dev.g_db_action
  BY <1>5 DEF Changes, Fields
<1>7. MainType(main') /\ main'.after = main.after /\ MainOk(dev', main')
  <2>1. CASE main.after = "none"
    <3>1. main' = Idle
      BY <1>2, <2>1 DEF Return
    <3> QED BY <1>1, <1>2, <1>3, <1>6, <2>1, <3>1 DEF MainOk, Idle, MainType, Users
  <2>2. CASE main.after # "none"
    <3>1. main' = [main EXCEPT !.pc = "after"]
      BY <1>2, <2>2 DEF Return
    <3>2. MainType(main') /\ main'.pc = "after" /\ main'.after = main.after
      BY <1>1, <3>1 DEF MainType
    <3> QED BY <1>1, <1>2, <1>3, <1>6, <2>2, <3>2 DEF MainOk
  <2> QED BY <2>1, <2>2
<1>8. CountedAhead(dev') = CountedAhead(dev)
  BY <1>3, <1>5, <1>6 DEF CountedAhead, NoOp
<1>9. MmcBusy(dev', main') => MmcBusy(dev, main)
  BY <1>6, <1>7 DEF MmcBusy
<1>10. Changes(dev, dev', Scheduler)
  BY <1>5 DEF Changes, Scheduler
<1>11. /\ dev'.op \in Operations \cup {NoOp} /\ dev'.g_emmc_user \in Users
       /\ dev'.ready \subseteq {"DB", "STORAGE"}
       /\ dev'.g_db_action \in {"none", "read", "write"}
  BY <1>5 DEF DevType
<1>12. KeepsPlace(dev, dev')
  BY <1>5 DEF KeepsPlace
<1> QED
  BY <1>5, <1>7, <1>8, <1>9, <1>10, <1>11, <1>12, UndisturbedFacts, Scheduled DEF Kept

LEMMA DbAfterKeeps == ASSUME Undisturbed, DbAfter PROVE Kept
<1>1. /\ IsDev(dev) /\ DevType(dev) /\ CardOk(dev) /\ MainType(main) /\ MainOk(dev, main)
  BY UndisturbedFacts
<1>2. main.pc = "after" /\ main.after = "db"
  BY DEF DbAfter, At
<1>3. dev.g_emmc_user # "DB" /\ "DB" \notin dev.ready /\ dev.g_emmc_user \notin dev.ready
  BY <1>1, <1>2 DEF MainOk
<1>4. /\ Changes(dev, dev', {"g_db_action", "ready"})
      /\ \/ dev'.g_db_action = "none" /\ dev'.ready = dev.ready /\ main' = Idle
         \/ /\ dev'.g_db_action = "write" /\ dev'.ready = dev.ready \cup {"DB"}
            /\ main' = [Idle EXCEPT !.pc = "test"]
  <2>1. CASE dev' = [dev EXCEPT !.g_db_action = "none"] /\ main' = Idle
    BY <1>1, <2>1 DEF Changes, IsDev, Fields
  <2>2. CASE /\ dev' = MarkReady([dev EXCEPT !.g_db_action = "write"], "DB")
             /\ main' = [Idle EXCEPT !.pc = "test"]
    <3> DEFINE c == [dev EXCEPT !.g_db_action = "write"]
    <3>1. Changes(dev, c, {"g_db_action"}) /\ c.g_db_action = "write"
      BY <1>1 DEF Changes, IsDev, Fields
    <3> HIDE DEF c
    <3>2. c.ready = dev.ready
      BY <3>1 DEF Changes, Fields
    <3>3. dev' = [c EXCEPT !.ready = @ \cup {"DB"}]
      BY <1>3, <2>2, <3>2 DEF c, MarkReady
    <3>4. Changes(c, dev', {"ready"}) /\ dev'.ready = c.ready \cup {"DB"}
      BY <3>1, <3>3 DEF Changes, IsDev, Fields
    <3>5. Changes(dev, dev', {"g_db_action", "ready"}) /\ dev'.g_db_action = "write"
      BY <3>1, <3>4 DEF Changes, Fields
    <3> QED BY <2>2, <3>2, <3>4, <3>5
  <2> QED BY <2>1, <2>2 DEF DbAfter
<1>5. dev'.op = dev.op /\ dev'.cplt = dev.cplt /\ dev'.g_emmc_user = dev.g_emmc_user
  BY <1>4 DEF Changes, Fields
<1>6. CardOk(dev')
  BY <1>1, <1>4 DEF CardOk, Doing, Changes, Fields
<1>7. MainType(main') /\ MainOk(dev', main') /\ main'.after = "none"
  <2>1. main' = Idle \/ main' = [Idle EXCEPT !.pc = "test"]
    BY <1>4
  <2>2. MainType(main') /\ main'.pc \in {"loop", "test"} /\ main'.after = "none"
        /\ (main'.pc = "loop" => main' = Idle)
    BY <2>1 DEF Idle, MainType, Users
  <2> QED BY <1>3, <1>4, <1>5, <2>2 DEF MainOk
<1>8. CountedAhead(dev') = CountedAhead(dev)
  BY <1>4 DEF CountedAhead, Changes, Fields
<1>9. MmcBusy(dev', main') => MmcBusy(dev, main)
  BY <1>4, <1>5, <1>7 DEF MmcBusy
<1>10. Changes(dev, dev', Scheduler)
  BY <1>4 DEF Changes, Scheduler
<1>11. /\ dev'.op \in Operations \cup {NoOp} /\ dev'.g_emmc_user \in Users
       /\ dev'.ready \subseteq {"DB", "STORAGE"}
       /\ dev'.g_db_action \in {"none", "read", "write"}
  BY <1>1, <1>4, <1>5 DEF DevType, Users
<1>12. KeepsPlace(dev, dev')
  BY <1>5 DEF KeepsPlace
<1> QED BY <1>2, <1>6, <1>7, <1>8, <1>9, <1>10, <1>11, <1>12, UndisturbedFacts,
     Scheduled DEF Kept

LEMMA DbFromMainKeeps == ASSUME Undisturbed, DbFromMain PROVE Kept
<1>1. /\ IsDev(dev) /\ DevType(dev) /\ CardOk(dev) /\ MainType(main) /\ MainOk(dev, main)
  BY UndisturbedFacts
<1>2. PICK action \in {"read", "write"} :
        dev' = MarkReady([dev EXCEPT !.g_db_action = action], "DB")
  BY DEF DbFromMain
<1>3. main.pc = "loop" /\ dev.g_db_action = "none" /\ main' = [main EXCEPT !.pc = "test"]
  BY DEF DbFromMain, At, Goto
<1>4. "DB" \notin dev.ready /\ dev.g_emmc_user # "DB" /\ dev.g_emmc_user \notin dev.ready
      /\ main = Idle
  BY <1>1, <1>3 DEF MainOk
<1>5. /\ Changes(dev, dev', {"g_db_action", "ready"}) /\ dev'.g_db_action = action
      /\ dev'.ready = dev.ready \cup {"DB"}
  <2> DEFINE c == [dev EXCEPT !.g_db_action = action]
  <2>1. Changes(dev, c, {"g_db_action"}) /\ c.g_db_action = action
    BY <1>1 DEF Changes, IsDev, Fields
  <2> HIDE DEF c
  <2>2. c.ready = dev.ready
    BY <2>1 DEF Changes, Fields
  <2>3. dev' = [c EXCEPT !.ready = @ \cup {"DB"}]
    BY <1>2, <1>4, <2>2 DEF c, MarkReady
  <2>4. Changes(c, dev', {"ready"}) /\ dev'.ready = c.ready \cup {"DB"}
    BY <2>1, <2>3 DEF Changes, IsDev, Fields
  <2> QED BY <2>1, <2>2, <2>4 DEF Changes, Fields
<1>6. dev'.op = dev.op /\ dev'.cplt = dev.cplt /\ dev'.g_emmc_user = dev.g_emmc_user
  BY <1>5 DEF Changes, Fields
<1>7. CardOk(dev')
  BY <1>1, <1>5 DEF CardOk, Doing, Changes, Fields
<1>8. MainType(main') /\ MainOk(dev', main') /\ main'.after = "none" /\ main.after = "none"
  <2>1. MainType(main') /\ main'.pc = "test" /\ main'.after = "none" /\ main.after = "none"
    BY <1>3, <1>4 DEF Idle, MainType, Users
  <2> QED BY <1>4, <1>5, <1>6, <2>1 DEF MainOk
<1>9. CountedAhead(dev') = CountedAhead(dev)
  BY <1>5 DEF CountedAhead, Changes, Fields
<1>10. MmcBusy(dev', main') => MmcBusy(dev, main)
  BY <1>5, <1>6, <1>8 DEF MmcBusy
<1>11. Changes(dev, dev', Scheduler)
  BY <1>5 DEF Changes, Scheduler
<1>12. /\ dev'.op \in Operations \cup {NoOp} /\ dev'.g_emmc_user \in Users
       /\ dev'.ready \subseteq {"DB", "STORAGE"}
       /\ dev'.g_db_action \in {"none", "read", "write"}
  BY <1>1, <1>5, <1>6 DEF DevType, Users
<1>13. KeepsPlace(dev, dev')
  BY <1>6 DEF KeepsPlace
<1> QED
  BY <1>7, <1>8, <1>9, <1>10, <1>11, <1>12, <1>13, UndisturbedFacts, Scheduled DEF Kept

LEMMA DbFromInterruptKeeps == ASSUME Undisturbed, DbFromInterrupt PROVE Kept
<1>1. /\ IsDev(dev) /\ DevType(dev) /\ CardOk(dev) /\ MainType(main) /\ MainOk(dev, main)
      /\ BotOk(dev)
  BY UndisturbedFacts
<1>2. PICK action \in {"read", "write"} :
        dev' = emmc_user_queue([dev EXCEPT !.g_db_action = action], "DB")
  BY DEF DbFromInterrupt
<1>3. dev.g_db_action = "none" /\ main' = main
  BY DEF DbFromInterrupt
<1>4. "DB" \notin dev.ready /\ dev.g_emmc_user # "DB" /\ main.after # "db"
  BY <1>1, <1>3 DEF MainOk
<1> DEFINE c == [dev EXCEPT !.g_db_action = action]
<1>5. Changes(dev, c, {"g_db_action"}) /\ c.g_db_action = action
  BY <1>1 DEF Changes, IsDev, Fields
<1>6. dev' = emmc_user_queue(c, "DB")
  BY <1>2
<1> HIDE DEF c
<1>7. /\ IsDev(c) /\ DevType(c) /\ CardOk(c) /\ BotOk(c)
      /\ c.ready = dev.ready /\ c.g_emmc_user = dev.g_emmc_user
      /\ CountedAhead(c) = CountedAhead(dev)
  BY <1>1, <1>5 DEF Changes, Fields, DevType, CardOk, Doing, BotOk, CountedAhead
<1>8. MainOk(c, main)
  BY <1>1, <1>5 DEF Changes, Fields, MainOk, Doing
<1>9. /\ Changes(c, dev', {"g_emmc_user", "ready", "op"})
      /\ DevType(dev') /\ CardOk(dev') /\ MainOk(dev', main)
      /\ {dev'.g_emmc_user} \cup dev'.ready = {c.g_emmc_user, "DB"} \cup c.ready
         \/ {dev'.g_emmc_user} \cup dev'.ready \cup {"NONE"} = {c.g_emmc_user, "DB"} \cup c.ready
      /\ CountedAhead(dev') = CountedAhead(c) /\ Carries(c, dev')
  BY <1>1, <1>4, <1>5, <1>6, <1>7, <1>8, QueueOk
<1>10. MmcBusy(dev', main) => MmcBusy(dev, main)
  BY <1>7, <1>9 DEF MmcBusy
<1>11. Changes(dev, dev', Scheduler)
  BY <1>5, <1>9 DEF Changes, Scheduler
<1>12. /\ dev'.op \in Operations \cup {NoOp} /\ dev'.g_emmc_user \in Users
       /\ dev'.ready \subseteq {"DB", "STORAGE"}
       /\ dev'.g_db_action \in {"none", "read", "write"}
  BY <1>9 DEF DevType
<1>13. KeepsPlace(dev, dev')
  <2>1. Carries(dev, c)
    BY <1>5, Untouched DEF PlaceFields
  <2> QED BY <1>9, <2>1, CarriesOn DEF KeepsPlace
<1> QED BY <1>1, <1>3, <1>7, <1>9, <1>10, <1>11, <1>12, <1>13, UndisturbedFacts,
     Scheduled DEF Kept

LEMMA StateChangeKeeps ==
    ASSUME Undisturbed, usbd_scsi_device_state_change \/ UNCHANGED vars
    PROVE  Kept
<1>1. /\ IsDev(dev) /\ DevType(dev) /\ CardOk(dev) /\ MainType(main) /\ MainOk(dev, main)
  BY UndisturbedFacts
<1>2. Changes(dev, dev', {"visible"}) /\ main' = main
  BY <1>1 DEF usbd_scsi_device_state_change, vars, Changes, IsDev, Fields
<1>3. CardOk(dev') /\ CountedAhead(dev') = CountedAhead(dev)
  BY <1>1, <1>2 DEF CardOk, Doing, Changes, Fields, CountedAhead
<1>4. MainOk(dev', main)
  BY <1>1, <1>2 DEF MainOk, Doing, Changes, Fields
<1>5. MmcBusy(dev', main) => MmcBusy(dev, main)
  BY <1>2 DEF MmcBusy, Changes, Fields
<1>6. Changes(dev, dev', Scheduler)
  BY <1>2 DEF Changes, Scheduler
<1>7. /\ dev'.op \in Operations \cup {NoOp} /\ dev'.g_emmc_user \in Users
      /\ dev'.ready \subseteq {"DB", "STORAGE"}
      /\ dev'.g_db_action \in {"none", "read", "write"}
  BY <1>1, <1>2 DEF Changes, Fields, DevType
<1>8. KeepsPlace(dev, dev')
  BY <1>2 DEF KeepsPlace, Changes, Fields
<1> QED
  BY <1>1, <1>2, <1>3, <1>4, <1>5, <1>6, <1>7, <1>8, UndisturbedFacts, Scheduled DEF Kept

(* The main loop goes on after emmc_user_done: the buffer is passed on. *)
LEMMA RingAfterFacts ==
    ASSUME Undisturbed, RingAfter, NEW s, s = MmcStage(dev)
    PROVE  /\ main.after = "ring" /\ main' = Idle /\ Idle.after = "none"
           /\ dev' = Complete(dev, s, StageLen(dev)[s])
           /\ Base(dev, Idle) /\ dev.ring.processing /\ dev.cbw.len > 0
           /\ s \in StageIdx /\ s \in 0 .. dev.ring.numStages - 1
           /\ Resting(dev, Idle, s) /\ Finishing(dev, Idle) = {}
           /\ F!RingInv(dev.ring, dev.cbw.len, StageLeft(dev), StageLen(dev),
                        {s} \cup Finishing(dev, Idle))
<1>1. /\ Base(dev, main) /\ RingOk(dev, main) /\ dev.fault = {}
      /\ DevType(dev) /\ MainOk(dev, main) /\ BotOk(dev)
  BY UndisturbedFacts
<1>2. /\ main.pc = "after" /\ main.after = "ring" /\ main' = Idle
      /\ dev' = Complete(dev, dev.mmcStageIdx, dev.mmcReadLen)
  BY DEF RingAfter, At
<1>3. /\ dev.ring.processing /\ dev.mmcStageIdx = MmcStage(dev)
  BY <1>1, <1>2 DEF Base, MmcOk, MmcBusy
<1>4. "STORAGE" \notin dev.ready /\ dev.g_emmc_user # "STORAGE"
  BY <1>1, <1>2 DEF MainOk
<1>5. Idle.pc = "loop" /\ Idle.after = "none" /\ MainType(Idle)
  BY DEF Idle, MainType, Users
<1>6. MainOk(dev, Idle)
  BY <1>1, <1>2, <1>5 DEF MainOk
<1>7. ~MmcBusy(dev, Idle)
  BY <1>4, <1>5 DEF MmcBusy
<1>8. Base(dev, Idle)
  BY <1>1, <1>5, <1>6, <1>7 DEF Base, MmcOk
<1>9. s \in StageIdx /\ s \in 0 .. dev.ring.numStages - 1
  BY <1>1, <1>3, StagesDiffer, StagesAre DEF DevType, BotOk
<1>10. Resting(dev, Idle, s) /\ Finishing(dev, Idle) = {} /\ Finishing(dev, main) = {s}
  BY <1>2, <1>5, <1>7 DEF Resting, Finishing
<1>11. /\ dev.cbw.len > 0
       /\ F!RingInv(dev.ring, dev.cbw.len, StageLeft(dev), StageLen(dev), {s})
  BY <1>1, <1>2, <1>3, <1>10 DEF RingOk
<1>12. StageLen(dev)[s] = dev.mmcReadLen
  BY <1>9 DEF StageLen
<1>13. {s} \cup Finishing(dev, Idle) = {s}
  BY <1>10
<1> QED BY <1>2, <1>3, <1>5, <1>8, <1>9, <1>10, <1>11, <1>12, <1>13

LEMMA RingAfterKeeps == ASSUME Undisturbed, RingAfter PROVE Kept
<1> DEFINE s == MmcStage(dev)
<1> HIDE DEF s
<1>1. /\ main' = Idle /\ dev' = Complete(dev, s, StageLen(dev)[s])
      /\ Base(dev, Idle) /\ dev.ring.processing /\ dev.cbw.len > 0
      /\ s \in StageIdx /\ s \notin Finishing(dev, Idle)
      /\ Resting(dev, Idle, s)
      /\ F!RingInv(dev.ring, dev.cbw.len, StageLeft(dev), StageLen(dev),
                   {s} \cup Finishing(dev, Idle))
  BY RingAfterFacts DEF s
<1>2. Completed(dev, dev', Idle)
  BY <1>1, CompletesOk
<1>3. Carried(dev, dev')
  BY <1>1, <1>2, CarriedIf DEF Completed
<1>4. dev.fault = {}
  BY UndisturbedFacts
<1> QED BY <1>1, <1>2, <1>3, <1>4 DEF Completed, Kept

------------------------------------------------------------------------------
(* A peripheral is done with a piece of the transfer. *)

LEMMA StageTypes ==
    ASSUME NEW d, NEW m, Base(d, m)
    PROVE  StageLeft(d) \in [StageIdx -> Nat]
BY DEF Base, DevType, StageLeft, CountedAhead, Crypts

(* Stages other than the first are in flight, and move sectors, only in a       *)
(* transfer of some length.                                                     *)
LEMMA NotFrozen ==
    ASSUME NEW d, NEW m, Base(d, m), RingOk(d, m), d.ring.processing,
           \/ \E s \in StageIdx \ {0} : d.ring.stageProcessing[s]
           \/ StageLen(d)[0] # 0
    PROVE  /\ d.cbw.len \in Nat /\ d.cbw.len > 0
           /\ F!RingInv(d.ring, d.cbw.len, StageLeft(d), StageLen(d), Finishing(d, m))
BY DEF Base, DevType, RingOk

(* The piece of stage s is accounted for (c), and the stage is stalled when it  *)
(* was the last one (g).                                                        *)
StallIfLast(c, s) == IF StageLeft(c)[s] = 0 THEN Stall(c, s) ELSE c

PieceGone(d, m, c, n, s) ==
    /\ Base(d, m) /\ d.ring.processing /\ d.cbw.len > 0
    /\ F!RingInv(d.ring, d.cbw.len, StageLeft(d), StageLen(d), Finishing(d, m))
    /\ s \in StageIdx /\ d.ring.stageProcessing[s] /\ s \notin Finishing(d, m)
    /\ Base(c, n) /\ c.ring = d.ring /\ c.cbw = d.cbw
    /\ Resting(c, n, s) \/ s \in Finishing(c, n)
    /\ StageLen(c) = StageLen(d)
    /\ LessBy(StageLeft(d), StageLeft(c), s, StageLen(d)[s])
    /\ {s} \cup Finishing(c, n) = {s} \cup Finishing(d, m)

LEMMA Accounted ==
    ASSUME NEW d, NEW m, NEW c, NEW n, NEW s, PieceGone(d, m, c, n, s),
           NEW g, g = StallIfLast(c, s)
    PROVE  /\ Base(g, n) /\ SameLengths(c, g, n) /\ Changes(c, g, {"ring"})
           /\ g.ring.processing /\ Carries(c, g)
           /\ F!RingInv(g.ring, g.cbw.len, StageLeft(g), StageLen(g),
                        {s} \cup Finishing(g, n))
<1>0. /\ Base(d, m) /\ d.ring.processing /\ d.cbw.len > 0
      /\ F!RingInv(d.ring, d.cbw.len, StageLeft(d), StageLen(d), Finishing(d, m))
      /\ s \in StageIdx /\ d.ring.stageProcessing[s] /\ s \notin Finishing(d, m)
      /\ Base(c, n) /\ c.ring = d.ring /\ c.cbw = d.cbw
      /\ Resting(c, n, s) \/ s \in Finishing(c, n)
      /\ StageLen(c) = StageLen(d)
      /\ LessBy(StageLeft(d), StageLeft(c), s, StageLen(d)[s])
      /\ {s} \cup Finishing(c, n) = {s} \cup Finishing(d, m)
  BY DEF PieceGone
<1> DEFINE p == StalledIf(d.ring, s, StageLeft(c)[s])
<1>1. d.cbw.len \in Nat /\ d.ring \in FifoStruct /\ IsDev(c) /\ StageLeft(c) \in [StageIdx -> Nat]
  BY <1>0, StageTypes DEF Base, DevType
<1>2. F!RingInv(p, d.cbw.len, StageLeft(c), StageLen(d), Finishing(d, m) \cup {s})
  BY <1>0, <1>1, AccountKeeps
<1>3. /\ p \in FifoStruct /\ p.numStages = d.ring.numStages /\ p.processing
      /\ \A t \in StageIdx : t # s /\ d.ring.stageProcessing[t] => p.stageProcessing[t]
  BY <1>0, <1>1 DEF bufferFIFO_stallStage, FifoStruct, StalledIf
<1>4. Changes(c, g, {"ring"}) /\ g.ring = p
  <2>1. (g = c /\ p = c.ring) \/ g = [c EXCEPT !.ring = p]
    BY <1>0 DEF Stall, StallIfLast, StalledIf
  <2> HIDE DEF p
  <2> QED BY <1>0, <1>1, <2>1 DEF Changes, IsDev, Fields
<1> HIDE DEF p
<1>5. Base(g, n) /\ SameLengths(c, g, n)
  BY <1>0, <1>3, <1>4, RingMoves
<1>6. g.cbw = d.cbw
  BY <1>0, <1>4 DEF Changes, Fields
<1>7. Finishing(g, n) = Finishing(c, n)
  BY <1>0, <1>5 DEF SameLengths, Finishing
<1>8. {s} \cup Finishing(g, n) = Finishing(d, m) \cup {s}
  BY <1>0, <1>7
<1>9. StageLeft(g) = StageLeft(c) /\ StageLen(g) = StageLen(d)
  BY <1>0, <1>5 DEF SameLengths
<1>10. Carries(c, g)
  BY <1>4, Untouched DEF PlaceFields
<1> QED BY <1>0, <1>2, <1>3, <1>4, <1>5, <1>6, <1>8, <1>9, <1>10

(* USB or the AES unit is done, and nothing else changes. *)
Peripheral == {"crypt", "g_cryptOutInt", "epIn", "epOut", "g_usb_transmitting", "scsi_blk_len"}

LEMMA PeripheralDone ==
    ASSUME NEW d, NEW m, Base(d, m), NEW e, Changes(d, e, Peripheral),
           e.crypt \in Crypts, e.g_cryptOutInt \in BOOLEAN, e.scsi_blk_len \in Nat,
           CryptOk(e), UsbOk(e), BotOk(e)
    PROVE  /\ Base(e, m) /\ MmcStage(e) = MmcStage(d) /\ UsbStage(e) = UsbStage(d)
           /\ e.ring = d.ring /\ e.cbw = d.cbw /\ e.fault = d.fault
           /\ CountedAhead(e) = CountedAhead(d) /\ Finishing(e, m) = Finishing(d, m)
           /\ e.writeLen = d.writeLen /\ e.mmcReadLen = d.mmcReadLen
           /\ e.mmcDataToTransfer = d.mmcDataToTransfer
<1>1. /\ IsDev(d) /\ DevType(d) /\ CardOk(d) /\ MainType(m) /\ MainOk(d, m) /\ MmcOk(d, m)
  BY DEF Base
<1>2. /\ e.ring = d.ring /\ e.cbw = d.cbw /\ e.fault = d.fault /\ e.reading = d.reading
      /\ e.writeLen = d.writeLen /\ e.mmcReadLen = d.mmcReadLen
      /\ e.mmcDataToTransfer = d.mmcDataToTransfer /\ e.mmcStageIdx = d.mmcStageIdx
      /\ e.g_emmc_user = d.g_emmc_user /\ e.ready = d.ready /\ e.op = d.op /\ e.cplt = d.cplt
      /\ e.g_db_action = d.g_db_action
  BY DEF Changes, Fields, Peripheral
<1>3. MmcStage(e) = MmcStage(d) /\ UsbStage(e) = UsbStage(d)
  BY <1>2 DEF MmcStage, UsbStage, LastStage
<1>4. CountedAhead(e) = CountedAhead(d) /\ Finishing(e, m) = Finishing(d, m)
  BY <1>2, <1>3 DEF CountedAhead, Finishing
<1>5. DevType(e)
  BY <1>1 DEF Changes, Fields, Peripheral, DevType
<1>6. CardOk(e)
  BY <1>1 DEF Changes, Fields, Peripheral, CardOk, Doing
<1>7. MainOk(e, m)
  BY <1>1, <1>2 DEF MainOk, Doing
<1>8. MmcOk(e, m)
  BY <1>1, <1>2, <1>3 DEF MmcOk, MmcBusy
<1> QED BY <1>1, <1>2, <1>3, <1>4, <1>5, <1>6, <1>7, <1>8 DEF Base, Changes

LEMMA CryptEndsKeeps == ASSUME Undisturbed, CryptEnds PROVE Kept
<1>1. /\ Base(dev, main) /\ RingOk(dev, main) /\ dev.fault = {}
      /\ IsDev(dev) /\ DevType(dev) /\ BotOk(dev)
  BY UndisturbedFacts
<1>2. UsbOk(dev) /\ CryptOk(dev) /\ dev.crypt \in Crypts
  BY <1>1 DEF Base, DevType
<1>3. /\ dev.crypt.running /\ main' = main
      /\ dev' = [dev EXCEPT !.crypt.running = FALSE, !.g_cryptOutInt = TRUE]
  BY DEF CryptEnds
<1>4. /\ Changes(dev, dev', {"crypt", "g_cryptOutInt"}) /\ dev'.g_cryptOutInt = TRUE
      /\ dev'.crypt = [dev.crypt EXCEPT !.running = FALSE]
  BY <1>1, <1>3 DEF Changes, IsDev, Fields
<1>5. /\ dev'.crypt \in Crypts /\ ~dev'.crypt.running
      /\ dev'.crypt.stageIdx = dev.crypt.stageIdx /\ dev'.crypt.left = dev.crypt.left
      /\ dev'.crypt.txLen = dev.crypt.txLen /\ dev'.crypt.toTransfer = dev.crypt.toTransfer
  BY <1>2, <1>4 DEF Crypts
<1>6. /\ dev'.ring = dev.ring /\ dev'.epIn = dev.epIn /\ dev'.epOut = dev.epOut
      /\ dev'.reading = dev.reading /\ dev'.g_usb_transmitting = dev.g_usb_transmitting
      /\ dev'.stageIdx = dev.stageIdx /\ dev'.bot_state = dev.bot_state
      /\ dev'.scsi_blk_len = dev.scsi_blk_len
  BY <1>4 DEF Changes, Fields
<1>7. CryptOk(dev')
  BY <1>2, <1>3, <1>5, <1>6 DEF CryptOk, CryptBusy
<1>8. UsbOk(dev') /\ BotOk(dev')
  BY <1>1, <1>2, <1>6 DEF UsbOk, UsbBusy, UsbStage, LastStage, BotOk
<1>9. Changes(dev, dev', Peripheral)
  BY <1>4 DEF Changes, Peripheral
<1>10. dev'.g_cryptOutInt \in BOOLEAN /\ dev'.scsi_blk_len \in Nat
  BY <1>1, <1>4, <1>6 DEF DevType
<1>11. /\ Base(dev', main) /\ MmcStage(dev') = MmcStage(dev) /\ UsbStage(dev') = UsbStage(dev)
       /\ dev'.cbw = dev.cbw /\ dev'.fault = dev.fault
       /\ CountedAhead(dev') = CountedAhead(dev) /\ Finishing(dev', main) = Finishing(dev, main)
       /\ dev'.writeLen = dev.writeLen /\ dev'.mmcReadLen = dev.mmcReadLen
       /\ dev'.mmcDataToTransfer = dev.mmcDataToTransfer
  BY <1>1, <1>5, <1>7, <1>8, <1>9, <1>10, PeripheralDone
<1>12. StageLeft(dev') = StageLeft(dev) /\ StageLen(dev') = StageLen(dev)
  BY <1>5, <1>6, <1>11 DEF StageLeft, StageLen
<1>13. RingOk(dev', main)
  BY <1>1, <1>6, <1>11, <1>12 DEF RingOk
<1>14. Carried(dev, dev')
  <2>1. Carries(dev, dev') /\ dev.ring.processing
    BY <1>2, <1>3, <1>4, Untouched DEF PlaceFields, CryptOk, CryptBusy
  <2> QED BY <2>1, CarriedIf
<1> QED BY <1>1, <1>3, <1>11, <1>13, <1>14 DEF Kept

(* Stage s, at rest again, has moved a piece: c is d but for what it has left. *)
PieceMoved(d, c, m, s) ==
    /\ Base(d, m) /\ d.ring.processing /\ d.cbw.len > 0
    /\ F!RingInv(d.ring, d.cbw.len, StageLeft(d), StageLen(d), Finishing(d, m))
    /\ s \in StageIdx /\ d.ring.stageProcessing[s] /\ s \notin Finishing(d, m)
    /\ Base(c, m) /\ c.ring = d.ring /\ c.cbw = d.cbw /\ c.fault = d.fault
    /\ Resting(c, m, s) /\ Finishing(c, m) = Finishing(d, m)
    /\ StageLen(c) = StageLen(d)
    /\ LessBy(StageLeft(d), StageLeft(c), s, StageLen(d)[s])

(* ... and the buffer is passed on. *)
LEMMA PieceDone ==
    ASSUME NEW d, NEW c, NEW m, NEW s, PieceMoved(d, c, m, s),
           NEW e, e = Complete(StallIfLast(c, s), s, StageLen(d)[s])
    PROVE  /\ Base(e, m) /\ RingOk(e, m) /\ e.fault = d.fault
           /\ Changes(c, e, Launching \cup {"ring", "bot_state"}) /\ Carries(c, e)
<1> DEFINE g == StallIfLast(c, s)
<1>0. /\ Base(d, m) /\ d.ring.processing /\ d.cbw.len > 0
      /\ F!RingInv(d.ring, d.cbw.len, StageLeft(d), StageLen(d), Finishing(d, m))
      /\ s \in StageIdx /\ d.ring.stageProcessing[s] /\ s \notin Finishing(d, m)
      /\ Base(c, m) /\ c.ring = d.ring /\ c.cbw = d.cbw /\ c.fault = d.fault
      /\ Resting(c, m, s) /\ Finishing(c, m) = Finishing(d, m)
      /\ StageLen(c) = StageLen(d)
      /\ LessBy(StageLeft(d), StageLeft(c), s, StageLen(d)[s])
  BY DEF PieceMoved
<1>00. PieceGone(d, m, c, m, s)
  BY <1>0 DEF PieceGone
<1>1. /\ Base(g, m) /\ SameLengths(c, g, m) /\ Changes(c, g, {"ring"})
      /\ g.ring.processing /\ Carries(c, g)
      /\ F!RingInv(g.ring, g.cbw.len, StageLeft(g), StageLen(g), {s} \cup Finishing(g, m))
  BY <1>00, Accounted
<1> HIDE DEF g
<1>2. /\ g.cbw = d.cbw /\ g.fault = d.fault
  BY <1>0, <1>1 DEF Changes, Fields
<1>3. Finishing(g, m) = Finishing(d, m)
  BY <1>0, <1>1 DEF SameLengths, Finishing
<1>4. Resting(g, m, s) /\ StageLen(g) = StageLen(d)
  BY <1>0, <1>1 DEF SameLengths
<1>5. Completed(g, e, m)
  BY <1>0, <1>1, <1>2, <1>3, <1>4, CompletesOk DEF g
<1>6. Carries(c, e)
  BY <1>1, <1>5, CarriesOn DEF Completed
<1> QED BY <1>1, <1>2, <1>5, <1>6 DEF Completed, Changes

(* A sector has gone through the AES unit. *)
SectorOut(k, x) ==
    /\ x \in Crypts /\ x.stageIdx = k.stageIdx /\ x.txLen = k.txLen
    /\ x.left = k.left - 1

Ticked(k) == [k EXCEPT !.sector = @ + 1, !.left = @ - 1]
Lessened(k, n) == [k EXCEPT !.toTransfer = @ - n]
Restarted(k) == [k EXCEPT !.running = TRUE]

LEMMA CryptMoves ==
    ASSUME NEW k \in Crypts, NEW n \in Nat, n <= k.toTransfer,
           NEW x, NEW y, y \in {Lessened(x, n), Restarted(x)},
           k.left # 0, x = Ticked(k)
    PROVE  /\ SectorOut(k, x) /\ x.running = k.running /\ x.toTransfer = k.toTransfer
           /\ SectorOut(k, y)
           /\ y = Lessened(x, n) => y.running = k.running /\ y.toTransfer = k.toTransfer - n
           /\ y = Restarted(x) => y.running /\ y.toTransfer = k.toTransfer
<1>1. SectorOut(k, x) /\ x.running = k.running /\ x.toTransfer = k.toTransfer
  <2> DEFINE z == [k EXCEPT !.sector = @ + 1]
  <2>1. z \in Crypts /\ z.stageIdx = k.stageIdx /\ z.txLen = k.txLen /\ z.left = k.left
        /\ z.running = k.running /\ z.toTransfer = k.toTransfer
    BY DEF Crypts
  <2>2. x = [z EXCEPT !.left = k.left - 1]
    BY DEF Ticked
  <2>3. k.left - 1 \in Nat
    BY DEF Crypts
  <2> HIDE DEF z
  <2> QED BY <2>1, <2>2, <2>3 DEF Crypts, SectorOut
<1>2. ASSUME y = Lessened(x, n)
      PROVE  SectorOut(k, y) /\ y.running = k.running /\ y.toTransfer = k.toTransfer - n
  BY <1>1, <1>2 DEF Crypts, Lessened, SectorOut
<1>3. ASSUME y = Restarted(x)
      PROVE  SectorOut(k, y) /\ y.running /\ y.toTransfer = k.toTransfer
  BY <1>1, <1>3 DEF Crypts, Restarted, SectorOut
<1> QED BY <1>1, <1>2, <1>3

(* The AES unit goes on with the next sector of the buffer (x), or is done with *)
(* the buffer.                                                                  *)
Ticking(x) ==
    /\ Changes(dev, x, {"crypt", "g_cryptOutInt"}) /\ x.g_cryptOutInt = FALSE
    /\ main' = main /\ main.pc = "loop"
TickedOn(x) ==
    /\ Ticking(x) /\ dev' = x /\ dev.crypt.left # 1 /\ x.crypt = Restarted(Ticked(dev.crypt))
    /\ Base(x, main) /\ RingOk(x, main) /\ x.fault = dev.fault
DoneWith(x) ==
    /\ Ticking(x) /\ dev.crypt.left = 1
    /\ x.crypt = Lessened(Ticked(dev.crypt), dev.crypt.txLen)
    /\ PieceMoved(dev, x, main, 1)
    /\ dev' = Complete(StallIfLast(x, 1), 1, StageLen(dev)[1])

LEMMA CryptWays ==
    ASSUME Undisturbed, CryptComplete
    PROVE  \E x : TickedOn(x) \/ DoneWith(x)
<1> DEFINE k == dev.crypt
           c == [dev EXCEPT !.g_cryptOutInt = FALSE,
                            !.crypt.sector = @ + 1, !.crypt.left = @ - 1]
           f == [c EXCEPT !.crypt.toTransfer = @ - dev.crypt.txLen]
           s == dev.crypt.stageIdx
           g == IF f.crypt.toTransfer = 0 THEN Stall(f, s) ELSE f
           h == [c EXCEPT !.crypt.running = TRUE]
<1>1. /\ Base(dev, main) /\ RingOk(dev, main) /\ dev.fault = {}
      /\ IsDev(dev) /\ DevType(dev) /\ BotOk(dev) /\ MainOk(dev, main)
  BY UndisturbedFacts
<1>2. UsbOk(dev) /\ CryptOk(dev) /\ k \in Crypts /\ dev.reading \in BOOLEAN
  BY <1>1 DEF Base, DevType
<1>3. /\ main.pc = "loop" /\ dev.g_cryptOutInt /\ dev' = usbd_scsi_idle(dev) /\ main' = main
  BY DEF CryptComplete, At
<1>4. Finishing(dev, main) = {}
  BY <1>1, <1>3 DEF MainOk, Idle, Finishing
<1>5. /\ dev.ring.processing /\ dev.ring.numStages = 3 /\ dev.ring.stageProcessing[1]
      /\ s = 1 /\ k.left \in 1 .. k.txLen /\ ~k.running
      /\ k.txLen \in Nat /\ k.toTransfer \in Nat /\ k.sector \in Nat
  BY <1>2, <1>3 DEF CryptOk, CryptBusy, Crypts
<1>6. 1 \in StageIdx \ {0} /\ MmcStage(dev) # 1 /\ UsbStage(dev) # 1
  BY <1>2, <1>5, StagesAre, StagesDiffer
<1>7. /\ dev.cbw.len \in Nat /\ dev.cbw.len > 0
      /\ F!RingInv(dev.ring, dev.cbw.len, StageLeft(dev), StageLen(dev), Finishing(dev, main))
  BY <1>1, <1>5, <1>6, NotFrozen
<1>8. k.txLen <= k.toTransfer
  <2>1. 1 \notin Finishing(dev, main) => StageLen(dev)[1] <= StageLeft(dev)[1]
    BY <1>5, <1>6, <1>7, FlightFacts
  <2> QED BY <1>4, <1>6, <2>1 DEF StageLen, StageLeft
<1>9. dev' = IF c.crypt.left = 0 THEN Complete(g, s, dev.crypt.txLen) ELSE h
  BY <1>3 DEF usbd_scsi_idle
<1>10. /\ Changes(dev, c, {"crypt", "g_cryptOutInt"}) /\ c.g_cryptOutInt = FALSE
       /\ c.crypt = Ticked(k)
  BY <1>1 DEF Changes, IsDev, Fields, Ticked
<1> HIDE DEF c
<1>11. /\ Changes(c, f, {"crypt"}) /\ f.crypt = Lessened(c.crypt, k.txLen)
       /\ Changes(c, h, {"crypt"}) /\ h.crypt = Restarted(c.crypt)
  BY <1>10 DEF Changes, IsDev, Fields, Lessened, Restarted
<1> HIDE DEF f, h
<1>12. /\ SectorOut(k, f.crypt) /\ ~f.crypt.running
       /\ f.crypt.toTransfer = k.toTransfer - k.txLen
  BY <1>2, <1>5, <1>8, <1>10, <1>11, CryptMoves DEF Crypts
<1>13. /\ SectorOut(k, h.crypt) /\ h.crypt.running /\ h.crypt.toTransfer = k.toTransfer
       /\ SectorOut(k, c.crypt)
  BY <1>2, <1>5, <1>8, <1>10, <1>11, CryptMoves DEF Crypts
<1>14. /\ Changes(dev, f, {"crypt", "g_cryptOutInt"}) /\ f.g_cryptOutInt = FALSE
       /\ Changes(dev, h, {"crypt", "g_cryptOutInt"}) /\ h.g_cryptOutInt = FALSE
  BY <1>10, <1>11 DEF Changes, Fields
<1>15. ASSUME NEW x, Changes(dev, x, {"crypt", "g_cryptOutInt"}), x.g_cryptOutInt = FALSE,
              SectorOut(k, x.crypt), CryptOk(x)
       PROVE  /\ Base(x, main) /\ x.ring = dev.ring /\ x.cbw = dev.cbw /\ x.fault = dev.fault
              /\ Finishing(x, main) = {}
              /\ StageLen(x) = StageLen(dev)
              /\ StageLeft(x)[1] = x.crypt.toTransfer
              /\ \A t \in StageIdx : t # 1 => StageLeft(x)[t] = StageLeft(dev)[t]
              /\ Resting(x, main, 1) <=> ~CryptBusy(x)
  <2>1. /\ x.ring = dev.ring /\ x.epIn = dev.epIn /\ x.epOut = dev.epOut
        /\ x.reading = dev.reading /\ x.g_usb_transmitting = dev.g_usb_transmitting
        /\ x.stageIdx = dev.stageIdx /\ x.bot_state = dev.bot_state
        /\ x.scsi_blk_len = dev.scsi_blk_len
    BY <1>15 DEF Changes, Fields
  <2>2. UsbOk(x) /\ BotOk(x)
    BY <1>1, <1>2, <2>1 DEF UsbOk, UsbBusy, UsbStage, LastStage, BotOk
  <2>3. Changes(dev, x, Peripheral)
    BY <1>15 DEF Changes, Peripheral
  <2>4. x.g_cryptOutInt \in BOOLEAN /\ x.scsi_blk_len \in Nat /\ x.crypt \in Crypts
    BY <1>1, <1>15, <2>1 DEF DevType, SectorOut
  <2>5. /\ Base(x, main) /\ MmcStage(x) = MmcStage(dev) /\ UsbStage(x) = UsbStage(dev)
        /\ x.ring = dev.ring /\ x.cbw = dev.cbw /\ x.fault = dev.fault
        /\ CountedAhead(x) = CountedAhead(dev)
        /\ Finishing(x, main) = Finishing(dev, main)
        /\ x.writeLen = dev.writeLen /\ x.mmcReadLen = dev.mmcReadLen
        /\ x.mmcDataToTransfer = dev.mmcDataToTransfer
    BY <1>1, <1>15, <2>2, <2>3, <2>4, PeripheralDone
  <2>6. StageLen(x) = StageLen(dev)
    BY <1>15, <2>5 DEF StageLen, SectorOut
  <2>7. \A t \in StageIdx : t # 1 => StageLeft(x)[t] = StageLeft(dev)[t]
    BY <2>1, <2>5 DEF StageLeft
  <2>8. StageLeft(x)[1] = x.crypt.toTransfer
    BY <1>6, <2>5 DEF StageLeft
  <2> QED BY <1>4, <1>6, <2>5, <2>6, <2>7, <2>8 DEF Resting
<1>16. CASE c.crypt.left # 0
  <2>1. dev' = h
    BY <1>9, <1>16
  <2>2. k.left - 1 # 0
    BY <1>13, <1>16 DEF SectorOut
  <2>3. h.ring = dev.ring
    BY <1>14 DEF Changes, Fields
  <2>4. CryptOk(h)
    BY <1>5, <1>13, <1>14, <2>2, <2>3 DEF CryptOk, CryptBusy, SectorOut
  <2>5. /\ Base(h, main) /\ h.ring = dev.ring /\ h.cbw = dev.cbw /\ h.fault = dev.fault
        /\ Finishing(h, main) = {}
        /\ StageLen(h) = StageLen(dev)
        /\ StageLeft(h)[1] = h.crypt.toTransfer
        /\ \A t \in StageIdx : t # 1 => StageLeft(h)[t] = StageLeft(dev)[t]
    BY <1>13, <1>14, <1>15, <2>4
  <2>6. StageLeft(h) = StageLeft(dev)
    <3>1. StageLeft(dev)[1] = k.toTransfer
      BY <1>6 DEF StageLeft
    <3>2. \A t \in StageIdx : StageLeft(h)[t] = StageLeft(dev)[t]
      BY <1>13, <2>5, <3>1
    <3>3. StageLeft(h) = [t \in StageIdx |-> StageLeft(h)[t]]
          /\ StageLeft(dev) = [t \in StageIdx |-> StageLeft(dev)[t]]
      BY DEF StageLeft
    <3> QED BY <3>2, <3>3
  <2>7. RingOk(h, main)
    BY <1>1, <1>4, <2>5, <2>6 DEF RingOk
  <2>8. k.left # 1 /\ h.crypt = Restarted(Ticked(k))
    BY <1>5, <1>10, <1>11, <2>2
  <2>9. TickedOn(h)
    BY <1>3, <1>14, <2>1, <2>5, <2>7, <2>8 DEF TickedOn, Ticking
  <2> QED BY <2>9
<1>17. CASE c.crypt.left = 0
  <2>1. dev' = Complete(g, 1, StageLen(dev)[1])
    BY <1>5, <1>6, <1>9, <1>17 DEF StageLen
  <2>2. CryptOk(f) /\ ~CryptBusy(f)
    BY <1>12, <1>14 DEF CryptOk, CryptBusy
  <2>3. /\ Base(f, main) /\ f.ring = dev.ring /\ f.cbw = dev.cbw /\ f.fault = dev.fault
        /\ Finishing(f, main) = {}
        /\ StageLen(f) = StageLen(dev)
        /\ StageLeft(f)[1] = f.crypt.toTransfer
        /\ \A t \in StageIdx : t # 1 => StageLeft(f)[t] = StageLeft(dev)[t]
        /\ Resting(f, main, 1)
    BY <1>12, <1>14, <1>15, <2>2
  <2>4. LessBy(StageLeft(dev), StageLeft(f), 1, StageLen(dev)[1])
    <3>1. StageLeft(f)[1] = StageLeft(dev)[1] - StageLen(dev)[1]
      BY <1>6, <1>12, <2>3 DEF StageLeft, StageLen
    <3> QED BY <2>3, <3>1 DEF LessBy
  <2>5. g = StallIfLast(f, 1)
    BY <1>5, <2>3 DEF StallIfLast
  <2> HIDE DEF g
  <2> HIDE DEF s
  <2>6. k.left = 1 /\ f.crypt = Lessened(Ticked(k), k.txLen)
    BY <1>5, <1>10, <1>11, <1>13, <1>17 DEF SectorOut
  <2>7. /\ 1 \in StageIdx /\ 1 \notin Finishing(dev, main)
        /\ Finishing(f, main) = Finishing(dev, main)
    BY <1>4, <1>6, <2>3
  <2>8. PieceMoved(dev, f, main, 1)
    BY <1>1, <1>5, <1>7, <2>3, <2>4, <2>7 DEF PieceMoved
  <2>9. DoneWith(f)
    BY <1>3, <1>14, <2>1, <2>5, <2>6, <2>8 DEF DoneWith, Ticking
  <2> QED BY <2>9
<1> QED BY <1>16, <1>17

LEMMA CryptCompleteKeeps == ASSUME Undisturbed, CryptComplete PROVE Kept
<1>1. Base(dev, main) /\ dev.fault = {} /\ CryptOk(dev) /\ dev.g_cryptOutInt
  BY UndisturbedFacts DEF Base, CryptComplete
<1>2. dev.ring.processing
  BY <1>1 DEF CryptOk, CryptBusy
<1>3. PICK x : TickedOn(x) \/ DoneWith(x)
  BY CryptWays
<1>4. Changes(dev, x, {"crypt", "g_cryptOutInt"}) /\ main' = main
  BY <1>3 DEF TickedOn, DoneWith, Ticking
<1>5. Carries(dev, x)
  BY <1>4, Untouched DEF PlaceFields
<1>6. CASE TickedOn(x)
  <2>1. dev' = x /\ Base(x, main) /\ RingOk(x, main) /\ x.fault = dev.fault
    BY <1>6 DEF TickedOn
  <2>2. Carried(dev, dev')
    BY <1>2, <1>5, <2>1, CarriedIf
  <2> QED BY <1>1, <1>4, <2>1, <2>2 DEF Kept
<1>7. CASE DoneWith(x)
  <2>1. Base(dev', main) /\ RingOk(dev', main) /\ dev'.fault = dev.fault /\ Carries(x, dev')
    BY <1>7, PieceDone DEF DoneWith
  <2>2. Carried(dev, dev')
    BY <1>2, <1>5, <2>1, CarriesOn, CarriedIf
  <2> QED BY <1>1, <1>4, <2>1, <2>2 DEF Kept
<1> QED BY <1>3, <1>6, <1>7

------------------------------------------------------------------------------
(* The main loop attends to the card. *)

OthersLeft(d, c, s) == \A t \in StageIdx : t # s => StageLeft(c)[t] = StageLeft(d)[t]

Card == {"cplt", "op", "mmcDataToTransfer", "mmcBlockAddr"}

(* The counters of the eMMC stage move, and what the main loop does next. *)
CardMoved(d, m, c, n) ==
    /\ Base(d, m) /\ d.g_emmc_user = "STORAGE" /\ Changes(d, c, Card)
    /\ c.mmcDataToTransfer \in Nat /\ c.mmcBlockAddr \in Nat
    /\ c.op \in Operations \cup {NoOp} /\ CardOk(c)
    /\ MainType(n) /\ MainOk(c, n) /\ (n.after = "ring" \/ n = m)

LEMMA CardCounts ==
    ASSUME NEW d, NEW m, NEW c, NEW n, CardMoved(d, m, c, n)
    PROVE  /\ Base(c, n) /\ MmcStage(c) = MmcStage(d) /\ UsbStage(c) = UsbStage(d)
           /\ c.ring = d.ring /\ c.cbw = d.cbw /\ c.fault = d.fault
           /\ StageLen(c) = StageLen(d)
           /\ OthersLeft(d, c, MmcStage(d))
<1>0. /\ Base(d, m) /\ d.g_emmc_user = "STORAGE" /\ Changes(d, c, Card)
      /\ c.mmcDataToTransfer \in Nat /\ c.mmcBlockAddr \in Nat
      /\ c.op \in Operations \cup {NoOp} /\ CardOk(c)
      /\ MainType(n) /\ MainOk(c, n) /\ (n.after = "ring" \/ n = m)
  BY DEF CardMoved
<1>1. /\ IsDev(d) /\ DevType(d) /\ MmcOk(d, m) /\ UsbOk(d) /\ CryptOk(d) /\ BotOk(d)
  BY <1>0 DEF Base
<1>2. /\ c.ring = d.ring /\ c.cbw = d.cbw /\ c.fault = d.fault /\ c.reading = d.reading
      /\ c.writeLen = d.writeLen /\ c.mmcReadLen = d.mmcReadLen /\ c.crypt = d.crypt
      /\ c.mmcStageIdx = d.mmcStageIdx /\ c.scsi_blk_len = d.scsi_blk_len
      /\ c.g_emmc_user = d.g_emmc_user /\ c.epIn = d.epIn /\ c.epOut = d.epOut
      /\ c.g_cryptOutInt = d.g_cryptOutInt /\ c.stageIdx = d.stageIdx
      /\ c.g_usb_transmitting = d.g_usb_transmitting /\ c.bot_state = d.bot_state
  BY <1>0 DEF Changes, Fields, Card
<1>3. MmcStage(c) = MmcStage(d) /\ UsbStage(c) = UsbStage(d)
  BY <1>2 DEF MmcStage, UsbStage, LastStage
<1>4. DevType(c)
  BY <1>0, <1>1 DEF Changes, Fields, Card, DevType
<1>5. MmcOk(c, n)
  <2>1. d.ring.processing /\ d.mmcStageIdx = MmcStage(d)
        /\ (m.after # "ring" => d.ring.stageProcessing[MmcStage(d)])
    BY <1>0, <1>1 DEF MmcOk, MmcBusy
  <2> QED BY <1>0, <1>2, <1>3, <2>1 DEF MmcOk
<1>6. UsbOk(c)
  BY <1>1, <1>2, <1>3 DEF UsbOk, UsbBusy
<1>7. CryptOk(c) /\ BotOk(c)
  BY <1>1, <1>2 DEF CryptOk, CryptBusy, BotOk
<1>8. StageLen(c) = StageLen(d)
  BY <1>2, <1>3 DEF StageLen
<1>9. OthersLeft(d, c, MmcStage(d))
  BY <1>2, <1>3 DEF StageLeft, OthersLeft
<1> QED BY <1>0, <1>2, <1>3, <1>4, <1>5, <1>6, <1>7, <1>8, <1>9 DEF Base, Changes

(* The piece the card is moving is not more than what is left. *)
LEMMA PieceLeft ==
    ASSUME NEW d, NEW m, Base(d, m), RingOk(d, m), d.g_emmc_user = "STORAGE",
           m.after # "ring", d.mmcReadLen > 0
    PROVE  /\ d.ring.processing /\ d.cbw.len > 0
           /\ F!RingInv(d.ring, d.cbw.len, StageLeft(d), StageLen(d), Finishing(d, m))
           /\ MmcStage(d) \in StageIdx /\ d.ring.stageProcessing[MmcStage(d)]
           /\ Finishing(d, m) = {} /\ d.mmcStageIdx = MmcStage(d)
           /\ d.mmcReadLen <= d.mmcDataToTransfer + CountedAhead(d)
<1>1. /\ d.ring.processing /\ d.ring.stageProcessing[MmcStage(d)]
      /\ d.mmcStageIdx = MmcStage(d)
  BY DEF Base, MmcOk, MmcBusy
<1>2. MmcStage(d) \in StageIdx
  BY <1>1, StagesDiffer DEF Base, BotOk, DevType
<1>3. StageLen(d)[MmcStage(d)] = d.mmcReadLen
      /\ StageLeft(d)[MmcStage(d)] = d.mmcDataToTransfer + CountedAhead(d)
  BY <1>2 DEF StageLen, StageLeft
<1>4. /\ d.cbw.len \in Nat /\ d.cbw.len > 0
      /\ F!RingInv(d.ring, d.cbw.len, StageLeft(d), StageLen(d), Finishing(d, m))
  <2>1. d.mmcReadLen \in Nat
    BY DEF Base, DevType
  <2>2. \/ \E s \in StageIdx \ {0} : d.ring.stageProcessing[s]
        \/ StageLen(d)[0] # 0
    BY <1>1, <1>2, <1>3, <2>1
  <2> QED BY <1>1, <2>2, NotFrozen
<1>5. Finishing(d, m) = {}
  BY DEF Finishing
<1>6. StageLen(d)[MmcStage(d)] <= StageLeft(d)[MmcStage(d)]
  <2>1. MmcStage(d) \notin Finishing(d, m)
    BY <1>5
  <2> QED BY <1>1, <1>2, <1>4, <2>1, FlightFacts
<1> QED BY <1>1, <1>2, <1>3, <1>4, <1>5, <1>6

LEMMA AddrNat ==
    ASSUME NEW a \in Nat, NEW b \in Nat
    PROVE  (a + b) % AddrMod \in Nat
<1>1. AddrMod \in Nat /\ AddrMod > 0
  <2>1. AddrMod \in Nat /\ Capacity0 \in Nat /\ Capacity1 \in Nat
        /\ AddrMod > 1 + Capacity0 + Capacity1
    BY MassStorageAssumption
  <2> QED BY <2>1
<1>2. a + b \in Nat
  OBVIOUS
<1> QED BY <1>1, <1>2

(* The transfer of a piece is over: the main loop gives the eMMC away (pc       *)
(* "done") before it passes the buffer on (RingAfter).                          *)
LEMMA CardDone ==
    ASSUME Undisturbed, main.pc = "loop", dev.g_emmc_user = "STORAGE", dev.op = NoOp,
           dev.mmcReadLen > 0,
           NEW c, Changes(dev, c, {"cplt", "mmcDataToTransfer", "mmcBlockAddr"}),
           c.cplt = {}, c.mmcBlockAddr \in Nat,
           c.mmcDataToTransfer = (dev.mmcDataToTransfer + CountedAhead(dev)) - dev.mmcReadLen,
           main' = [main EXCEPT !.pc = "done", !.after = "ring"],
           dev' = StallAtEnd(c), Carries(dev, c)
    PROVE  Kept
<1> DEFINE s == MmcStage(dev)
<1>1. /\ Base(dev, main) /\ RingOk(dev, main) /\ dev.fault = {}
      /\ IsDev(dev) /\ DevType(dev) /\ CardOk(dev) /\ MainType(main) /\ MainOk(dev, main)
  BY UndisturbedFacts
<1>2. main = Idle /\ main.after = "none" /\ "STORAGE" \notin dev.ready
  BY <1>1 DEF MainOk, Idle
<1>3. /\ dev.ring.processing /\ dev.cbw.len > 0
      /\ F!RingInv(dev.ring, dev.cbw.len, StageLeft(dev), StageLen(dev), Finishing(dev, main))
      /\ s \in StageIdx /\ dev.ring.stageProcessing[s]
      /\ Finishing(dev, main) = {} /\ dev.mmcStageIdx = s
      /\ dev.mmcReadLen <= dev.mmcDataToTransfer + CountedAhead(dev)
  <2>1. main.after # "ring"
    BY <1>2
  <2> QED BY <1>1, <2>1, PieceLeft
<1>4. c.mmcDataToTransfer \in Nat
  <2>1. dev.mmcDataToTransfer \in Nat /\ CountedAhead(dev) \in Nat /\ dev.mmcReadLen \in Nat
    BY <1>1 DEF DevType, CountedAhead
  <2> QED BY <1>3, <2>1
<1>5. /\ c.op = NoOp /\ c.g_emmc_user = "STORAGE" /\ c.ready = dev.ready
      /\ c.mmcStageIdx = s /\ c.g_db_action = dev.g_db_action
  BY <1>3 DEF Changes, Fields
<1>6. CardOk(c)
  BY <1>5 DEF CardOk, Doing, NoOp
<1>7. /\ MainType(main') /\ main'.pc = "done" /\ main'.after = "ring"
  BY <1>1 DEF MainType
<1>8. MainOk(c, main')
  BY <1>1, <1>2, <1>5, <1>7 DEF MainOk, Doing
<1>9. Changes(dev, c, Card)
  BY DEF Changes, Card
<1>10. /\ Base(c, main') /\ MmcStage(c) = s
       /\ c.ring = dev.ring /\ c.cbw = dev.cbw /\ c.fault = dev.fault
       /\ StageLen(c) = StageLen(dev)
       /\ OthersLeft(dev, c, s)
  <2>1. c.op \in Operations \cup {NoOp}
    BY <1>5
  <2>2. /\ Base(c, main') /\ MmcStage(c) = MmcStage(dev)
        /\ c.ring = dev.ring /\ c.cbw = dev.cbw /\ c.fault = dev.fault
        /\ StageLen(c) = StageLen(dev)
        /\ OthersLeft(dev, c, MmcStage(dev))
    <3>1. CardMoved(dev, main, c, main')
      BY <1>1, <1>4, <1>6, <1>7, <1>8, <1>9, <2>1 DEF CardMoved
    <3> QED BY <3>1, CardCounts
  <2> QED BY <2>2
<1>11. StageLeft(c)[s] = c.mmcDataToTransfer
  <2>1. CountedAhead(c) = 0
    BY <1>5 DEF CountedAhead, NoOp
  <2> QED BY <1>3, <1>4, <1>10, <2>1 DEF StageLeft
<1>12. LessBy(StageLeft(dev), StageLeft(c), s, StageLen(dev)[s])
  <2>1. StageLeft(dev)[s] = dev.mmcDataToTransfer + CountedAhead(dev)
        /\ StageLen(dev)[s] = dev.mmcReadLen
    BY <1>3 DEF StageLeft, StageLen
  <2>2. StageLeft(c)[s] = StageLeft(dev)[s] - StageLen(dev)[s]
    BY <1>11, <2>1
  <2> QED BY <1>10, <2>2 DEF LessBy, OthersLeft
<1>13. dev' = StallIfLast(c, s)
  BY <1>5, <1>11 DEF StallAtEnd, StallIfLast
<1>14. Finishing(c, main') = {s}
  BY <1>7, <1>10 DEF Finishing
<1> HIDE DEF s
<1>15. s \in Finishing(c, main') /\ s \notin Finishing(dev, main)
       /\ {s} \cup Finishing(c, main') = {s} \cup Finishing(dev, main)
  BY <1>3, <1>14
<1>16. /\ Base(dev', main') /\ SameLengths(c, dev', main') /\ Changes(c, dev', {"ring"})
       /\ dev'.ring.processing /\ Carries(c, dev')
       /\ F!RingInv(dev'.ring, dev'.cbw.len, StageLeft(dev'), StageLen(dev'),
                    {s} \cup Finishing(dev', main'))
  <2>1. PieceGone(dev, main, c, main', s)
    BY <1>1, <1>3, <1>10, <1>12, <1>15 DEF PieceGone
  <2> QED BY <1>13, <2>1, Accounted
<1>17. dev'.cbw = dev.cbw /\ dev'.fault = {}
  BY <1>1, <1>10, <1>16 DEF Changes, Fields
<1>18. {s} \cup Finishing(dev', main') = Finishing(dev', main')
  BY <1>7, <1>10, <1>16 DEF SameLengths, Finishing
<1>19. Carried(dev, dev')
  BY <1>3, <1>16, CarriesOn, CarriedIf
<1> QED BY <1>3, <1>16, <1>17, <1>18, <1>19 DEF Kept, RingOk

(* The database gets the completion of its operation. *)
LEMMA DbCard ==
    ASSUME Undisturbed, main.pc = "loop", main' = main, dev.g_emmc_user = "DB",
           Changes(dev, dev', {"cplt", "op"}), CardOk(dev'),
           dev'.op \in Operations \cup {NoOp}
    PROVE  Kept
<1>1. /\ IsDev(dev) /\ DevType(dev) /\ MainType(main) /\ MainOk(dev, main)
  BY UndisturbedFacts
<1>2. /\ dev'.g_emmc_user = dev.g_emmc_user /\ dev'.ready = dev.ready
      /\ dev'.g_db_action = dev.g_db_action
  BY DEF Changes, Fields
<1>3. MainOk(dev', main)
  BY <1>1, <1>2 DEF MainOk
<1>4. CountedAhead(dev') = CountedAhead(dev)
  BY <1>2 DEF CountedAhead
<1>5. MmcBusy(dev', main) => MmcBusy(dev, main)
  BY <1>2 DEF MmcBusy
<1>6. Changes(dev, dev', Scheduler)
  BY DEF Changes, Scheduler
<1>7. /\ dev'.g_emmc_user \in Users /\ dev'.ready \subseteq {"DB", "STORAGE"}
      /\ dev'.g_db_action \in {"none", "read", "write"}
  BY <1>1, <1>2 DEF DevType
<1>8. KeepsPlace(dev, dev')
  BY <1>2 DEF KeepsPlace
<1> QED BY <1>1, <1>3, <1>4, <1>5, <1>6, <1>7, <1>8, UndisturbedFacts, Scheduled DEF Kept

(* A completion that is there has a user, who takes it. *)
LEMMA Takes ==
    ASSUME Undisturbed, NEW f \in dev.cplt
    PROVE  /\ dev.g_emmc_user \in {"DB", "STORAGE"}
           /\ Changes(dev, Owned(f), {"cplt"}) /\ Owned(f).cplt = {}
           /\ f = "tx_dma" => dev.op \in Operations /\ dev.op.kind = "write_wait"
           /\ f # "tx_dma" => dev.op = NoOp
           /\ dev.cplt = {f} /\ Owned(f).op = dev.op
<1>1. /\ IsDev(dev) /\ DevType(dev) /\ CardOk(dev)
  BY UndisturbedFacts
<1>2. dev.g_emmc_user \in {"DB", "STORAGE"}
  BY <1>1 DEF DevType, CardOk, Doing, Users
<1>3. dev.cplt = {f}
  BY <1>1 DEF CardOk
<1>4. Owned(f) = Taken(f)
  BY <1>2 DEF Owned
<1>5. Changes(dev, Taken(f), {"cplt"}) /\ Taken(f).cplt = {}
  BY <1>1, <1>3 DEF Changes, IsDev, Fields, Taken
<1>6. /\ f = "tx_dma" => dev.op \in Operations /\ dev.op.kind = "write_wait"
      /\ f # "tx_dma" => dev.op = NoOp
  BY <1>1, <1>3 DEF CardOk, DevType, NoOp
<1> QED BY <1>2, <1>3, <1>4, <1>5, <1>6 DEF Changes, Fields

LEMMA CountedFacts ==
    ASSUME NEW d, IsDev(d), NEW c, c = Counted(d)
    PROVE  /\ Changes(d, c, {"mmcDataToTransfer", "mmcBlockAddr"})
           /\ c.mmcDataToTransfer = d.mmcDataToTransfer - d.mmcReadLen
           /\ c.mmcBlockAddr = (d.mmcBlockAddr + d.mmcReadLen) % AddrMod
BY DEF Changes, IsDev, Fields, Counted

(* The sectors of a piece are counted: the next one begins where they end. *)
LEMMA Advances ==
    ASSUME NEW d, VolumeOk(d), CountedAhead(d) = 0,
           d.mmcDataToTransfer \in Nat, d.mmcReadLen \in Nat,
           d.mmcReadLen <= d.mmcDataToTransfer,
           NEW c, c.cbw = d.cbw,
           c.mmcDataToTransfer = d.mmcDataToTransfer - d.mmcReadLen,
           c.mmcBlockAddr = (d.mmcBlockAddr + d.mmcReadLen) % AddrMod
    PROVE  /\ Fits(c.cbw) /\ c.mmcDataToTransfer + d.mmcReadLen <= c.cbw.len
           /\ c.mmcBlockAddr = c.cbw.lba + c.cbw.len - c.mmcDataToTransfer
<1>1. /\ d.cbw.lun \in Luns /\ d.cbw.lba \in Nat /\ d.cbw.len \in Nat
      /\ d.cbw.lba + d.cbw.len <= Capacity(d.cbw.lun)
      /\ d.mmcDataToTransfer <= d.cbw.len
      /\ d.mmcBlockAddr = d.cbw.lba + d.cbw.len - d.mmcDataToTransfer
  BY DEF VolumeOk, Fits, MmcLeft
<1>2. Capacity(d.cbw.lun) \in Nat
  BY MassStorageAssumption DEF Capacity
<1>3. d.mmcBlockAddr + d.mmcReadLen \in Nat
      /\ d.mmcBlockAddr + d.mmcReadLen <= Capacity(d.cbw.lun)
  BY <1>1, <1>2
<1>4. c.mmcBlockAddr = d.mmcBlockAddr + d.mmcReadLen
  BY <1>1, <1>3, NoWrap
<1> QED BY <1>1, <1>4 DEF VolumeOk

LEMMA ReadCompleteKeeps == ASSUME Undisturbed, ReadComplete PROVE Kept
<1> DEFINE o == Owned("rx")
           c == Counted(o)
<1>1. /\ IsDev(dev) /\ DevType(dev) /\ CardOk(dev)
  BY UndisturbedFacts
<1>2. main.pc = "loop" /\ "rx" \in dev.cplt
  BY DEF ReadComplete, At
<1>3. /\ dev.g_emmc_user \in {"DB", "STORAGE"} /\ dev.op = NoOp
      /\ Changes(dev, o, {"cplt"}) /\ o.cplt = {} /\ o.op = dev.op /\ dev.cplt = {"rx"}
  BY <1>2, Takes
<1>4. CASE dev.g_emmc_user = "STORAGE"
  <2>1. /\ dev' = StallAtEnd(c)
        /\ main' = [main EXCEPT !.pc = "done", !.after = "ring"]
    BY <1>4 DEF ReadComplete, emmc_user_read_storage_rx_complete
  <2> HIDE DEF o
  <2>2. /\ Changes(o, c, {"mmcDataToTransfer", "mmcBlockAddr"})
        /\ c.mmcDataToTransfer = o.mmcDataToTransfer - o.mmcReadLen
        /\ c.mmcBlockAddr = (o.mmcBlockAddr + o.mmcReadLen) % AddrMod
    BY <1>3, CountedFacts DEF Changes
  <2> HIDE DEF c
  <2>3. /\ o.mmcDataToTransfer = dev.mmcDataToTransfer /\ o.mmcReadLen = dev.mmcReadLen
        /\ o.mmcBlockAddr = dev.mmcBlockAddr
    BY <1>3 DEF Changes, Fields
  <2>4. Changes(dev, c, {"cplt", "mmcDataToTransfer", "mmcBlockAddr"}) /\ c.cplt = {}
    BY <1>3, <2>2 DEF Changes, Fields
  <2>5. dev.mmcReadLen > 0
    BY <1>1, <1>2, <1>4 DEF CardOk
  <2>6. c.mmcBlockAddr \in Nat
    BY <1>1, <2>2, <2>3, AddrNat DEF DevType
  <2>7. c.mmcDataToTransfer = (dev.mmcDataToTransfer + CountedAhead(dev)) - dev.mmcReadLen
    <3>1. CountedAhead(dev) = 0
      BY <1>3 DEF CountedAhead, NoOp
    <3>2. dev.mmcDataToTransfer + 0 = dev.mmcDataToTransfer
      BY <1>1 DEF DevType
    <3> QED BY <2>2, <2>3, <3>1, <3>2
  <2>8. Carries(dev, c)
    <3>1. /\ CountedAhead(dev) = 0 /\ dev.mmcDataToTransfer \in Nat /\ dev.mmcReadLen \in Nat
      BY <1>1, <1>3 DEF CountedAhead, NoOp, DevType
    <3>2. dev.mmcReadLen <= dev.mmcDataToTransfer
      <4>1. main.after # "ring" /\ Base(dev, main) /\ RingOk(dev, main)
        BY <1>2, UndisturbedFacts DEF MainOk, Idle
      <4>2. dev.mmcReadLen <= dev.mmcDataToTransfer + CountedAhead(dev)
        BY <1>4, <2>5, <4>1, PieceLeft
      <4> QED BY <3>1, <4>2
    <3>3. c.cbw = dev.cbw /\ c.op = NoOp
      BY <1>3, <2>4 DEF Changes, Fields
    <3>4. CountedAhead(c) = 0
      BY <2>4, <3>3 DEF CountedAhead, NoOp
    <3>5. ASSUME VolumeOk(dev)
          PROVE  VolumeOk(c)
      <4>1. /\ Fits(c.cbw) /\ c.mmcDataToTransfer + dev.mmcReadLen <= c.cbw.len
            /\ c.mmcBlockAddr = c.cbw.lba + c.cbw.len - c.mmcDataToTransfer
        BY <2>2, <2>3, <3>1, <3>2, <3>3, <3>5, Advances
      <4>2. MmcLeft(c) <= c.cbw.len
        BY <2>2, <2>3, <3>1, <3>4, <4>1 DEF MmcLeft, Fits
      <4> QED BY <3>3, <4>1, <4>2 DEF VolumeOk, InPlace
    <3> QED BY <3>5 DEF Carries
  <2> QED BY <1>2, <1>3, <1>4, <2>1, <2>4, <2>5, <2>6, <2>7, <2>8, CardDone
<1>5. CASE dev.g_emmc_user = "DB"
  <2>1. dev' = [o EXCEPT !.cplt = @ \cup {"read_db"}] /\ main' = main
    BY <1>5 DEF ReadComplete
  <2> HIDE DEF o
  <2>2. Changes(o, dev', {"cplt"}) /\ dev'.cplt = {"read_db"}
    BY <1>3, <2>1 DEF Changes, IsDev, Fields
  <2>3. /\ Changes(dev, dev', {"cplt", "op"}) /\ dev'.op = NoOp
        /\ dev'.g_emmc_user = "DB"
    BY <1>3, <1>5, <2>2 DEF Changes, Fields
  <2>4. CardOk(dev')
    BY <2>2, <2>3 DEF CardOk, Doing, NoOp
  <2> QED BY <1>2, <1>5, <2>1, <2>3, <2>4, DbCard
<1> QED BY <1>3, <1>4, <1>5

LEMMA WriteCompleteKeeps == ASSUME Undisturbed, WriteComplete PROVE Kept
<1> DEFINE o == Owned("tx")
<1>1. /\ IsDev(dev) /\ DevType(dev) /\ CardOk(dev)
  BY UndisturbedFacts
<1>2. main.pc = "loop" /\ "tx" \in dev.cplt
  BY DEF WriteComplete, At
<1>3. /\ dev.g_emmc_user \in {"DB", "STORAGE"} /\ dev.op = NoOp
      /\ Changes(dev, o, {"cplt"}) /\ o.cplt = {} /\ o.op = dev.op /\ dev.cplt = {"tx"}
  BY <1>2, Takes
<1>4. CASE dev.g_emmc_user = "STORAGE"
  <2>1. /\ dev' = StallAtEnd(o)
        /\ main' = [main EXCEPT !.pc = "done", !.after = "ring"]
    BY <1>4 DEF WriteComplete, emmc_user_write_storage_tx_complete
  <2> HIDE DEF o
  <2>2. /\ o.mmcDataToTransfer = dev.mmcDataToTransfer /\ o.mmcBlockAddr = dev.mmcBlockAddr
    BY <1>3 DEF Changes, Fields
  <2>3. Changes(dev, o, {"cplt", "mmcDataToTransfer", "mmcBlockAddr"})
    BY <1>3 DEF Changes, Fields
  <2>4. dev.mmcReadLen > 0
    BY <1>1, <1>2, <1>4 DEF CardOk
  <2>5. o.mmcBlockAddr \in Nat
    BY <1>1, <2>2 DEF DevType
  <2>6. o.mmcDataToTransfer = (dev.mmcDataToTransfer + CountedAhead(dev)) - dev.mmcReadLen
    <3>1. CountedAhead(dev) = dev.mmcReadLen
      BY <1>2, <1>4 DEF CountedAhead
    <3> QED BY <1>1, <2>2, <3>1 DEF DevType
  <2>7. Carries(dev, o)
    <3>1. CountedAhead(dev) = dev.mmcReadLen
      BY <1>2, <1>4 DEF CountedAhead
    <3>2. o.cbw = dev.cbw /\ o.op = NoOp
      BY <1>3 DEF Changes, Fields
    <3>3. CountedAhead(o) = 0
      BY <1>3, <3>2 DEF CountedAhead, NoOp
    <3>4. /\ dev.mmcDataToTransfer \in Nat /\ dev.mmcReadLen \in Nat /\ dev.cbw.len \in Nat
      BY <1>1 DEF DevType
    <3>5. MmcLeft(dev) <= dev.cbw.len => MmcLeft(o) <= o.cbw.len
      BY <2>2, <3>1, <3>2, <3>3, <3>4 DEF MmcLeft
    <3> QED BY <2>2, <3>2, <3>5 DEF Carries, VolumeOk, InPlace
  <2> QED BY <1>2, <1>3, <1>4, <2>1, <2>3, <2>4, <2>5, <2>6, <2>7, CardDone
<1>5. CASE dev.g_emmc_user = "DB"
  <2>1. dev' = [o EXCEPT !.cplt = @ \cup {"write_db"}] /\ main' = main
    BY <1>5 DEF WriteComplete
  <2> HIDE DEF o
  <2>2. Changes(o, dev', {"cplt"}) /\ dev'.cplt = {"write_db"}
    BY <1>3, <2>1 DEF Changes, IsDev, Fields
  <2>3. /\ Changes(dev, dev', {"cplt", "op"}) /\ dev'.op = NoOp
        /\ dev'.g_emmc_user = "DB"
    BY <1>3, <1>5, <2>2 DEF Changes, Fields
  <2>4. CardOk(dev')
    BY <2>2, <2>3 DEF CardOk, Doing, NoOp
  <2> QED BY <1>2, <1>5, <2>1, <2>3, <2>4, DbCard
<1> QED BY <1>3, <1>4, <1>5

(* The card is given the order to write what it has received. *)
LEMMA ContFacts ==
    ASSUME NEW d, IsDev(d), d.op \in Operations, d.op.kind = "write_wait",
           NEW c, c = HAL_MMC_WriteBlocks_DMA_Cont(d)
    PROVE  /\ Changes(d, c, {"op"}) /\ c.op \in Operations /\ c.op # NoOp
           /\ c.op.kind = "write_data" /\ c.op.len = d.op.len /\ c.op.buf = d.op.buf
           /\ c.op.addr = d.op.addr
<1>1. c = [d EXCEPT !.op.kind = "write_data"]
  BY DEF HAL_MMC_WriteBlocks_DMA_Cont
<1>2. Changes(d, c, {"op"}) /\ c.op = [d.op EXCEPT !.kind = "write_data"]
  BY <1>1 DEF Changes, IsDev, Fields
<1> QED BY <1>2 DEF Operations, NoOp

LEMMA WriteDmaCompleteKeeps == ASSUME Undisturbed, WriteDmaComplete PROVE Kept
<1> DEFINE o == Owned("tx_dma")
           c == Counted(o)
<1>1. /\ Base(dev, main) /\ RingOk(dev, main) /\ dev.fault = {}
      /\ IsDev(dev) /\ DevType(dev) /\ CardOk(dev) /\ MainType(main) /\ MainOk(dev, main)
  BY UndisturbedFacts
<1>2. main.pc = "loop" /\ "tx_dma" \in dev.cplt /\ main' = main
  BY DEF WriteDmaComplete, At
<1>3. /\ dev.g_emmc_user \in {"DB", "STORAGE"}
      /\ dev.op \in Operations /\ dev.op.kind = "write_wait"
      /\ Changes(dev, o, {"cplt"}) /\ o.cplt = {} /\ o.op = dev.op /\ dev.cplt = {"tx_dma"}
  BY <1>2, Takes
<1>4. CASE dev.g_emmc_user = "STORAGE"
  <2>1. dev' = HAL_MMC_WriteBlocks_DMA_Cont(c)
    BY <1>4 DEF WriteDmaComplete, emmc_user_write_storage_tx_dma_complete
  <2> HIDE DEF o
  <2>2. /\ Changes(o, c, {"mmcDataToTransfer", "mmcBlockAddr"})
        /\ c.mmcDataToTransfer = o.mmcDataToTransfer - o.mmcReadLen
        /\ c.mmcBlockAddr = (o.mmcBlockAddr + o.mmcReadLen) % AddrMod
    BY <1>3, CountedFacts DEF Changes
  <2> HIDE DEF c
  <2>3. /\ o.mmcDataToTransfer = dev.mmcDataToTransfer /\ o.mmcReadLen = dev.mmcReadLen
        /\ o.mmcBlockAddr = dev.mmcBlockAddr
    BY <1>3 DEF Changes, Fields
  <2>4. /\ Changes(dev, c, {"cplt", "mmcDataToTransfer", "mmcBlockAddr"}) /\ c.cplt = {}
        /\ c.op = dev.op
    BY <1>3, <2>2 DEF Changes, Fields
  <2>5. /\ Changes(c, dev', {"op"}) /\ dev'.op \in Operations /\ dev'.op # NoOp
        /\ dev'.op.kind = "write_data" /\ dev'.op.addr = c.op.addr
        /\ dev'.op.len = c.op.len /\ dev'.op.buf = c.op.buf
    <3>1. IsDev(c) /\ c.op \in Operations /\ c.op.kind = "write_wait"
      BY <1>3, <2>4 DEF Changes
    <3> QED BY <2>1, <3>1, ContFacts
  <2>6. Changes(dev, dev', Card)
    BY <2>4, <2>5 DEF Changes, Fields, Card
  <2>7. /\ dev'.cplt = {} /\ dev'.g_emmc_user = "STORAGE" /\ dev'.ready = dev.ready
        /\ dev'.g_db_action = dev.g_db_action /\ dev'.reading = dev.reading
        /\ dev'.mmcReadLen = dev.mmcReadLen /\ dev'.mmcBuffer = dev.mmcBuffer
    BY <1>4, <2>4, <2>5, <2>6 DEF Changes, Fields, Card
  <2>8. /\ dev.op # NoOp /\ ~dev.reading
        /\ dev.op.len = dev.mmcReadLen /\ dev.op.buf = dev.mmcBuffer /\ dev.mmcReadLen > 0
        /\ dev.op.buf # -1
    BY <1>1, <1>3, <1>4 DEF CardOk, NoOp
  <2>9. CardOk(dev')
    BY <2>4, <2>5, <2>7, <2>8 DEF CardOk, Doing
  <2>10. main.after # "ring"
    BY <1>1, <1>2 DEF MainOk, Idle
  <2>11. /\ dev.ring.processing /\ dev.cbw.len > 0
         /\ Finishing(dev, main) = {} /\ MmcStage(dev) \in StageIdx
         /\ dev.mmcReadLen <= dev.mmcDataToTransfer + CountedAhead(dev)
    BY <1>1, <1>4, <2>8, <2>10, PieceLeft
  <2>12. CountedAhead(dev) = 0 /\ CountedAhead(dev') = dev.mmcReadLen
    BY <1>3, <1>4, <2>5, <2>7 DEF CountedAhead
  <2>13. /\ dev'.mmcDataToTransfer = dev.mmcDataToTransfer - dev.mmcReadLen
         /\ dev'.mmcBlockAddr = (dev.mmcBlockAddr + dev.mmcReadLen) % AddrMod
    BY <2>2, <2>3, <2>5 DEF Changes, Fields
  <2>14. dev'.mmcDataToTransfer \in Nat
         /\ dev'.mmcDataToTransfer + CountedAhead(dev') = dev.mmcDataToTransfer + CountedAhead(dev)
    <3>1. dev.mmcDataToTransfer \in Nat /\ dev.mmcReadLen \in Nat
      BY <1>1 DEF DevType
    <3> QED BY <2>11, <2>12, <2>13, <3>1
  <2>15. dev'.mmcBlockAddr \in Nat
    BY <1>1, <2>13, AddrNat DEF DevType
  <2>16. MainOk(dev', main)
    BY <1>1, <1>2, <1>4, <2>7 DEF MainOk
  <2>17. CardMoved(dev, main, dev', main)
    BY <1>1, <1>4, <2>5, <2>6, <2>9, <2>14, <2>15, <2>16 DEF CardMoved
  <2>18. /\ Base(dev', main) /\ MmcStage(dev') = MmcStage(dev)
         /\ dev'.ring = dev.ring /\ dev'.cbw = dev.cbw /\ dev'.fault = dev.fault
         /\ StageLen(dev') = StageLen(dev)
         /\ OthersLeft(dev, dev', MmcStage(dev))
    BY <2>17, CardCounts
  <2>19. StageLeft(dev') = StageLeft(dev)
    <3>1. StageLeft(dev')[MmcStage(dev)] = StageLeft(dev)[MmcStage(dev)]
      BY <2>11, <2>14, <2>18 DEF StageLeft
    <3>2. \A t \in StageIdx : StageLeft(dev')[t] = StageLeft(dev)[t]
      BY <2>18, <3>1 DEF OthersLeft
    <3>3. StageLeft(dev') = [t \in StageIdx |-> StageLeft(dev')[t]]
          /\ StageLeft(dev) = [t \in StageIdx |-> StageLeft(dev)[t]]
      BY DEF StageLeft
    <3> QED BY <3>2, <3>3
  <2>20. Finishing(dev', main) = Finishing(dev, main)
    BY <2>18 DEF Finishing
  <2>21. Carries(dev, dev')
    <3>1. dev.mmcDataToTransfer \in Nat /\ dev.mmcReadLen \in Nat
          /\ dev.mmcReadLen <= dev.mmcDataToTransfer
      BY <1>1, <2>11, <2>12 DEF DevType
    <3>2. MmcLeft(dev') = MmcLeft(dev)
      BY <2>14 DEF MmcLeft
    <3>3. dev'.op.addr = dev.op.addr
      BY <2>4, <2>5
    <3>4. ASSUME VolumeOk(dev)
          PROVE  VolumeOk(dev')
      <4>1. /\ Fits(dev'.cbw) /\ dev'.mmcDataToTransfer + dev.mmcReadLen <= dev'.cbw.len
            /\ dev'.mmcBlockAddr = dev'.cbw.lba + dev'.cbw.len - dev'.mmcDataToTransfer
        BY <2>12, <2>13, <2>18, <3>1, <3>4, Advances
      <4>2. InPlace(dev')
        BY <1>4, <2>8, <2>18, <3>2, <3>3, <3>4 DEF InPlace, VolumeOk
      <4> QED BY <2>18, <3>2, <3>4, <4>1, <4>2 DEF VolumeOk
    <3> QED BY <3>4 DEF Carries
  <2>22. Carried(dev, dev')
    BY <2>11, <2>21, CarriedIf
  <2> QED BY <1>1, <1>2, <2>18, <2>19, <2>20, <2>22 DEF Kept, RingOk
<1>5. CASE dev.g_emmc_user = "DB"
  <2>1. dev' = HAL_MMC_WriteBlocks_DMA_Cont(o)
    BY <1>5 DEF WriteDmaComplete
  <2> HIDE DEF o
  <2>2. /\ Changes(o, dev', {"op"}) /\ dev'.op \in Operations /\ dev'.op # NoOp
        /\ dev'.op.kind = "write_data"
        /\ dev'.op.len = o.op.len /\ dev'.op.buf = o.op.buf
    <3>1. IsDev(o) /\ o.op \in Operations /\ o.op.kind = "write_wait"
      BY <1>3 DEF Changes
    <3> QED BY <2>1, <3>1, ContFacts
  <2>3. /\ Changes(dev, dev', {"cplt", "op"}) /\ dev'.cplt = {} /\ dev'.g_emmc_user = "DB"
    BY <1>3, <1>5, <2>2 DEF Changes, Fields
  <2>4. dev.op # NoOp /\ dev.op.buf = -1
    BY <1>1, <1>3, <1>5 DEF CardOk, NoOp
  <2>5. CardOk(dev')
    BY <1>3, <2>2, <2>3, <2>4 DEF CardOk, Doing
  <2> QED BY <1>2, <1>5, <2>2, <2>3, <2>5, DbCard
<1> QED BY <1>3, <1>4, <1>5

------------------------------------------------------------------------------
(* The transport: what USB delivers. *)

(* No data is sent or asked for, and the command in progress stays. *)
TransportMoved(d, e) ==
    /\ Changes(d, e, Transport) /\ e.fault = d.fault /\ e.cbw.len \in Nat
    /\ d.ring.processing => e.cbw = d.cbw
    /\ e.bot_state = d.bot_state \/ e.bot_state \notin {"DATA_IN", "DATA_OUT"}
    /\ \/ e.epIn = d.epIn \/ e.epIn.what = "none"
       \/ ~d.ring.processing /\ e.epIn.what # "data"
    /\ e.epOut = d.epOut \/ e.epOut # "data"

LEMMA Transported ==
    ASSUME NEW d, NEW m, Base(d, m), RingOk(d, m), NEW e, TransportMoved(d, e)
    PROVE  Base(e, m) /\ RingOk(e, m) /\ e.fault = d.fault /\ Carried(d, e)
<1>1. /\ IsDev(d) /\ DevType(d) /\ CardOk(d) /\ MainType(m) /\ MainOk(d, m)
      /\ MmcOk(d, m) /\ UsbOk(d) /\ CryptOk(d) /\ BotOk(d)
  BY DEF Base
<1>2. /\ e.ring = d.ring /\ e.reading = d.reading /\ e.writeLen = d.writeLen
      /\ e.mmcReadLen = d.mmcReadLen /\ e.crypt = d.crypt /\ e.mmcStageIdx = d.mmcStageIdx
      /\ e.g_emmc_user = d.g_emmc_user /\ e.ready = d.ready /\ e.op = d.op /\ e.cplt = d.cplt
      /\ e.g_cryptOutInt = d.g_cryptOutInt /\ e.g_usb_transmitting = d.g_usb_transmitting
      /\ e.mmcDataToTransfer = d.mmcDataToTransfer /\ e.scsi_blk_len = d.scsi_blk_len
      /\ e.stageIdx = d.stageIdx /\ e.g_db_action = d.g_db_action
      /\ e.mmcBuffer = d.mmcBuffer /\ e.mmcBlockAddr = d.mmcBlockAddr
  BY DEF TransportMoved, Changes, Fields, Transport
<1>3. MmcStage(e) = MmcStage(d) /\ UsbStage(e) = UsbStage(d)
  BY <1>2 DEF MmcStage, UsbStage, LastStage
<1>4. DevType(e)
  BY <1>1, <1>2 DEF TransportMoved, DevType
<1>5. CardOk(e)
  BY <1>1, <1>2 DEF CardOk, Doing
<1>6. MainOk(e, m)
  BY <1>1, <1>2 DEF MainOk, Doing
<1>7. MmcOk(e, m)
  BY <1>1, <1>2, <1>3 DEF MmcOk, MmcBusy
<1>8. UsbOk(e)
  BY <1>1, <1>2, <1>3 DEF UsbOk, UsbBusy, TransportMoved
<1>9. CryptOk(e)
  BY <1>1, <1>2 DEF CryptOk, CryptBusy
<1>10. BotOk(e)
  BY <1>1, <1>2 DEF BotOk, TransportMoved
<1>11. StageLeft(e) = StageLeft(d) /\ StageLen(e) = StageLen(d)
  BY <1>2, <1>3 DEF StageLeft, StageLen, CountedAhead
<1>12. Finishing(e, m) = Finishing(d, m)
  BY <1>3 DEF Finishing
<1>13. d.ring.processing => e.cbw = d.cbw
  BY DEF TransportMoved
<1>14. RingOk(e, m)
  BY <1>2, <1>11, <1>12, <1>13 DEF RingOk
<1>15. Carried(d, e)
  <2>1. CASE d.ring.processing
    <3>1. CountedAhead(e) = CountedAhead(d)
      BY <1>2 DEF CountedAhead
    <3>2. KeepsPlace(d, e)
      BY <1>2 DEF KeepsPlace
    <3>3. Carries(d, e)
      BY <1>2, <1>13, <2>1, <3>1, <3>2, Placed
    <3> QED BY <2>1, <3>3, CarriedIf
  <2>2. CASE ~d.ring.processing
    BY <1>2, <2>2 DEF Carried
  <2> QED BY <2>1, <2>2
<1>16. Base(e, m)
  BY <1>1, <1>4, <1>5, <1>6, <1>7, <1>8, <1>9, <1>10 DEF Base, TransportMoved, Changes
<1> QED BY <1>14, <1>15, <1>16 DEF TransportMoved

(* A piece has gone over USB: SCSI_ProcessRead, SCSI_ProcessWrite. *)
UsbFields == {"epIn", "epOut", "g_usb_transmitting"}

(* e is dev with the endpoints as in c and the piece accounted for. *)
AccountedBy(c, e) ==
    /\ PieceMoved(dev, e, main, UsbStage(dev))
    /\ Changes(dev, e, Peripheral) /\ Changes(c, e, {"scsi_blk_len"})
    /\ e.scsi_blk_len = dev.scsi_blk_len - dev.writeLen
    /\ dev.writeLen <= dev.scsi_blk_len
    /\ dev' = Complete(StallIfLast(e, UsbStage(dev)), UsbStage(dev),
                       StageLen(dev)[UsbStage(dev)])

LEMMA PieceGoes ==
    ASSUME Undisturbed, UsbBusy(dev), dev.cbw.len > 0,
           NEW c, Changes(dev, c, UsbFields), ~UsbBusy(c),
           c.epIn.what \in {"none", "data"},
           dev' = Account(c)
    PROVE  \E e : AccountedBy(c, e)
<1> DEFINE s == UsbStage(dev)
           len == Smaller(c.scsi_blk_len, c.writeLen)
           e == [c EXCEPT !.scsi_blk_len = @ - len]
           f == IF e.scsi_blk_len = 0 THEN Stall(e, c.stageIdx) ELSE e
<1>1. /\ Base(dev, main) /\ RingOk(dev, main) /\ dev.fault = {}
      /\ IsDev(dev) /\ DevType(dev) /\ BotOk(dev)
      /\ UsbOk(dev) /\ CryptOk(dev)
  BY UndisturbedFacts DEF Base
<1>2. /\ dev.ring.processing /\ dev.ring.stageProcessing[s] /\ dev.stageIdx = s
  BY <1>1 DEF UsbOk
<1>3. /\ s \in StageIdx /\ s # MmcStage(dev)
  BY <1>1, <1>2, StagesDiffer DEF BotOk, DevType
<1>4. F!RingInv(dev.ring, dev.cbw.len, StageLeft(dev), StageLen(dev), Finishing(dev, main))
  BY <1>1, <1>2 DEF RingOk
<1>5. s \notin Finishing(dev, main)
  BY <1>3 DEF Finishing
<1>6. StageLen(dev)[s] = dev.writeLen /\ StageLeft(dev)[s] = dev.scsi_blk_len
  BY <1>3 DEF StageLen, StageLeft
<1>7. dev.writeLen \in Nat /\ dev.scsi_blk_len \in Nat /\ dev.writeLen <= dev.scsi_blk_len
  <2>1. StageLen(dev)[s] <= StageLeft(dev)[s]
    <3>1. dev.cbw.len \in Nat
      BY <1>1 DEF DevType
    <3> QED BY <1>2, <1>3, <1>4, <1>5, <3>1, FlightFacts
  <2> QED BY <1>1, <1>6, <2>1 DEF DevType
<1>8. c.scsi_blk_len = dev.scsi_blk_len /\ c.writeLen = dev.writeLen /\ c.stageIdx = s
  BY <1>2 DEF Changes, Fields, UsbFields
<1>9. len = dev.writeLen
  BY <1>7, <1>8 DEF Smaller
<1>10. dev' = Complete(f, s, len)
  <2>1. e.stageIdx = c.stageIdx
    BY DEF Changes, IsDev, Fields
  <2> QED BY <1>8, <2>1 DEF Account
<1> HIDE DEF len, s
<1>11. Changes(c, e, {"scsi_blk_len"}) /\ e.scsi_blk_len = dev.scsi_blk_len - dev.writeLen
  BY <1>8, <1>9 DEF Changes, IsDev, Fields
<1> HIDE DEF e
<1>12. /\ e.ring = dev.ring /\ e.reading = dev.reading /\ e.stageIdx = dev.stageIdx
       /\ e.epIn = c.epIn /\ e.epOut = c.epOut /\ e.bot_state = dev.bot_state
       /\ e.crypt = dev.crypt /\ e.g_cryptOutInt = dev.g_cryptOutInt
  BY <1>11 DEF Changes, Fields, UsbFields
<1>13. UsbOk(e) /\ ~UsbBusy(e)
  BY <1>12 DEF UsbOk, UsbBusy
<1>14. CryptOk(e) /\ BotOk(e)
  BY <1>1, <1>12 DEF CryptOk, CryptBusy, BotOk
<1>15. Changes(dev, e, Peripheral)
  BY <1>11 DEF Changes, Peripheral, UsbFields
<1>16. /\ e.crypt \in Crypts /\ e.g_cryptOutInt \in BOOLEAN /\ e.scsi_blk_len \in Nat
  BY <1>1, <1>7, <1>11, <1>12 DEF DevType
<1>17. /\ Base(e, main) /\ MmcStage(e) = MmcStage(dev) /\ UsbStage(e) = UsbStage(dev)
       /\ e.ring = dev.ring /\ e.cbw = dev.cbw /\ e.fault = dev.fault
       /\ CountedAhead(e) = CountedAhead(dev) /\ Finishing(e, main) = Finishing(dev, main)
       /\ e.writeLen = dev.writeLen /\ e.mmcReadLen = dev.mmcReadLen
       /\ e.mmcDataToTransfer = dev.mmcDataToTransfer
  BY <1>1, <1>13, <1>14, <1>15, <1>16, PeripheralDone
<1>18. StageLen(e) = StageLen(dev)
  BY <1>12, <1>17 DEF StageLen
<1>19. StageLeft(e)[s] = e.scsi_blk_len
       /\ \A t \in StageIdx : t # s => StageLeft(e)[t] = StageLeft(dev)[t]
  BY <1>3, <1>12, <1>17 DEF StageLeft, s
<1>20. LessBy(StageLeft(dev), StageLeft(e), s, StageLen(dev)[s])
  <2>1. StageLeft(e)[s] = StageLeft(dev)[s] - StageLen(dev)[s]
    BY <1>6, <1>11, <1>19
  <2> QED BY <1>19, <2>1 DEF LessBy
<1>21. Resting(e, main, s)
  BY <1>3, <1>13, <1>17 DEF Resting, s
<1>22. PieceMoved(dev, e, main, s)
  BY <1>1, <1>2, <1>3, <1>4, <1>5, <1>17, <1>18, <1>20, <1>21 DEF PieceMoved
<1>23. dev' = Complete(StallIfLast(e, s), s, StageLen(dev)[s])
  BY <1>6, <1>8, <1>9, <1>10, <1>19 DEF StallIfLast
<1> QED BY <1>7, <1>11, <1>15, <1>22, <1>23 DEF AccountedBy, s

LEMMA PieceSent ==
    ASSUME Undisturbed, UsbBusy(dev), dev.cbw.len > 0,
           NEW c, Changes(dev, c, UsbFields), ~UsbBusy(c),
           c.epIn.what \in {"none", "data"},
           dev' = Account(c), main' = main
    PROVE  Kept
<1> DEFINE s == UsbStage(dev)
<1>1. PICK e : AccountedBy(c, e)
  BY PieceGoes
<1>2. /\ PieceMoved(dev, e, main, s) /\ Changes(dev, e, Peripheral)
      /\ dev' = Complete(StallIfLast(e, s), s, StageLen(dev)[s])
  BY <1>1 DEF AccountedBy
<1>3. dev.fault = {} /\ dev.ring.processing
  BY <1>2, UndisturbedFacts DEF PieceMoved
<1> HIDE DEF s
<1>4. /\ Base(dev', main) /\ RingOk(dev', main) /\ dev'.fault = dev.fault
      /\ Carries(e, dev')
  BY <1>2, PieceDone
<1>5. Carried(dev, dev')
  <2>1. Carries(dev, e)
    BY <1>2, Untouched DEF PlaceFields, Peripheral
  <2> QED BY <1>3, <1>4, <2>1, CarriesOn, CarriedIf
<1> QED BY <1>3, <1>4, <1>5 DEF Kept

(* While the host waits, no reset has come between. *)
LEMMA WaitingFacts ==
    ASSUME Undisturbed, StatusOk(dev, host), host.waiting
    PROVE  /\ dev.ring.processing \/ dev.bot_state = "SEND_DATA" =>
                dev.epOut # "cbw" /\ dev.epIn.what # "csw"
           /\ ~(dev.ring.processing /\ dev.bot_state = "SEND_DATA")
           /\ dev.epIn.what = "csw" => dev.bot_state = "IDLE"
           /\ dev.ring.processing => dev.cbw = host.cmd /\ Consistent(dev.cbw)
           /\ host.cmd.data \in Nat /\ host.sent \in Nat
BY DEF Undisturbed, StatusOk, HostOk

(* A step that moves nothing but the transport. *)
LEMMA TransportKeeps ==
    ASSUME Undisturbed, TransportMoved(dev, dev'), main' = main
    PROVE  Kept
<1>1. Base(dev, main) /\ RingOk(dev, main) /\ dev.fault = {}
  BY UndisturbedFacts
<1>2. /\ Base(dev', main) /\ RingOk(dev', main) /\ dev'.fault = dev.fault
      /\ Carried(dev, dev')
  BY <1>1, Transported
<1> QED BY <1>1, <1>2 DEF Kept

LEMMA SendDataKeeps ==
    ASSUME Undisturbed, StatusOk(dev, host), SendData
    PROVE  Kept
<1> DEFINE c == [dev EXCEPT !.epOut = "none"]
<1>1. /\ IsDev(dev) /\ DevType(dev) /\ UsbOk(dev) /\ BotOk(dev)
  BY UndisturbedFacts DEF Undisturbed, Base
<1>2. /\ host.waiting /\ host.sent < host.cmd.data /\ dev.epOut = "data"
      /\ dev' = MSC_BOT_DataOut(c) /\ main' = main
  BY DEF SendData, Sending, HostOnly
<1>3. Changes(dev, c, {"epOut"}) /\ c.epOut = "none"
  BY <1>1 DEF Changes, IsDev, Fields
<1> HIDE DEF c
<1>4. c.bot_state = dev.bot_state /\ c.epIn = dev.epIn
  BY <1>3 DEF Changes, Fields
<1>5. CASE dev.bot_state = "DATA_OUT"
  <2>1. dev' = Account(c)
    BY <1>2, <1>4, <1>5 DEF MSC_BOT_DataOut, SCSI_ProcessWrite
  <2>2. /\ UsbBusy(dev) /\ dev.ring.processing /\ ~dev.reading
    BY <1>1, <1>2 DEF UsbOk, UsbBusy
  <2>3. dev.epIn.what = "none"
    BY <1>1, <2>2 DEF UsbOk, BotOk
  <2>4. ~UsbBusy(c) /\ c.epIn.what \in {"none", "data"}
    BY <1>3, <1>4, <2>3 DEF UsbBusy
  <2>5. dev.cbw.len > 0
    <3>1. /\ host.cmd.data \in Nat /\ host.sent \in Nat
          /\ dev.cbw = host.cmd /\ Consistent(dev.cbw)
      BY <1>2, <2>2, WaitingFacts
    <3> QED BY <1>2, <3>1 DEF Consistent
  <2>6. Changes(dev, c, UsbFields)
    BY <1>3 DEF Changes, UsbFields
  <2> QED BY <1>2, <2>1, <2>2, <2>4, <2>5, <2>6, PieceSent
<1>6. CASE dev.bot_state # "DATA_OUT"
  <2>1. dev' = c
    BY <1>2, <1>4, <1>6 DEF MSC_BOT_DataOut
  <2>2. TransportMoved(dev, c)
    BY <1>1, <1>3 DEF TransportMoved, Changes, Fields, Transport, DevType
  <2> QED BY <1>2, <2>1, <2>2, TransportKeeps
<1> QED BY <1>5, <1>6

(* Sent: the endpoint is free again. *)
LEMMA SentFacts ==
    ASSUME IsDev(dev)
    PROVE  /\ Changes(dev, Sent, {"epIn"}) /\ Sent.epIn.what = "none"
BY DEF Changes, IsDev, Fields, Sent

LEMMA ReceiveDataKeeps ==
    ASSUME Undisturbed, StatusOk(dev, host), ReceiveData
    PROVE  Kept
<1>1. /\ IsDev(dev) /\ DevType(dev) /\ UsbOk(dev) /\ BotOk(dev) /\ RingOk(dev, main)
      /\ Base(dev, main)
  BY UndisturbedFacts DEF Undisturbed, Base
<1>2. /\ host.waiting /\ dev.epIn.what \in {"data", "response"}
      /\ dev' = MSC_BOT_DataIn(Sent) /\ main' = main
  BY DEF ReceiveData, Polling, HostOnly
<1>3. Changes(dev, Sent, {"epIn"}) /\ Sent.epIn.what = "none"
  BY <1>1, SentFacts
<1>4. /\ Sent.bot_state = dev.bot_state /\ Sent.g_usb_transmitting = dev.g_usb_transmitting
      /\ Sent.epOut = dev.epOut
  BY <1>3 DEF Changes, Fields
<1>5. CASE dev.bot_state = "DATA_IN"
  <2> DEFINE c == [Sent EXCEPT !.g_usb_transmitting = FALSE]
  <2>1. dev.ring.processing /\ dev.reading /\ dev.epIn.what = "data" /\ dev.g_usb_transmitting
        /\ dev.ring.stageProcessing[UsbStage(dev)]
    BY <1>1, <1>2, <1>5 DEF BotOk, UsbOk, UsbBusy
  <2>2. dev' = Account(c)
    BY <1>2, <1>4, <1>5, <2>1 DEF MSC_BOT_DataIn, SCSI_ProcessRead
  <2>3. Changes(Sent, c, {"g_usb_transmitting"})
    BY <1>3 DEF Changes, IsDev, Fields
  <2> HIDE DEF c
  <2>4. Changes(dev, c, UsbFields) /\ c.epIn.what = "none" /\ c.epOut = dev.epOut
    BY <1>3, <1>4, <2>3 DEF Changes, Fields, UsbFields
  <2>5. dev.epOut # "data"
    BY <1>1, <2>1 DEF UsbOk
  <2>6. UsbBusy(dev) /\ ~UsbBusy(c)
    BY <2>1, <2>4, <2>5 DEF UsbBusy
  <2>7. dev.cbw.len > 0
    <3>1. UsbStage(dev) \in StageIdx \ {0}
      <4>1. dev.ring.numStages \in {2, 3} /\ dev.reading \in BOOLEAN
        BY <1>1, <2>1 DEF BotOk, DevType
      <4>2. UsbStage(dev) \in StageIdx /\ (UsbStage(dev) = 0 <=> ~dev.reading)
        BY <4>1, StagesDiffer
      <4> QED BY <2>1, <4>2
    <3> QED BY <1>1, <2>1, <3>1, NotFrozen
  <2>8. c.epIn.what \in {"none", "data"}
    BY <2>4
  <2> QED BY <1>2, <2>2, <2>4, <2>6, <2>7, <2>8, PieceSent
<1>6. CASE dev.bot_state = "SEND_DATA"
  <2>1. dev' = MSC_BOT_SendCSW(Sent, TRUE)
    BY <1>2, <1>4, <1>6 DEF MSC_BOT_DataIn
  <2>2. ~dev.ring.processing
    BY <1>2, <1>6, WaitingFacts
  <2>3. IsDev(Sent)
    BY <1>3 DEF Changes
  <2>4. /\ Changes(Sent, dev', {"bot_state", "epIn", "epOut"})
        /\ dev'.bot_state = "IDLE" /\ dev'.epOut = "cbw" /\ dev'.epIn = Csw(Sent, TRUE)
    BY <1>3, <2>1, <2>3, CswFree
  <2>5. Csw(Sent, TRUE).what = "csw"
    BY DEF Csw
  <2>6. /\ Changes(dev, dev', Transport) /\ dev'.fault = dev.fault /\ dev'.cbw = dev.cbw
    BY <1>3, <2>4 DEF Changes, Fields, Transport
  <2>7. TransportMoved(dev, dev')
    BY <1>1, <2>2, <2>4, <2>5, <2>6 DEF TransportMoved, DevType
  <2> QED BY <1>2, <2>7, TransportKeeps
<1>7. CASE dev.bot_state \notin {"DATA_IN", "SEND_DATA"}
  <2>1. dev' = Sent
    BY <1>2, <1>4, <1>7 DEF MSC_BOT_DataIn
  <2>2. TransportMoved(dev, Sent)
    BY <1>1, <1>3 DEF TransportMoved, Changes, Fields, Transport, DevType
  <2> QED BY <1>2, <2>1, <2>2, TransportKeeps
<1> QED BY <1>5, <1>6, <1>7

LEMMA ReceiveStatusKeeps ==
    ASSUME Undisturbed, StatusOk(dev, host), ReceiveStatus
    PROVE  Kept
<1>1. /\ IsDev(dev) /\ DevType(dev)
  BY UndisturbedFacts
<1>2. /\ host.waiting /\ dev.epIn.what = "csw"
      /\ dev' = MSC_BOT_DataIn(Sent) /\ main' = main
  BY DEF ReceiveStatus, Polling, HostOnly
<1>3. Changes(dev, Sent, {"epIn"}) /\ Sent.epIn.what = "none"
  BY <1>1, SentFacts
<1>4. Sent.bot_state = "IDLE"
  BY <1>2, <1>3, WaitingFacts DEF Changes, Fields
<1>5. dev' = Sent
  BY <1>2, <1>4 DEF MSC_BOT_DataIn
<1>6. TransportMoved(dev, Sent)
  BY <1>1, <1>3 DEF TransportMoved, Changes, Fields, Transport, DevType
<1> QED BY <1>2, <1>5, <1>6, TransportKeeps

LEMMA ClearHaltKeeps == ASSUME Undisturbed, ClearHalt PROVE Kept
<1>1. /\ IsDev(dev) /\ DevType(dev)
  BY UndisturbedFacts
<1>2. Changes(dev, dev', {"stalledIn", "stalledOut"}) /\ main' = main
  BY <1>1 DEF ClearHalt, HostOnly, Changes, IsDev, Fields
<1>3. TransportMoved(dev, dev')
  BY <1>1, <1>2 DEF TransportMoved, Changes, Fields, Transport, DevType
<1> QED BY <1>2, <1>3, TransportKeeps

ResetFields == {"bot_state", "bot_status", "epOut", "stalledIn", "stalledOut", "disturbed"}

LEMMA ResetChanges ==
    ASSUME IsDev(dev), ResetRecovery
    PROVE  /\ Changes(dev, dev', ResetFields)
           /\ dev'.bot_state = "IDLE" /\ dev'.epOut = "cbw"
           /\ dev'.disturbed =
                 IF host.waiting THEN dev.disturbed \cup {"reset"} ELSE dev.disturbed
<1> DEFINE c == MSC_BOT_Reset(dev)
           more == IF host.waiting THEN c.disturbed \cup {"reset"} ELSE c.disturbed
<1>1. /\ Changes(dev, c, {"bot_state", "bot_status", "epOut"})
      /\ c.bot_state = "IDLE" /\ c.epOut = "cbw"
  BY DEF Changes, IsDev, Fields, MSC_BOT_Reset, USBD_LL_PrepareReceive
<1>2. dev' = [c EXCEPT !.stalledIn = FALSE, !.stalledOut = FALSE, !.disturbed = more]
  <2>1. IsDev(c)
    BY <1>1 DEF Changes
  <2> QED BY <2>1 DEF ResetRecovery, IsDev, Fields
<1> HIDE DEF c, more
<1>3. Changes(c, dev', {"stalledIn", "stalledOut", "disturbed"}) /\ dev'.disturbed = more
  BY <1>1, <1>2 DEF Changes, IsDev, Fields
<1> QED BY <1>1, <1>3 DEF Changes, Fields, ResetFields, more

LEMMA ResetRecoveryKeeps == ASSUME Undisturbed, ResetRecovery PROVE Kept
<1>1. /\ IsDev(dev) /\ DevType(dev)
  BY UndisturbedFacts
<1>2. /\ Changes(dev, dev', ResetFields)
      /\ dev'.bot_state = "IDLE" /\ dev'.epOut = "cbw" /\ main' = main
  BY <1>1, ResetChanges DEF ResetRecovery
<1>3. TransportMoved(dev, dev')
  BY <1>1, <1>2 DEF TransportMoved, Changes, Fields, Transport, DevType, ResetFields
<1> QED BY <1>2, <1>3, TransportKeeps

------------------------------------------------------------------------------
(* A new command. *)

(* The commands the host sends are well formed. *)
IsCommand(c) == /\ c.len \in Nat /\ c.lba \in Nat /\ c.data \in Nat /\ c.lun \in Luns
                /\ c.kind # "invalid"

LEMMA CommandsOk == ASSUME NEW c \in Commands, NEW tag, NEW x, x = [c EXCEPT !.tag = tag]
                    PROVE  IsCommand(x)
<1> DEFINE Good(y) == IsCommand([y EXCEPT !.tag = tag])
<1>1. LBAs \subseteq Nat /\ Lens \subseteq Nat
  BY MassStorageAssumption, StorageSystemAssumption
<1>2. ASSUME NEW kind, kind # "invalid", NEW lun \in Luns, NEW lba \in Nat, NEW len \in Nat,
             NEW in, NEW n \in Nat
      PROVE  Good(Command(kind, lun, lba, len, in, n))
  BY <1>2 DEF Command, IsCommand
<1> HIDE DEF Good
<1>3. 0 \in Luns /\ {0, 1} \subseteq Nat
  BY DEF Luns
<1> DEFINE
      Transfers == {Command(kind, lun, lba, len, kind = "read", len) :
                      kind \in {"read", "write"}, lun \in Luns, lba \in LBAs, len \in Lens}
      Wrong == {Command(kind, 0, 0, 1, kind # "read", 1) : kind \in {"read", "write"}}
      Sizes == {Command("read_capacity", lun, 0, 0, TRUE, 1) : lun \in Luns}
      Test(lun, n) == Command("test_unit_ready", lun, 0, 0, FALSE, n)
      Tests == {Test(lun, n) : lun \in Luns, n \in {0, 1}}
      Others == {Command("inquiry", 0, 0, 0, TRUE, 1), Command("other", 0, 0, 0, FALSE, 0)}
<1>4. \A y \in Transfers : Good(y)
  BY <1>1, <1>2
<1>5. \A y \in Wrong \cup Sizes : Good(y)
  BY <1>2, <1>3
<1>6. \A y \in Tests : Good(y)
  <2>1. \A lun \in Luns, n \in {0, 1} : Good(Test(lun, n))
    BY <1>2, <1>3
  <2> HIDE DEF Test
  <2> QED BY <2>1
<1>7. \A y \in Others : Good(y)
  BY <1>2, <1>3
<1>8. Commands = Transfers \cup Wrong \cup Sizes \cup Tests \cup Others
  BY DEF Commands
<1> HIDE DEF Transfers, Wrong, Sizes, Tests, Others
<1>9. Good(c)
  BY <1>4, <1>5, <1>6, <1>7, <1>8
<1> QED BY <1>9 DEF Good

(* The AES unit of an encrypted transfer. *)
CryptFor(k, c) ==
    IF Encrypted(c.lun) THEN [k EXCEPT !.toTransfer = c.len, !.sector = c.lba] ELSE k

LEMMA CryptReadied ==
    ASSUME NEW k \in Crypts, NEW c, c.len \in Nat, c.lba \in Nat, NEW x, x = CryptFor(k, c)
    PROVE  /\ x \in Crypts /\ x.running = k.running
           /\ Encrypted(c.lun) => x.toTransfer = c.len
<1> DEFINE y == [k EXCEPT !.toTransfer = c.len]
<1>1. y \in Crypts /\ y.running = k.running /\ y.toTransfer = c.len
  BY DEF Crypts
<1>2. [k EXCEPT !.toTransfer = c.len, !.sector = c.lba] = [y EXCEPT !.sector = c.lba]
  OBVIOUS
<1> HIDE DEF y
<1>3. /\ [y EXCEPT !.sector = c.lba] \in Crypts
      /\ [y EXCEPT !.sector = c.lba].running = y.running
      /\ [y EXCEPT !.sector = c.lba].toTransfer = y.toTransfer
  BY <1>1 DEF Crypts
<1> QED BY <1>1, <1>2, <1>3 DEF CryptFor

(* The ring of the transfer. *)
RingFor(b, c) ==
    bufferFIFO_start([b EXCEPT !.numStages = StageCount(c.lun)], Smaller(c.len, BufSectors))

(* SCSI_Read10, SCSI_Write10: the first stage is launched. *)
(* A transfer for c is set up in x, and e is x with its first stage launched.   *)
StartsFrom(d, c, x, e, m) ==
    /\ e = RunStages(x) /\ Readied(d, c, x) /\ Called(x, m)
    /\ x.crypt = CryptFor(d.crypt, c) /\ x.ring = RingFor(d.ring, c)
    /\ Begun(x.ring, StageCount(c.lun))
    /\ ~MmcBusy(x, m) /\ ~UsbBusy(x) /\ ~CryptBusy(x)
    /\ x.crypt \in Crypts /\ (StageCount(c.lun) = 3 => x.crypt.toTransfer = c.len)

LEMMA StartFacts ==
    ASSUME NEW d, NEW m, Base(d, m), RingOk(d, m), ~d.ring.processing, d.epIn.what = "none",
           NEW c, c.len \in Nat, c.lba \in Nat, c.lun \in Luns, d.cbw = c,
           NEW e, e = StartTransfer(d, c)
    PROVE  \E x : StartsFrom(d, c, x, e, m)
<1> DEFINE n == StageCount(c.lun)
           l == Smaller(c.len, BufSectors)
           p == RingFor(d.ring, c)
<1>1. /\ IsDev(d) /\ DevType(d) /\ CardOk(d) /\ MainType(m) /\ MainOk(d, m)
      /\ MmcOk(d, m) /\ UsbOk(d) /\ CryptOk(d) /\ BotOk(d)
  BY DEF Base
<1>2. ~MmcBusy(d, m) /\ ~UsbBusy(d) /\ ~CryptBusy(d)
  BY <1>1 DEF MmcOk, UsbOk, CryptOk
<1>3. PICK x : e = RunStages(x) /\ Readied(d, c, x)
  BY <1>1, TransferSet
<1>4. /\ Changes(d, x, TransferFields)
      /\ x.bot_state = IF c.kind = "read" THEN "DATA_IN" ELSE "DATA_OUT"
      /\ x.reading = (c.kind = "read")
      /\ x.scsi_blk_len = c.len /\ x.mmcDataToTransfer = c.len /\ x.mmcBlockAddr = c.lba
      /\ x.crypt = CryptFor(d.crypt, c) /\ x.ring = p
  BY <1>3 DEF Readied, CryptFor, RingFor
<1>5. n \in {2, 3} /\ l \in Nat /\ (n = 3 <=> Encrypted(c.lun))
  BY MassStorageAssumption DEF StageCount, Smaller
<1>ring. Begun(p, n)
  <2>1. d.ring \in FifoStruct /\ \A s \in StageIdx : ~d.ring.stageProcessing[s]
    BY <1>1 DEF DevType, RingOk
  <2>2. p = bufferFIFO_start([d.ring EXCEPT !.numStages = n], l)
    BY DEF RingFor
  <2> HIDE DEF p, n, l
  <2> QED BY <1>5, <2>1, <2>2, StartMakes
<1> HIDE DEF p, n, l
<1>6. /\ p \in FifoStruct /\ p.numStages = n /\ p.processing /\ p.exec = {0}
      /\ \A s \in StageIdx : p.stageProcessing[s] <=> s = 0
  BY <1>ring DEF Begun
<1>7. /\ x.crypt \in Crypts /\ x.crypt.running = d.crypt.running
      /\ n = 3 => x.crypt.toTransfer = c.len
  <2>1. d.crypt \in Crypts
    BY <1>1 DEF DevType
  <2> QED BY <1>4, <1>5, <2>1, CryptReadied
<1>8. /\ x.g_emmc_user = d.g_emmc_user /\ x.ready = d.ready /\ x.op = d.op /\ x.cplt = d.cplt
      /\ x.g_cryptOutInt = d.g_cryptOutInt /\ x.epIn = d.epIn /\ x.epOut = d.epOut
      /\ x.g_db_action = d.g_db_action /\ x.cbw = c /\ x.fault = d.fault
      /\ x.mmcBuffer = d.mmcBuffer /\ x.mmcReadLen = d.mmcReadLen /\ x.writeLen = d.writeLen
  BY <1>4 DEF Changes, Fields, TransferFields
<1>9. ~MmcBusy(x, m) /\ ~UsbBusy(x) /\ ~CryptBusy(x)
  BY <1>2, <1>7, <1>8 DEF MmcBusy, UsbBusy, CryptBusy
<1>10. DevType(x)
  BY <1>1, <1>4, <1>6, <1>7, <1>8 DEF DevType
<1>11. CardOk(x)
  BY <1>1, <1>2, <1>8 DEF CardOk, Doing, MmcBusy
<1>12. MainOk(x, m)
  BY <1>1, <1>8 DEF MainOk, Doing
<1>13. BotOk(x)
  BY <1>4, <1>5, <1>6, <1>8 DEF BotOk
<1>14. MmcOk(x, m) /\ UsbOk(x) /\ CryptOk(x)
  BY <1>9 DEF MmcOk, UsbOk, CryptOk, UsbBusy
<1>15. Base(x, m)
  BY <1>1, <1>4, <1>10, <1>11, <1>12, <1>13, <1>14 DEF Base, Changes
<1>16. \A t \in StageIdx : Resting(x, m, t)
  BY <1>9 DEF Resting
<1>17. Called(x, m)
  <2>1. 0 \in StageIdx /\ 0 < n
    BY <1>5, StagesAre
  <2> QED BY <1>4, <1>6, <1>15, <1>16, <2>1 DEF Called
<1>18. StartsFrom(d, c, x, e, m)
  BY <1>3, <1>4, <1>ring, <1>7, <1>9, <1>17 DEF StartsFrom, n, p
<1> QED BY <1>18

(* SCSI_Read10, SCSI_Write10: the first stage is launched. *)
LEMMA StartsOk ==
    ASSUME NEW d, NEW m, Base(d, m), RingOk(d, m), ~d.ring.processing, d.epIn.what = "none",
           NEW c, c.len \in Nat, c.lba \in Nat, c.lun \in Luns, d.cbw = c,
           NEW e, e = StartTransfer(d, c)
    PROVE  /\ Base(e, m) /\ RingOk(e, m) /\ e.fault = d.fault /\ e.cbw = c
           /\ "range" \notin e.disturbed => VolumeOk(e)
<1> DEFINE n == StageCount(c.lun)
           l == Smaller(c.len, BufSectors)
           p == RingFor(d.ring, c)
<1>1. PICK x : StartsFrom(d, c, x, e, m)
  BY StartFacts
<1>3. e = RunStages(x) /\ Readied(d, c, x)
  BY <1>1 DEF StartsFrom
<1>4. /\ Changes(d, x, TransferFields)
      /\ x.reading = (c.kind = "read")
      /\ x.scsi_blk_len = c.len /\ x.mmcDataToTransfer = c.len /\ x.mmcBlockAddr = c.lba
      /\ x.ring = p
  BY <1>1, <1>3 DEF StartsFrom, Readied
<1>5. n \in {2, 3} /\ l \in Nat
  BY MassStorageAssumption DEF StageCount, Smaller
<1>ring. Begun(p, n)
  BY <1>1 DEF StartsFrom
<1> HIDE DEF p, n, l
<1>6. /\ p \in FifoStruct /\ p.numStages = n /\ p.processing /\ p.exec = {0}
      /\ \A s \in StageIdx : p.stageProcessing[s] <=> s = 0
  BY <1>ring DEF Begun
<1>7. x.crypt \in Crypts /\ (n = 3 => x.crypt.toTransfer = c.len)
  BY <1>1 DEF StartsFrom, n
<1>8. x.fault = d.fault /\ x.cbw = c
  BY <1>4 DEF Changes, Fields, TransferFields
<1>9. ~MmcBusy(x, m) /\ ~UsbBusy(x) /\ ~CryptBusy(x)
  BY <1>1 DEF StartsFrom
<1>17. Called(x, m)
  BY <1>1 DEF StartsFrom
<1>18. /\ Base(e, m) /\ e.fault = x.fault /\ StageLeft(e) = StageLeft(x)
       /\ Changes(x, e, Launching \cup {"ring"})
       /\ e.ring = [x.ring EXCEPT !.exec = {}]
       /\ StageLen(e) = F!LaunchLen(x.ring, StageLeft(x), StageLen(x)) /\ Carries(x, e)
  BY <1>3, <1>17, RunOk
<1>19. e.cbw = c
  BY <1>8, <1>18 DEF Changes, Fields, Launching
<1>20. /\ x.ring.numStages = n /\ x.reading \in BOOLEAN
       /\ MmcStage(x) \in StageIdx /\ UsbStage(x) \in StageIdx
       /\ MmcStage(x) # UsbStage(x)
  <2>1. x.ring.numStages = n /\ x.reading \in BOOLEAN
    BY <1>4, <1>6
  <2> QED BY <1>5, <2>1, StagesDiffer
<1>21. CountedAhead(x) = 0
  BY <1>9 DEF CountedAhead, MmcBusy
<1>22. StageLeft(x) \in [StageIdx -> Nat] /\ \A t \in 0 .. n - 1 : StageLeft(x)[t] = c.len
  <2>1. x.crypt.toTransfer \in Nat
    BY <1>7 DEF Crypts
  <2>2. \A t \in StageIdx :
           /\ StageLeft(x)[t] \in {c.len, x.crypt.toTransfer, 0}
           /\ t \in {MmcStage(x), UsbStage(x)} => StageLeft(x)[t] = c.len
           /\ t = 1 /\ n = 3 => StageLeft(x)[t] = c.len
    BY <1>4, <1>7, <1>21 DEF StageLeft
  <2>3. 0 .. n - 1 \subseteq StageIdx
        /\ \A t \in 0 .. n - 1 : t \in {MmcStage(x), UsbStage(x)} \/ (t = 1 /\ n = 3)
    BY <1>5, <1>20, StagesAre DEF MmcStage, UsbStage, LastStage
  <2>4. StageLeft(x) = [t \in StageIdx |-> StageLeft(x)[t]]
    BY DEF StageLeft
  <2> QED BY <2>1, <2>2, <2>3, <2>4
<1>23. StageLen(e) \in [StageIdx -> Nat] /\ StageLen(e)[0] = l
  <2>1. DevType(e)
    BY <1>18 DEF Base
  <2>2. e.mmcReadLen \in Nat /\ e.writeLen \in Nat /\ e.crypt.txLen \in Nat
    BY <2>1 DEF DevType, Crypts
  <2>3. StageLen(e) \in [StageIdx -> Nat]
    BY <2>2 DEF StageLen
  <2>4. 0 \in x.ring.exec /\ 0 \in StageIdx /\ 0 \in 0 .. n - 1
    BY <1>4, <1>5, <1>6, StagesAre
  <2>5. StageLen(e)[0] = Smaller(StageLeft(x)[0], BufSectors)
    BY <1>18, <2>4, Same DEF F!LaunchLen
  <2> QED BY <1>22, <2>3, <2>4, <2>5 DEF l
<1>24. e.ring = [p EXCEPT !.exec = {}] /\ e.ring.processing
       /\ e.ring.stageProcessing = p.stageProcessing
  <2>1. e.ring = [p EXCEPT !.exec = {}]
    BY <1>4, <1>18
  <2> QED BY <1>6, <2>1 DEF FifoStruct
<1>25. m.after # "ring" /\ Finishing(e, m) = {}
  BY <1>9 DEF MmcBusy, Finishing
<1>26. RingOk(e, m)
  <2>1. CASE c.len > 0
    <3>1. F!RingInv([p EXCEPT !.exec = {}], c.len, StageLeft(x), StageLen(e), {})
      <4>1. c.len \in Nat \ {0}
        BY <2>1
      <4>2. \A tot \in Nat \ {0}, lft \in [StageIdx -> Nat], ln \in [StageIdx -> Nat] :
               /\ \A s \in 0 .. n - 1 : lft[s] = tot
               /\ ln[0] = Smaller(tot, BufSectors)
               => F!RingInv([p EXCEPT !.exec = {}], tot, lft, ln, {})
        BY <1>ring, Zenon DEF Begun
      <4> HIDE DEF p, n
      <4> QED BY <1>22, <1>23, <4>1, <4>2, Zenon DEF l
    <3>2. F!RingInv(e.ring, c.len, StageLeft(e), StageLen(e), {})
      BY <1>18, <1>24, <3>1
    <3> QED BY <1>19, <1>24, <1>25, <2>1, <3>2 DEF RingOk
  <2>2. CASE c.len = 0
    <3>1. StageLen(e)[0] = 0
      BY <1>23, <2>2, MassStorageAssumption DEF l, Smaller
    <3> QED BY <1>6, <1>19, <1>24, <1>25, <2>2, <3>1 DEF RingOk
  <2> QED BY <2>1, <2>2
<1>27. ASSUME "range" \notin e.disturbed
       PROVE  VolumeOk(e)
  <2>1. e.disturbed = x.disturbed
    BY <1>18 DEF Changes, Fields, Launching
  <2>2. c.lba + c.len <= Capacity(c.lun)
    <3>1. Capacity(c.lun) \in Nat
      BY MassStorageAssumption DEF Capacity
    <3>2. c.lba + c.len > Capacity(c.lun) => "range" \in x.disturbed
      BY <1>3 DEF Readied
    <3> QED BY <1>27, <2>1, <3>1, <3>2
  <2>3. MmcLeft(x) = c.len
    BY <1>4, <1>21 DEF MmcLeft
  <2>4. InPlace(x)
    BY <1>9 DEF InPlace, MmcBusy
  <2>5. VolumeOk(x)
    BY <1>4, <1>8, <2>2, <2>3, <2>4 DEF VolumeOk, Fits
  <2> QED BY <1>18, <2>5 DEF Carries
<1> QED BY <1>8, <1>18, <1>19, <1>26, <1>27

(* The command is refused, answered, or a transfer is started. *)
Landed(d, e, m) ==
    /\ Base(e, m) /\ RingOk(e, m) /\ e.fault = d.fault
    /\ e.ring.processing /\ "range" \notin e.disturbed => VolumeOk(e)

LEMMA DecodeOk ==
    ASSUME NEW d, NEW m, Base(d, m), RingOk(d, m), ~d.ring.processing, d.epIn.what = "none",
           NEW c, IsCommand(c), NEW e, e = MSC_BOT_CBW_Decode(d, c)
    PROVE  Landed(d, e, m)
<1>1. IsDev(d) /\ DevType(d) /\ c.len \in Nat /\ c.lba \in Nat /\ c.lun \in Luns
  BY DEF Base, IsCommand
<1>2. PICK b : Noted(d, c, b) /\ (AtOnce(b, c, e) \/ Starts(b, c, e))
  BY <1>1, DecodeWays
<1>3. /\ ~b.ring.processing /\ b.epIn.what = "none" /\ b.fault = d.fault /\ b.cbw = c
      /\ b.bot_state = d.bot_state /\ b.epOut = d.epOut
  BY <1>2 DEF Noted, Changes, Fields
<1>4. CASE AtOnce(b, c, e)
  <2>1. Changes(d, e, Transport) /\ e.cbw = c /\ e.fault = d.fault /\ e.ring = d.ring
    BY <1>2, <1>3, <1>4 DEF AtOnce, Noted, Changes, Fields, Transport
  <2>2. /\ e.bot_state = d.bot_state \/ e.bot_state \notin {"DATA_IN", "DATA_OUT"}
        /\ e.epIn.what # "data" /\ (e.epOut = d.epOut \/ e.epOut # "data")
    BY <1>3, <1>4 DEF AtOnce, Stalls, Concludes, Answers
  <2>3. TransportMoved(d, e)
    BY <1>1, <2>1, <2>2 DEF TransportMoved
  <2> QED BY <2>1, <2>3, Transported DEF Landed
<1>5. CASE Starts(b, c, e)
  <2>1. TransportMoved(d, b)
    BY <1>1, <1>2 DEF Noted, TransportMoved, Changes, Fields, Transport
  <2>2. /\ Base(e, m) /\ RingOk(e, m) /\ e.fault = b.fault
        /\ "range" \notin e.disturbed => VolumeOk(e)
    BY <1>1, <1>3, <1>5, <2>1, Transported, StartsOk DEF Starts
  <2> QED BY <1>3, <2>2 DEF Landed
<1> QED BY <1>2, <1>4, <1>5

(* A command is sent only when nothing of the last one is left. *)
LEMMA SendCommandKeeps ==
    ASSUME Undisturbed, StatusOk(dev, host), SendCommand
    PROVE  Kept
<1>1. /\ IsDev(dev) /\ DevType(dev) /\ dev.fault = {}
  BY UndisturbedFacts
<1>2. PICK c \in Commands, cmd \in {[x EXCEPT !.tag = host.cmd.tag + 1] : x \in Commands} :
         /\ cmd = [c EXCEPT !.tag = host.cmd.tag + 1]
         /\ ~host.waiting /\ "reset" \notin dev.disturbed
         /\ dev' = MSC_BOT_CBW_Decode([dev EXCEPT !.epOut = "none"], cmd)
         /\ host' = [waiting |-> TRUE, cmd |-> cmd, sent |-> 0, got |-> <<>>]
         /\ main' = main
  BY DEF SendCommand, HostOnly
<1>3. IsCommand(cmd)
  BY <1>2, CommandsOk
<1> DEFINE d == [dev EXCEPT !.epOut = "none"]
<1>4. Changes(dev, d, {"epOut"}) /\ d.epOut = "none"
  BY <1>1 DEF Changes, IsDev, Fields
<1>5. dev' = MSC_BOT_CBW_Decode(d, cmd)
  BY <1>2
<1> HIDE DEF d
<1>6. d.ring = dev.ring /\ d.epIn = dev.epIn /\ d.fault = dev.fault
  BY <1>4 DEF Changes, Fields
<1>7. ~dev.ring.processing /\ dev.epIn.what = "none"
  <2>1. UsbOk(dev)
    BY UndisturbedFacts DEF Base
  <2> QED BY <1>2, <2>1 DEF StatusOk, UsbOk, UsbBusy
<1>8. TransportMoved(dev, d)
  BY <1>1, <1>4 DEF TransportMoved, Changes, Fields, Transport, DevType
<1>9. Base(d, main) /\ RingOk(d, main)
  BY <1>8, Transported, UndisturbedFacts
<1>10. Landed(d, dev', main)
  BY <1>3, <1>5, <1>6, <1>7, <1>9, DecodeOk
<1>11. Carried(dev, dev')
  BY <1>10 DEF Landed, Carried
<1> QED BY <1>1, <1>2, <1>6, <1>10, <1>11 DEF Landed, Kept

(* The data of a refused WRITE, taken for a command. *)
LEMMA SendUnwantedDataKeeps ==
    ASSUME Undisturbed, StatusOk(dev, host), SendUnwantedData
    PROVE  Kept
<1>1. /\ IsDev(dev) /\ DevType(dev)
  BY UndisturbedFacts
<1> DEFINE c == [Command("invalid", 0, 0, 0, FALSE, 0) EXCEPT !.tag = 0]
           a == [dev EXCEPT !.epOut = "none"]
           b == [a EXCEPT !.cbw = c, !.tag = c.tag]
           d == [b EXCEPT !.bot_status = "ERROR"]
<1>2. c.kind = "invalid" /\ c.len \in Nat
  BY DEF Command
<1>3. host.waiting /\ dev.epOut = "cbw" /\ main' = main /\ dev' = MSC_BOT_CBW_Decode(a, c)
  BY DEF SendUnwantedData, Sending, HostOnly
<1>4. dev' = MSC_BOT_Abort(d)
  BY <1>2, <1>3 DEF MSC_BOT_CBW_Decode
<1> HIDE DEF c
<1>5. Changes(dev, a, {"epOut"}) /\ a.epOut = "none"
  BY <1>1 DEF Changes, IsDev, Fields
<1> HIDE DEF a
<1>6. Changes(a, b, {"cbw", "tag"}) /\ b.cbw = c
  BY <1>5 DEF Changes, IsDev, Fields
<1> HIDE DEF b
<1>7. Changes(b, d, {"bot_status"})
  BY <1>6 DEF Changes, IsDev, Fields
<1> HIDE DEF d
<1>8. Changes(d, dev', {"stalledIn", "stalledOut", "epOut"})
      /\ (dev'.epOut = d.epOut \/ dev'.epOut = "cbw")
  BY <1>4, <1>7, Aborted DEF Changes
<1>9. ~dev.ring.processing
  BY <1>3, WaitingFacts
<1>10. Changes(dev, dev', Transport)
  BY <1>5, <1>6, <1>7, <1>8 DEF Changes, Transport
<1>11. /\ dev'.epIn = dev.epIn /\ dev'.bot_state = dev.bot_state /\ dev'.cbw = c
       /\ dev'.fault = dev.fault /\ d.epOut = "none"
  BY <1>5, <1>6, <1>7, <1>8 DEF Changes, Fields
<1>12. TransportMoved(dev, dev')
  BY <1>2, <1>8, <1>9, <1>10, <1>11 DEF TransportMoved
<1> QED BY <1>3, <1>12, TransportKeeps

------------------------------------------------------------------------------
(* All together. *)

LEMMA HostKeeps ==
    ASSUME StatusInv, Undisturbed, [Next]_vars
    PROVE  HostOk(host')
<1>1. IsHost(host) /\ host.sent \in Nat /\ host.cmd.data \in Nat /\ dev.writeLen \in Nat
  BY UndisturbedFacts DEF StatusInv, Undisturbed, HostOk, DevType
<1>2. CASE host' = host
  BY <1>1, <1>2 DEF HostOk
<1>3. CASE SendCommand
  <2>1. PICK c \in Commands, cmd \in {[x EXCEPT !.tag = host.cmd.tag + 1] : x \in Commands} :
           /\ cmd = [c EXCEPT !.tag = host.cmd.tag + 1]
           /\ host' = [waiting |-> TRUE, cmd |-> cmd, sent |-> 0, got |-> <<>>]
    BY <1>3 DEF SendCommand
  <2>2. IsCommand(cmd)
    BY <2>1, CommandsOk
  <2> QED BY <2>1, <2>2 DEF HostOk, IsCommand
<1>4. CASE SendData
  <2>1. Smaller(host.sent + dev.writeLen, host.cmd.data) \in Nat
    BY <1>1 DEF Smaller
  <2>2. host' = [host EXCEPT !.sent = Smaller(@ + dev.writeLen, host.cmd.data)]
    BY <1>4 DEF SendData
  <2>3. host'.sent = Smaller(host.sent + dev.writeLen, host.cmd.data) /\ host'.cmd = host.cmd
    BY <1>1, <2>2 DEF IsHost, HostFields
  <2> QED BY <1>1, <2>1, <2>3 DEF HostOk
<1>5. CASE SendUnwantedData
  BY <1>1, <1>5 DEF SendUnwantedData, HostOk, IsHost, HostFields
<1>6. CASE ReceiveData
  BY <1>1, <1>6 DEF ReceiveData, HostOk, IsHost, HostFields
<1>7. CASE ReceiveStatus
  BY <1>1, <1>7 DEF ReceiveStatus, HostOk, IsHost, HostFields
<1>8. CASE ClearHalt
  BY <1>1, <1>8 DEF ClearHalt, HostOk, IsHost, HostFields
<1>9. CASE ResetRecovery
  BY <1>1, <1>9 DEF ResetRecovery, HostOk, IsHost, HostFields
<1>10. host' = host \/ SendCommand \/ HostExchange \/ ResetRecovery
  BY OnlyHostSteps
<1> QED BY <1>2, <1>3, <1>4, <1>5, <1>6, <1>7, <1>8, <1>9, <1>10 DEF HostExchange

(* The inductive invariant: what holds whatever happens, what holds while the    *)
(* race is not lost, and what also needs that no address was let through.        *)
VolumeInv ==
    Spared({"race", "range"}) /\ dev.ring.processing => VolumeOk(dev)

StorageInv == StatusInv /\ (Spared({"race"}) => Undisturbed) /\ VolumeInv

LEMMA UndisturbedStep ==
    ASSUME StatusInv, Undisturbed, [Next]_vars, Spared({"race"})'
    PROVE  Undisturbed' /\ Carried(dev, dev')
<1>1. Kept
  <2>1. StatusOk(dev, host)
    BY DEF StatusInv
  <2>2. CASE Hardware
    BY <2>2, ReadEndsKeeps, WriteDmaEndsKeeps, WriteEndsKeeps, CryptEndsKeeps DEF Hardware
  <2>3. CASE MainLoop
    <3>1. CASE Assign
      <4>1. "race" \notin dev'.disturbed
        BY DEF Spared
      <4> QED BY <3>1, <4>1, AssignKeeps
    <3>2. CASE ReadComplete \/ WriteDmaComplete \/ WriteComplete \/ DbComplete \/ CryptComplete
      BY <3>2, ReadCompleteKeeps, WriteDmaCompleteKeeps, WriteCompleteKeeps,
         DbCompleteKeeps, CryptCompleteKeeps
    <3>3. CASE emmc_user_done \/ TestNone \/ PickDb \/ PickStorage
      BY <3>3, DoneKeeps, PicksKeep
    <3>4. CASE ClearReady \/ Start \/ RingAfter \/ DbAfter
      BY <3>4, ClearReadyKeeps, StartKeeps, RingAfterKeeps, DbAfterKeeps
    <3> QED BY <2>3, <3>1, <3>2, <3>3, <3>4 DEF MainLoop
  <2>4. CASE HostExchange
    BY <2>1, <2>4, SendDataKeeps, SendUnwantedDataKeeps, ReceiveDataKeeps, ReceiveStatusKeeps,
       ClearHaltKeeps DEF HostExchange
  <2>5. CASE SendCommand \/ ResetRecovery
    BY <2>1, <2>5, SendCommandKeeps, ResetRecoveryKeeps
  <2>6. CASE DbFromMain \/ DbFromInterrupt
    BY <2>6, DbFromMainKeeps, DbFromInterruptKeeps
  <2>7. CASE usbd_scsi_device_state_change \/ UNCHANGED vars
    BY <2>7, StateChangeKeeps
  <2> QED BY <2>2, <2>3, <2>4, <2>5, <2>6, <2>7 DEF Next
<1>2. HostOk(host')
  BY HostKeeps
<1> QED BY <1>1, <1>2 DEF Kept, Undisturbed

LEMMA UndisturbedInitially == Init => Undisturbed
<1> SUFFICES ASSUME Init
             PROVE  Undisturbed
  OBVIOUS
<1>1. IsDev(dev) /\ IsHost(host)
  BY StatusInitially DEF StatusInv
<1>2. /\ dev.g_emmc_user = "NONE" /\ dev.ready = {} /\ dev.op = NoOp /\ dev.cplt = {}
      /\ dev.g_db_action = "none" /\ dev.bot_state = "IDLE" /\ dev.epIn = [what |-> "none"]
      /\ dev.epOut = "cbw" /\ dev.ring = ZeroedFifo /\ dev.fault = {} /\ dev.reading = TRUE
      /\ dev.scsi_blk_len = 0 /\ dev.writeLen = 0 /\ dev.mmcReadLen = 0
      /\ dev.mmcBuffer = 0 /\ dev.mmcBlockAddr = 0 /\ dev.mmcDataToTransfer = 0
      /\ dev.crypt = [stageIdx |-> 0, txLen |-> 0, left |-> 0, from |-> 0,
                      to |-> 0, running |-> FALSE, toTransfer |-> 0, sector |-> 0]
      /\ dev.g_cryptOutInt = FALSE
      /\ dev.cbw = Command("other", 0, 0, 0, FALSE, 0)
      /\ main = Idle
      /\ host = [waiting |-> FALSE, cmd |-> dev.cbw, sent |-> 0, got |-> <<>>]
  BY DEF Init
<1>3. dev.crypt \in Crypts /\ dev.crypt.running = FALSE
  BY <1>2 DEF Crypts
<1>4. /\ dev.ring \in FifoStruct /\ ~dev.ring.processing
      /\ \A s \in StageIdx : ~dev.ring.stageProcessing[s]
  <2>1. ZeroedFifo \in FifoStruct
    BY BufferCountAssumption DEF ZeroedFifo, FifoStruct, MaxStages, StageIdx, Buffers
  <2>2. ~ZeroedFifo.processing /\ \A s \in StageIdx : ~ZeroedFifo.stageProcessing[s]
    BY DEF ZeroedFifo
  <2> QED BY <1>2, <2>1, <2>2
<1>5. dev.cbw.len = 0 /\ dev.cbw.data = 0
  BY <1>2 DEF Command
<1>6. 0 \in Buffers
  BY BufferCountAssumption DEF Buffers
<1>7. DevType(dev)
  <2>1. dev.g_emmc_user = "NONE" /\ dev.ready = {} /\ dev.op = NoOp /\ dev.g_db_action = "none"
    BY <1>2
  <2>2. /\ dev.scsi_blk_len = 0 /\ dev.writeLen = 0 /\ dev.mmcReadLen = 0
        /\ dev.mmcBlockAddr = 0 /\ dev.mmcDataToTransfer = 0 /\ dev.mmcBuffer = 0
    BY <1>2
  <2>3. dev.g_cryptOutInt = FALSE /\ dev.reading = TRUE
    BY <1>2
  <2>4. dev.g_emmc_user \in Users /\ dev.ready \subseteq {"DB", "STORAGE"}
    BY <2>1 DEF Users
  <2>5. dev.op \in Operations \cup {NoOp} /\ dev.g_db_action \in {"none", "read", "write"}
    BY <2>1
  <2>6. /\ dev.scsi_blk_len \in Nat /\ dev.writeLen \in Nat /\ dev.mmcReadLen \in Nat
        /\ dev.mmcBlockAddr \in Nat /\ dev.mmcDataToTransfer \in Nat
    BY <2>2
  <2>7. dev.mmcBuffer \in Buffers
    BY <2>2, <1>6
  <2>8. dev.g_cryptOutInt \in BOOLEAN /\ dev.reading \in BOOLEAN
    BY <2>3
  <2>9. dev.cbw.len \in Nat
    BY <1>5
  <2> QED BY <2>4, <2>5, <2>6, <2>7, <2>8, <2>9, <1>3, <1>4 DEF DevType
<1>8. CardOk(dev)
  BY <1>2 DEF CardOk, Doing
<1>9. MainType(main) /\ MainOk(dev, main)
  BY <1>2 DEF MainType, MainOk, Idle, Users, Doing
<1>10. ~MmcBusy(dev, main) /\ ~UsbBusy(dev) /\ ~CryptBusy(dev)
  BY <1>2, <1>3 DEF MmcBusy, UsbBusy, CryptBusy, Idle
<1>11. MmcOk(dev, main) /\ UsbOk(dev) /\ CryptOk(dev)
  BY <1>10 DEF MmcOk, UsbOk, UsbBusy, CryptOk
<1>12. BotOk(dev)
  BY <1>2, <1>4 DEF BotOk
<1>13. RingOk(dev, main)
  BY <1>4 DEF RingOk
<1>14. HostOk(host)
  <2>1. host = [waiting |-> FALSE, cmd |-> dev.cbw, sent |-> 0, got |-> <<>>]
    BY <1>2
  <2>2. host.sent = 0 /\ host.cmd = dev.cbw
    BY <2>1
  <2> QED BY <2>2, <1>5 DEF HostOk
<1> QED BY <1>1, <1>2, <1>7, <1>8, <1>9, <1>11, <1>12, <1>13, <1>14 DEF Undisturbed, Base

(* The mass storage function and all who call on it keep the invariant. *)
THEOREM StorageInvariant == Spec => []StorageInv
<1>1. Init => StorageInv
  <2>1. Init => ~dev.ring.processing
    BY DEF Init, ZeroedFifo
  <2> QED BY <2>1, StatusInitially, UndisturbedInitially DEF StorageInv, VolumeInv
<1>2. StorageInv /\ [Next]_vars => StorageInv'
  <2> SUFFICES ASSUME StorageInv, [Next]_vars
               PROVE  StorageInv'
    OBVIOUS
  <2>1. StatusInv' /\ dev.disturbed \subseteq dev'.disturbed
    BY StatusStep DEF StorageInv
  <2>2. /\ Spared({"race"})' => Spared({"race"})
        /\ Spared({"race", "range"})' => Spared({"race", "range"}) /\ Spared({"race"})'
    BY <2>1 DEF Spared
  <2>3. Spared({"race"})' => Undisturbed' /\ Carried(dev, dev')
    BY <2>2, UndisturbedStep DEF StorageInv
  <2>4. VolumeInv'
    <3>1. Spared({"race", "range"})' => "range" \notin dev'.disturbed
      BY DEF Spared
    <3> QED BY <2>2, <2>3, <3>1 DEF StorageInv, VolumeInv, Carried
  <2> QED BY <2>1, <2>3, <2>4 DEF StorageInv
<1> QED BY <1>1, <1>2, PTL DEF Spec

(* Unless the race of emmc_user_queue is lost, no assertion fails and nothing is *)
(* sent on an endpoint that is still sending, whatever the order of the          *)
(* interrupts of the card, the AES unit and USB, the steps of the main loop, the *)
(* commands of the host and its resets (emmc_user_queue, transferComplete,       *)
(* USBD_LL_Transmit).                                                            *)
THEOREM NoFaults == Spec => []NoFault
<1>1. StorageInv => NoFault
  BY DEF StorageInv, Undisturbed, NoFault
<1> QED BY <1>1, StorageInvariant, PTL

(* What the card reads and writes for a volume are sectors of the volume, unless *)
(* the race is lost or SCSI_CheckAddressRange has let an address beyond the      *)
(* volume through: the address is counted up by what was moved, piece by piece   *)
(* (emmc_user_storage_start, mmcBlockAddr), and never runs into the database or  *)
(* the other volume.                                                             *)
THEOREM StaysWithinVolume == Spec => []WithinVolume
<1>1. ASSUME StorageInv
      PROVE  WithinVolume
  <2> SUFFICES ASSUME Spared({"race", "range"}), dev.op # NoOp, dev.op.buf # -1
               PROVE  Sectors(dev.op) \subseteq Of(dev.cbw.lun)
    BY DEF WithinVolume
  <2>1. Undisturbed
    BY <1>1 DEF StorageInv, Spared
  <2>2. /\ Base(dev, main) /\ RingOk(dev, main) /\ DevType(dev) /\ CardOk(dev)
        /\ MainOk(dev, main)
    BY <2>1, UndisturbedFacts
  <2>3. /\ dev.g_emmc_user = "STORAGE" /\ dev.op.len = dev.mmcReadLen
        /\ dev.op \in Operations /\ dev.op.addr \in Nat /\ dev.mmcReadLen \in Nat
        /\ dev.mmcDataToTransfer \in Nat /\ CountedAhead(dev) \in Nat
    <3>1. dev.op \in Operations /\ dev.g_emmc_user \in Users /\ Doing(dev)
      BY <2>2 DEF DevType, Doing
    <3>2. dev.g_emmc_user = "STORAGE"
      BY <2>2, <3>1 DEF CardOk, Users
    <3>3. dev.op.addr \in Nat
      BY <3>1 DEF Operations
    <3> QED BY <2>2, <3>1, <3>2, <3>3 DEF CardOk, DevType, CountedAhead
  <2>4. main.after # "ring"
    BY <2>2, <2>3 DEF MainOk, Doing
  <2>5. CASE dev.mmcReadLen = 0
    BY <2>3, <2>5 DEF Sectors
  <2>6. CASE dev.mmcReadLen > 0
    <3>1. dev.ring.processing /\ dev.mmcReadLen <= MmcLeft(dev)
      BY <2>2, <2>3, <2>4, <2>6, PieceLeft DEF MmcLeft
    <3>2. VolumeOk(dev)
      BY <1>1, <3>1 DEF StorageInv, VolumeInv
    <3>3. /\ dev.op.addr = region_start(dev.cbw.lun) + dev.cbw.lba + dev.cbw.len - MmcLeft(dev)
          /\ MmcLeft(dev) <= dev.cbw.len /\ MmcLeft(dev) \in Nat
          /\ dev.cbw.lun \in Luns /\ dev.cbw.lba \in Nat /\ dev.cbw.len \in Nat
          /\ dev.cbw.lba + dev.cbw.len <= Capacity(dev.cbw.lun)
      BY <2>3, <3>2 DEF VolumeOk, InPlace, Fits, MmcLeft
    <3>4. Capacity(dev.cbw.lun) \in Nat /\ region_start(dev.cbw.lun) \in Nat
      BY MassStorageAssumption DEF Capacity, region_start, EMMC_STORAGE_FIRST_BLOCK
    <3>5. /\ region_start(dev.cbw.lun) <= dev.op.addr
          /\ dev.op.addr + dev.op.len <= region_start(dev.cbw.lun) + Capacity(dev.cbw.lun)
      BY <2>3, <3>1, <3>3, <3>4
    <3> QED BY <2>3, <3>4, <3>5 DEF Sectors, Of
  <2> QED BY <2>3, <2>5, <2>6
<1> QED BY <1>1, StorageInvariant, PTL
------------------------------------------------------------------------------
(* What the sectors are: in the buffers, on the card, and at the host. *)

(* The version of the sectors a transfer moves: a READ brings what was written  *)
(* last, a WRITE what its own command says.                                     *)
Version(d, kn, at) == IF d.reading THEN kn[d.cbw.lun][at] ELSE d.cbw.tag

(* What a stage leaves behind of a sector: between the card and the AES unit it *)
(* is encrypted.                                                                *)
Leaves(d, kn, s, at) ==
    Sector(d.cbw.lun, at, Version(d, kn, at),
           IF Encrypted(d.cbw.lun) /\ (s = 0 <=> d.reading) THEN at ELSE Plain)

(* The first n sectors of x are those of chunk k, as stage s leaves them. *)
Holds(d, kn, x, s, k, n) ==
    \A i \in 1 .. n : x[i] = Leaves(d, kn, s, d.cbw.lba + k * BufSectors + i - 1)

Moving(d) == d.ring.processing /\ d.cbw.len > 0
Chunk(d, k) == F!ChunkSize(d.cbw.len, k)
Gone(d, s) == F!Passed(d.ring, s)
Ends(d) == d.cbw.lba + d.cbw.len

(* The command the ring works for. *)
OrderOk(d) ==
    /\ d.cbw.kind \in {"read", "write"} /\ (d.reading <=> d.cbw.kind = "read")
    /\ d.ring.numStages = StageCount(d.cbw.lun)
    /\ d.cbw.lun \in Luns /\ d.cbw.lba \in Nat
    /\ ~d.stalledOut
    /\ d.bot_state = IF d.reading THEN "DATA_IN" ELSE "DATA_OUT"

(* Each peripheral works on the buffers of its stage, and the AES unit knows    *)
(* the sector it is at.                                                         *)
Flying(d, m, s) == F!InFlight(d.ring, Finishing(d, m), s)
MmcPlace(d, m) ==
    Flying(d, m, MmcStage(d)) =>
        d.mmcBuffer = IF d.reading THEN WriteBuffer(d.ring, 0)
                      ELSE ReadBuffer(d.ring, LastStage(d))
UsbPlace(d) ==
    /\ d.epIn.what = "data" =>
         d.epIn.buf = WriteBuffer(d.ring, LastStage(d)) /\ d.epIn.len = d.writeLen
    /\ d.epOut = "data" => d.writeBuffer = WriteBuffer(d.ring, 0)
SectorsIn(d) == IF CryptBusy(d) THEN d.crypt.txLen - d.crypt.left ELSE 0
CryptPlace(d) ==
    /\ CryptBusy(d) =>
         d.crypt.from = ReadBuffer(d.ring, 1) /\ d.crypt.to = WriteBuffer(d.ring, 1)
    /\ Encrypted(d.cbw.lun) =>
         d.crypt.sector = Ends(d) - d.crypt.toTransfer + SectorsIn(d)
PlacesOk(d, m) == MmcPlace(d, m) /\ UsbPlace(d) /\ CryptPlace(d)

(* A chunk between two stages is in its buffer, as the first of them left it. *)
ChunksOk(d, ct, kn) ==
    \A s \in (0 .. LastStage(d)) \ {0} : \A k \in F!Between(d.ring, s) :
        Holds(d, kn, ct[F!BufferOf(d.ring, s, k)], s - 1, k, Chunk(d, k))

(* So is what the card has read, and what the AES unit has done of its chunk. *)
CardHasRead(d, m) ==
    d.reading /\ (("rx" \in d.cplt /\ d.g_emmc_user = "STORAGE") \/ m.after = "ring")
SectorsOut(d) == SectorsIn(d) + IF d.g_cryptOutInt THEN 1 ELSE 0
PiecesOk(d, m, ct, kn) ==
    /\ CardHasRead(d, m) =>
         Holds(d, kn, ct[WriteBuffer(d.ring, 0)], 0, Gone(d, 0), Chunk(d, Gone(d, 0)))
    /\ CryptBusy(d) =>
         Holds(d, kn, ct[WriteBuffer(d.ring, 1)], 1, Gone(d, 1), SectorsOut(d))

(* The host has what went over USB. *)
Delivered(d, kn, got, n) ==
    got = [i \in 1 .. n |-> Sector(d.cbw.lun, d.cbw.lba + i - 1,
                                   kn[d.cbw.lun][d.cbw.lba + i - 1], Plain)]
HostHas(d, h, kn) ==
    IF d.reading THEN Delivered(d, kn, h.got, d.cbw.len - d.scsi_blk_len)
    ELSE h.sent = d.cbw.len - d.scsi_blk_len

(* The card has what went over to it. *)
CardHasWritten(d) == d.op.kind = "write_wait" /\ d.g_emmc_user = "STORAGE"
OnCard(d) ==
    d.cbw.len - d.mmcDataToTransfer + IF CardHasWritten(d) THEN d.mmcReadLen ELSE 0
WrittenUpTo(md, c, n) ==
    \A i \in 0 .. n - 1 :
        md[region_start(c.lun) + (c.lba + i)] = Stored(c.lun, c.lba + i, c.tag)

TransferOk(d, m, h, md, ct, kn) ==
    /\ OrderOk(d) /\ PlacesOk(d, m) /\ ChunksOk(d, ct, kn) /\ PiecesOk(d, m, ct, kn)
    /\ HostHas(d, h, kn) /\ (~d.reading => WrittenUpTo(md, d.cbw, OnCard(d)))

(* A sector that no WRITE is at holds what was written last; and when the       *)
(* status says that a transfer passed, all of it is done.                       *)
PassedNow(d) == d.epIn.what = "csw" /\ d.epIn.passed
Replacing(d, h, lun, a) ==
    /\ h.waiting /\ h.cmd.kind = "write" /\ Covers(h.cmd, lun, a)
    /\ d.ring.processing \/ PassedNow(d)
CardOf(d, h, md, kn) ==
    \A lun \in Luns : \A a \in 0 .. Capacity(lun) - 1 :
        ~Replacing(d, h, lun, a) => md[region_start(lun) + a] = Stored(lun, a, kn[lun][a])
DoneOk(d, h, md, kn) ==
    /\ h.waiting /\ PassedNow(d) =>
         /\ h.cmd.kind = "read" =>
              h.got = [i \in 1 .. h.cmd.len |->
                         Sector(h.cmd.lun, h.cmd.lba + i - 1,
                                kn[h.cmd.lun][h.cmd.lba + i - 1], Plain)]
         /\ h.cmd.kind = "write" => WrittenUpTo(md, h.cmd, h.cmd.len)
    /\ d.bot_state = "SEND_DATA" => h.cmd.kind \notin {"read", "write"}

DataOk(d, m, h, md, ct, kn) ==
    /\ Moving(d) => TransferOk(d, m, h, md, ct, kn)
    /\ CardOf(d, h, md, kn) /\ DoneOk(d, h, md, kn)

(* Where the peripherals of the stages are set to work. *)

LEMMA ScheduleKeepsUser ==
    ASSUME NEW d, d.g_emmc_user # "NONE"
    PROVE  emmc_user_schedule(d) = d
BY DEF emmc_user_schedule

(* Who has the eMMC keeps it. *)
UserKept(d, e) == d.g_emmc_user # "NONE" => e.g_emmc_user = d.g_emmc_user

LEMMA QueueKeepsUser ==
    ASSUME NEW d, IsDev(d), NEW u
    PROVE  UserKept(d, emmc_user_queue(d, u))
<1> DEFINE c == MarkReady(d, u)
<1>1. c.g_emmc_user = d.g_emmc_user
  BY MarkChanges DEF Changes, Fields
<1>2. Fault(d, "assert").g_emmc_user = d.g_emmc_user
  BY DEF IsDev, Fields, Fault
<1>3. \/ emmc_user_queue(d, u) = Fault(d, "assert")
      \/ emmc_user_queue(d, u) = emmc_user_schedule(c)
  BY DEF emmc_user_queue
<1> HIDE DEF c
<1> QED BY <1>1, <1>2, <1>3, ScheduleKeepsUser DEF UserKept

(* The buffer the eMMC moves. *)
MmcBufferOf(d) ==
    IF d.reading THEN WriteBuffer(d.ring, 0) ELSE ReadBuffer(d.ring, LastStage(d))

(* In e the peripheral of stage t has been set to work on the buffers of d; in   *)
(* e it is as in d.                                                             *)
WorksAt(d, e, t) ==
    IF t = MmcStage(d) THEN e.mmcBuffer = MmcBufferOf(d)
    ELSE IF t = UsbStage(d)
      THEN IF d.reading
             THEN e.epIn = [what |-> "data", buf |-> WriteBuffer(d.ring, t), len |-> e.writeLen]
             ELSE e.writeBuffer = WriteBuffer(d.ring, 0) /\ e.epIn = d.epIn
    ELSE t = 1 => /\ e.crypt.from = ReadBuffer(d.ring, 1)
                  /\ e.crypt.to = WriteBuffer(d.ring, 1)
                  /\ e.crypt.left = e.crypt.txLen
StaysAt(d, e, t) ==
    IF t = MmcStage(d) THEN e.mmcBuffer = d.mmcBuffer /\ e.mmcReadLen = d.mmcReadLen
    ELSE IF t = UsbStage(d)
      THEN /\ e.epIn = d.epIn /\ e.epOut = d.epOut
           /\ e.writeBuffer = d.writeBuffer /\ e.writeLen = d.writeLen
    ELSE t = 1 => e.crypt = d.crypt
SameCount(d, e) ==
    /\ e.crypt.sector = d.crypt.sector /\ e.crypt.toTransfer = d.crypt.toTransfer
    /\ UserKept(d, e)

LEMMA StagePlaces ==
    ASSUME NEW d, IsDev(d), d.ring.numStages \in {2, 3}, d.reading \in BOOLEAN,
           d.crypt \in Crypts,
           NEW s \in StageIdx, s < d.ring.numStages, NEW e, e = processStage(d, s)
    PROVE  /\ WorksAt(d, e, s) /\ SameCount(d, e)
           /\ \A t \in StageIdx \ {s} : StaysAt(d, e, t)
<1>1. /\ MmcStage(d) \in StageIdx /\ UsbStage(d) \in StageIdx
      /\ MmcStage(d) # UsbStage(d)
      /\ MmcStage(d) = 0 <=> d.reading
      /\ UsbStage(d) = 0 <=> ~d.reading
      /\ d.ring.numStages = 3 => MmcStage(d) # 1 /\ UsbStage(d) # 1
      /\ LastStage(d) = IF d.reading THEN UsbStage(d) ELSE MmcStage(d)
  BY StagesDiffer
<1>2. /\ s = 0 /\ d.reading => e = processMMCReadBuffer(d, s)
      /\ s = 0 /\ ~d.reading => e = processUSBWriteBuffer(d, s)
      /\ s = LastStage(d) /\ d.reading => e = processUSBReadBuffer(d, s)
      /\ s = LastStage(d) /\ ~d.reading => e = processMMCWriteBuffer(d, s)
      /\ s # 0 /\ s # LastStage(d) => e = processCryptBuffer(d, s)
  <2>1. LastStage(d) # 0
    BY <1>1
  <2> QED BY <2>1 DEF processStage
<1>3. s # MmcStage(d) /\ s # UsbStage(d) => s # 0 /\ s # LastStage(d) /\ s = 1
  BY <1>1, StagesAre DEF MmcStage, UsbStage, LastStage
<1>4. ASSUME NEW c, Changes(d, c, {"mmcBuffer", "mmcStageIdx", "mmcReadLen"}),
             c.mmcBuffer = MmcBufferOf(d), e = emmc_user_queue(c, "STORAGE"),
             s = MmcStage(d)
      PROVE  /\ WorksAt(d, e, s) /\ SameCount(d, e)
             /\ \A t \in StageIdx \ {s} : StaysAt(d, e, t)
  <2>1. Changes(c, e, Scheduling \cup {"fault"}) /\ UserKept(c, e)
    BY <1>4, QueueChanges, QueueKeepsUser DEF Changes
  <2>2. /\ e.mmcBuffer = MmcBufferOf(d) /\ e.crypt = d.crypt /\ e.epIn = d.epIn
        /\ e.epOut = d.epOut /\ e.writeBuffer = d.writeBuffer /\ e.writeLen = d.writeLen
        /\ c.g_emmc_user = d.g_emmc_user
    BY <1>4, <2>1 DEF Changes, Fields, Scheduling
  <2>3. SameCount(d, e)
    BY <2>1, <2>2 DEF SameCount, UserKept
  <2> QED BY <1>1, <1>4, <2>2, <2>3 DEF WorksAt, StaysAt
<1>5. CASE s = 0 /\ d.reading
  <2> DEFINE c == [d EXCEPT !.mmcBuffer = WriteBuffer(d.ring, s),
                            !.mmcStageIdx = s,
                            !.mmcReadLen = Smaller(d.mmcDataToTransfer, BufSectors)]
  <2>1. /\ Changes(d, c, {"mmcBuffer", "mmcStageIdx", "mmcReadLen"})
        /\ c.mmcBuffer = MmcBufferOf(d)
    BY <1>5 DEF Changes, IsDev, Fields, MmcBufferOf
  <2>2. e = emmc_user_queue(c, "STORAGE")
    BY <1>2, <1>5 DEF processMMCReadBuffer
  <2> HIDE DEF c
  <2> QED BY <1>1, <1>4, <1>5, <2>1, <2>2
<1>6. CASE s = LastStage(d) /\ ~d.reading
  <2> DEFINE c == [d EXCEPT !.mmcStageIdx = s,
                            !.mmcReadLen = BufferSize(d, s),
                            !.mmcBuffer = ReadBuffer(d.ring, s)]
  <2>1. /\ Changes(d, c, {"mmcBuffer", "mmcStageIdx", "mmcReadLen"})
        /\ c.mmcBuffer = MmcBufferOf(d)
    BY <1>6 DEF Changes, IsDev, Fields, MmcBufferOf
  <2>2. e = emmc_user_queue(c, "STORAGE")
    BY <1>2, <1>6 DEF processMMCWriteBuffer
  <2> HIDE DEF c
  <2> QED BY <1>1, <1>4, <1>6, <2>1, <2>2
<1>7. ASSUME NEW S, Changes(d, e, S), s = UsbStage(d), WorksAt(d, e, s),
             S \cap {"mmcBuffer", "mmcReadLen", "crypt", "g_emmc_user"} = {}
      PROVE  /\ WorksAt(d, e, s) /\ SameCount(d, e)
             /\ \A t \in StageIdx \ {s} : StaysAt(d, e, t)
  <2>1. /\ e.mmcBuffer = d.mmcBuffer /\ e.crypt = d.crypt
        /\ e.g_emmc_user = d.g_emmc_user /\ e.mmcReadLen = d.mmcReadLen
    BY <1>7 DEF Changes, Fields
  <2> QED BY <1>1, <1>7, <2>1 DEF StaysAt, SameCount, UserKept
<1>8. CASE s = 0 /\ ~d.reading
  <2>1. /\ Changes(d, e, {"stageIdx", "writeLen", "writeBuffer", "epOut"})
        /\ e.writeBuffer = WriteBuffer(d.ring, s)
    BY <1>2, <1>8 DEF Changes, IsDev, Fields, processUSBWriteBuffer, USBD_LL_PrepareReceive
  <2>2. e.epIn = d.epIn
    BY <2>1 DEF Changes, Fields
  <2>3. WorksAt(d, e, s)
    BY <1>1, <1>8, <2>1, <2>2 DEF WorksAt
  <2> QED BY <1>1, <1>7, <1>8, <2>1, <2>3
<1>9. CASE s = LastStage(d) /\ d.reading
  <2> DEFINE size == BufferSize(d, s)
             what == [what |-> "data", buf |-> WriteBuffer(d.ring, s), len |-> size]
  <2>1. /\ Changes(d, e, {"g_usb_transmitting", "stageIdx", "writeLen", "epIn", "fault"})
        /\ e.writeLen = size /\ e.epIn = what
    <3> DEFINE c == [d EXCEPT !.g_usb_transmitting = TRUE, !.stageIdx = s, !.writeLen = size]
    <3>1. e = USBD_LL_Transmit(c, what)
      BY <1>2, <1>9 DEF processUSBReadBuffer
    <3>2. c.epIn = d.epIn /\ c.fault = d.fault
      BY DEF IsDev, Fields
    <3>3. e = [d EXCEPT !.g_usb_transmitting = TRUE, !.stageIdx = s, !.writeLen = size,
                        !.epIn = what,
                        !.fault = IF d.epIn.what = "none" THEN @ ELSE @ \cup {"clobber"}]
      BY <3>1, <3>2 DEF USBD_LL_Transmit
    <3> HIDE DEF size, what
    <3> QED BY <3>3 DEF Changes, IsDev, Fields
  <2>2. WorksAt(d, e, s)
    BY <1>1, <1>9, <2>1 DEF WorksAt
  <2> HIDE DEF size, what
  <2> QED BY <1>1, <1>7, <1>9, <2>1, <2>2
<1>10. CASE s # MmcStage(d) /\ s # UsbStage(d)
  <2> DEFINE r == ReadBuffer(d.ring, s)
             w == WriteBuffer(d.ring, s)
             size == BufferSize(d, s)
  <2>1. e = [d EXCEPT !.crypt.stageIdx = s, !.crypt.txLen = size, !.crypt.left = size,
                      !.crypt.from = r, !.crypt.to = w, !.crypt.running = TRUE]
    BY <1>2, <1>3, <1>10 DEF processCryptBuffer
  <2>2. s = 1
    BY <1>3, <1>10
  <2> HIDE DEF r, w, size
  <2>3. Changes(d, e, {"crypt"}) /\ e.crypt = Loaded(d.crypt, s, size, r, w)
    BY <2>1 DEF Changes, IsDev, Fields, Loaded
  <2>4. /\ e.crypt.from = r /\ e.crypt.to = w /\ e.crypt.left = e.crypt.txLen
        /\ e.crypt.sector = d.crypt.sector /\ e.crypt.toTransfer = d.crypt.toTransfer
    BY <2>3 DEF Crypts, Loaded
  <2>5. /\ e.mmcBuffer = d.mmcBuffer /\ e.mmcReadLen = d.mmcReadLen /\ e.epIn = d.epIn
        /\ e.epOut = d.epOut /\ e.writeBuffer = d.writeBuffer /\ e.writeLen = d.writeLen
        /\ e.g_emmc_user = d.g_emmc_user
    BY <2>3 DEF Changes, Fields
  <2>6. WorksAt(d, e, s)
    BY <1>10, <2>2, <2>4 DEF WorksAt, r, w
  <2> QED BY <2>2, <2>4, <2>5, <2>6 DEF StaysAt, SameCount, UserKept
<1>11. s = MmcStage(d) => (s = 0 /\ d.reading) \/ (s = LastStage(d) /\ ~d.reading)
  BY <1>1
<1>12. s = UsbStage(d) => (s = 0 /\ ~d.reading) \/ (s = LastStage(d) /\ d.reading)
  BY <1>1
<1> QED BY <1>5, <1>6, <1>8, <1>9, <1>10, <1>11, <1>12

(* c is d with the stages S set to work. *)
AllPlaced(d, c, S) ==
    /\ SameCount(d, c)
    /\ \A t \in StageIdx : IF t \in S THEN WorksAt(d, c, t) ELSE StaysAt(d, c, t)

LEMMA PlacesOne ==
    ASSUME NEW d, NEW m, Called(d, m), NEW c, NEW S, Launched(d, c, m, S), AllPlaced(d, c, S),
           NEW s \in StageIdx, s \notin S,
           NEW e, e = IF s \in d.ring.exec THEN processStage(c, s) ELSE c
    PROVE  /\ Launched(d, e, m, S \cup (d.ring.exec \cap {s}))
           /\ AllPlaced(d, e, S \cup (d.ring.exec \cap {s}))
<1>1. Launched(d, e, m, S \cup (d.ring.exec \cap {s}))
  BY RunsOne
<1>2. CASE s \notin d.ring.exec
  <2>1. S \cup (d.ring.exec \cap {s}) = S
    BY <1>2
  <2> QED BY <1>1, <1>2, <2>1
<1>3. CASE s \in d.ring.exec
  <2>1. S \cup (d.ring.exec \cap {s}) = S \cup {s}
    BY <1>3
  <2>2. c.ring = d.ring /\ c.reading = d.reading
    BY DEF Launched, Changes, Fields, Launching
  <2>3. /\ IsDev(c) /\ c.ring.numStages \in {2, 3} /\ c.reading \in BOOLEAN /\ c.crypt \in Crypts
        /\ s < c.ring.numStages
    BY <1>3, <2>2 DEF Called, Launched, Base, DevType, BotOk
  <2>4. /\ WorksAt(c, e, s) /\ SameCount(c, e)
        /\ \A t \in StageIdx \ {s} : StaysAt(c, e, t)
    BY <1>3, <2>3, StagePlaces
  <2>5. /\ MmcStage(c) = MmcStage(d) /\ UsbStage(c) = UsbStage(d)
        /\ MmcBufferOf(c) = MmcBufferOf(d)
    BY <2>2 DEF MmcStage, UsbStage, LastStage, MmcBufferOf
  <2>6. SameCount(d, e)
    BY <2>4 DEF AllPlaced, SameCount, UserKept
  <2>7. WorksAt(d, e, s)
    BY <2>2, <2>4, <2>5 DEF AllPlaced, WorksAt, StaysAt
  <2>8. ASSUME NEW t \in StageIdx, t # s
        PROVE  IF t \in S THEN WorksAt(d, e, t) ELSE StaysAt(d, e, t)
    <3>1. StaysAt(c, e, t)
      BY <2>4, <2>8
    <3>2. CASE t \in S
      <4>1. WorksAt(d, c, t)
        BY <3>2 DEF AllPlaced
      <4> QED BY <2>2, <2>5, <3>1, <3>2, <4>1 DEF WorksAt, StaysAt
    <3>3. CASE t \notin S
      <4>1. StaysAt(d, c, t)
        BY <3>3 DEF AllPlaced
      <4> QED BY <2>5, <3>1, <3>3, <4>1 DEF StaysAt
    <3> QED BY <3>2, <3>3
  <2> QED BY <1>1, <2>1, <2>6, <2>7, <2>8 DEF AllPlaced
<1> QED BY <1>2, <1>3

LEMMA RunPlaces ==
    ASSUME NEW d, NEW m, Called(d, m), NEW e, e = RunStages(d)
    PROVE  AllPlaced(d, e, d.ring.exec)
<1> DEFINE Run(c, s) == IF s \in d.ring.exec THEN processStage(c, s) ELSE c
           c0 == Run(d, 0)
           c1 == Run(c0, 1)
           c2 == Run(c1, 2)
           X == d.ring.exec
           Good(c, S) == Launched(d, c, m, S) /\ AllPlaced(d, c, S)
<1>1. e = [c2 EXCEPT !.ring.exec = {}]
  BY DEF RunStages
<1>2. IsDev(d) /\ d.ring.numStages \in {2, 3}
  BY DEF Called, Base, DevType, BotOk
<1>3. X \subseteq {0, 1, 2} /\ {0, 1, 2} \subseteq StageIdx
  BY <1>2, StagesAre DEF Called
<1>4. Good(d, {})
  <2>1. Launched(d, d, m, {})
    BY <1>2 DEF Called, Launched, Changes, Carries
  <2>2. AllPlaced(d, d, {})
    BY DEF AllPlaced, SameCount, UserKept, StaysAt
  <2> QED BY <2>1, <2>2
<1>5. ASSUME NEW c, NEW S, Good(c, S), NEW s \in StageIdx, s \notin S
      PROVE  Good(Run(c, s), S \cup (X \cap {s}))
  BY <1>5, PlacesOne
<1> HIDE DEF Run, Good
<1>6. Good(c0, X \cap {0})
  <2>1. Good(c0, {} \cup (X \cap {0}))
    BY <1>3, <1>4, <1>5
  <2>2. {} \cup (X \cap {0}) = X \cap {0}
    OBVIOUS
  <2> QED BY <2>1, <2>2
<1> HIDE DEF c0
<1>7. Good(c1, (X \cap {0}) \cup (X \cap {1}))
  <2>1. 1 \notin X \cap {0}
    OBVIOUS
  <2> QED BY <1>3, <1>5, <1>6, <2>1
<1> HIDE DEF c1
<1>8. Good(c2, X)
  <2>1. 2 \notin (X \cap {0}) \cup (X \cap {1})
    OBVIOUS
  <2>2. ((X \cap {0}) \cup (X \cap {1})) \cup (X \cap {2}) = X
    BY <1>3
  <2>3. Good(c2, ((X \cap {0}) \cup (X \cap {1})) \cup (X \cap {2}))
    BY <1>3, <1>5, <1>7, <2>1
  <2> QED BY <2>2, <2>3
<1> HIDE DEF c2, X
<1>9. Launched(d, c2, m, X) /\ AllPlaced(d, c2, X)
  BY <1>8 DEF Good
<1>10. IsDev(c2)
  BY <1>9 DEF Launched, Changes
<1>11. Changes(c2, e, {"ring"})
  BY <1>1, <1>10 DEF Changes, IsDev, Fields
<1>12. /\ e.mmcBuffer = c2.mmcBuffer /\ e.mmcReadLen = c2.mmcReadLen /\ e.epIn = c2.epIn
       /\ e.epOut = c2.epOut /\ e.writeBuffer = c2.writeBuffer /\ e.writeLen = c2.writeLen
       /\ e.crypt = c2.crypt /\ e.g_emmc_user = c2.g_emmc_user
  BY <1>11 DEF Changes, Fields
<1>13. \A t \in StageIdx : /\ WorksAt(d, c2, t) => WorksAt(d, e, t)
                           /\ StaysAt(d, c2, t) => StaysAt(d, e, t)
  BY <1>12 DEF WorksAt, StaysAt
<1> QED BY <1>9, <1>12, <1>13 DEF AllPlaced, SameCount, UserKept, X

------------------------------------------------------------------------------
(* A buffer is passed on, and what the sectors are. *)

(* Two rings with the same indices. *)
SameIndices(b, p) ==
    /\ p.numStages = b.numStages
    /\ p.stageReadIndex = b.stageReadIndex /\ p.stageWriteIndex = b.stageWriteIndex

LEMMA IndicesGive ==
    ASSUME NEW b, NEW p, SameIndices(b, p)
    PROVE  /\ \A s : F!Passed(p, s) = F!Passed(b, s) /\ F!Between(p, s) = F!Between(b, s)
           /\ \A s : ReadBuffer(p, s) = ReadBuffer(b, s)
           /\ \A s : WriteBuffer(p, s) = WriteBuffer(b, s)
           /\ \A s, k : F!BufferOf(p, s, k) = F!BufferOf(b, s, k)
BY DEF SameIndices, F!Passed, F!Between, ReadBuffer, WriteBuffer, F!BufferOf

(* The same command, moved by rings of the same number of stages. *)
SameOrder(d, e) ==
    /\ e.cbw = d.cbw /\ e.reading = d.reading
    /\ (e.stalledOut => d.stalledOut) /\ e.bot_state = d.bot_state
    /\ e.ring.numStages = d.ring.numStages

LEMMA OrderGives ==
    ASSUME NEW d, NEW e, SameOrder(d, e), NEW kn
    PROVE  /\ OrderOk(d) => OrderOk(e)
           /\ \A x, s, k, n : Holds(d, kn, x, s, k, n) => Holds(e, kn, x, s, k, n)
           /\ \A k : Chunk(e, k) = Chunk(d, k)
           /\ \A got, n : Delivered(e, kn, got, n) <=> Delivered(d, kn, got, n)
           /\ LastStage(e) = LastStage(d) /\ MmcStage(e) = MmcStage(d)
           /\ UsbStage(e) = UsbStage(d) /\ Ends(e) = Ends(d)
<1>1. \A s, at : Leaves(e, kn, s, at) = Leaves(d, kn, s, at)
  BY DEF SameOrder, Leaves, Version
<1>2. \A x, s, k, n : Holds(d, kn, x, s, k, n) => Holds(e, kn, x, s, k, n)
  BY <1>1 DEF SameOrder, Holds
<1>3. OrderOk(d) => OrderOk(e)
  BY DEF SameOrder, OrderOk
<1>4. \A got, n : Delivered(e, kn, got, n) <=> Delivered(d, kn, got, n)
  BY DEF SameOrder, Delivered
<1> QED BY <1>2, <1>3, <1>4 DEF SameOrder, Chunk, LastStage, MmcStage, UsbStage, Ends

(* The card has read, or written, only what it is still at. *)
LEMMA CardHasBefore ==
    ASSUME NEW d, NEW e, NEW m, CardOk(d), CardOk(e), e.cplt = d.cplt, e.reading = d.reading,
           UserKept(d, e)
    PROVE  /\ CardHasRead(e, m) => CardHasRead(d, m)
           /\ CardHasWritten(e) => CardHasWritten(d)
<1>1. "rx" \in d.cplt \/ "tx_dma" \in d.cplt => d.g_emmc_user # "NONE"
  BY DEF CardOk, Doing
<1>2. CardHasRead(e, m) => CardHasRead(d, m)
  BY <1>1 DEF CardHasRead, UserKept
<1>3. ASSUME CardHasWritten(e)
      PROVE  CardHasWritten(d)
  <2>1. "tx_dma" \in d.cplt
    BY <1>3 DEF CardHasWritten, CardOk, NoOp
  <2>2. d.op.kind = "write_wait"
    BY <2>1 DEF CardOk
  <2> QED BY <1>1, <1>3, <2>1, <2>2 DEF CardHasWritten, UserKept
<1> QED BY <1>2, <1>3

(* What Complete does, while the transfer goes on and at its end. *)
PassesOn(d, e, m, s, p) ==
    /\ F!BufferPassed(d.ring, p, s, {s} \cup Finishing(d, m))
    /\ \E c : /\ Changes(d, c, {"ring"}) /\ c.ring = p /\ SameLengths(d, c, m)
              /\ Called(c, m) /\ AllPlaced(c, e, p.exec)
              /\ Changes(c, e, Launching \cup {"ring"})
    /\ e.ring = [p EXCEPT !.exec = {}] /\ p \in FifoStruct /\ p.processing
EndsWith(d, e) ==
    /\ e.epIn.what = "csw" /\ e.epIn.passed /\ e.bot_state = "IDLE" /\ e.cbw = d.cbw
    /\ ~e.ring.processing
    /\ d.scsi_blk_len = 0 /\ d.mmcDataToTransfer = 0

LEMMA CompleteWays ==
    ASSUME NEW d, NEW m, Base(d, m), d.cbw.len > 0,
           NEW s \in StageIdx, s \in 0 .. d.ring.numStages - 1,
           s \notin Finishing(d, m), Resting(d, m, s),
           F!RingInv(d.ring, d.cbw.len, StageLeft(d), StageLen(d), {s} \cup Finishing(d, m)),
           NEW e, e = Complete(d, s, StageLen(d)[s])
    PROVE  (\E p : PassesOn(d, e, m, s, p)) \/ EndsWith(d, e)
<1> DEFINE p == bufferFIFO_processingComplete(d.ring, s, StageLen(d)[s])
           fin == {s} \cup Finishing(d, m)
           c == [d EXCEPT !.ring = p]
           b == RunStages(c)
<1>1. e = IF d.ring.processing /\ ~p.processing THEN transferComplete(b) ELSE b
  BY DEF Complete
<1>2. IsDev(d) /\ d.cbw.len \in Nat /\ s \in fin /\ d.reading \in BOOLEAN
  BY DEF Base, DevType
<1> HIDE DEF p, fin
<1>3. /\ p \in FifoStruct /\ p.numStages = d.ring.numStages /\ d.ring.processing
      /\ \A t \in p.exec :
            /\ t \in 0 .. d.ring.numStages - 1 /\ t \notin fin \ {s}
            /\ t # s => ~d.ring.stageProcessing[t]
            /\ p.stageProcessing[t]
            /\ t # 0 => 0 < p.bufferSize[ReadBuffer(p, t)]
      /\ \A t \in StageIdx : d.ring.stageProcessing[t] /\ t # s => p.stageProcessing[t]
      /\ ~p.processing =>
            /\ p.exec = {} /\ fin = {s}
            /\ \A t \in StageIdx : ~p.stageProcessing[t]
            /\ \A t \in 0 .. d.ring.numStages - 1 : StageLeft(d)[t] = 0
  <2>1. PassedOn(d.ring, p, s, StageLeft(d), fin)
    BY <1>2, PassOnFacts DEF p, fin
  <2> QED BY <2>1 DEF PassedOn
<1>4. d.ring.numStages \in {2, 3} /\ d.epIn.what \in {"none", "data"}
  BY <1>3 DEF Base, BotOk
<1>5. fin \ {s} = Finishing(d, m)
  BY DEF fin
<1>6. Changes(d, c, {"ring"}) /\ c.ring = p /\ c.fault = d.fault /\ c.cbw = d.cbw
  BY <1>2 DEF Changes, IsDev, Fields
<1> HIDE DEF c, b
<1>7. CASE p.processing
  <2>1. Base(c, m) /\ SameLengths(d, c, m)
    BY <1>3, <1>6, <1>7, RingMoves
  <2>2. Called(c, m)
    <3>1. ASSUME NEW t \in p.exec
          PROVE  /\ t \in StageIdx /\ t < p.numStages /\ Resting(c, m, t)
                 /\ t # 0 => BufferSize(c, t) > 0
      <4>1. t \in StageIdx /\ t < p.numStages
        BY <1>3, <1>4, StagesAre
      <4>2. t = s \/ (~d.ring.stageProcessing[t] /\ t \notin Finishing(d, m))
        BY <1>3, <1>5
      <4>3. Resting(d, m, t)
        BY <4>1, <4>2, OutOfFlight
      <4> QED BY <1>3, <1>6, <2>1, <4>1, <4>3 DEF SameLengths, BufferSize
    <3> QED BY <1>3, <1>6, <1>7, <2>1, <3>1 DEF Called
  <2>3. /\ Changes(c, b, Launching \cup {"ring"}) /\ b.ring = [p EXCEPT !.exec = {}]
    BY <1>6, <2>2, RunOk DEF b
  <2>4. AllPlaced(c, b, p.exec)
    BY <1>6, <2>2, RunPlaces DEF b
  <2>5. F!BufferPassed(d.ring, p, s, fin)
    BY <1>2, <1>3, SameOperations, RingConstants, F!PassingOn DEF p, fin
  <2>6. PassesOn(d, b, m, s, p)
    BY <1>3, <1>6, <1>7, <2>1, <2>2, <2>3, <2>4, <2>5 DEF PassesOn, fin
  <2> QED BY <1>1, <1>7, <2>6
<1>8. CASE ~p.processing
  <2>1. /\ p.exec = {} /\ fin = {s}
        /\ \A t \in StageIdx : ~p.stageProcessing[t]
        /\ \A t \in 0 .. d.ring.numStages - 1 : StageLeft(d)[t] = 0
    BY <1>3, <1>8
  <2>2. Finishing(d, m) = {}
    BY <1>5, <2>1
  <2>3. /\ MmcStage(d) \in StageIdx /\ UsbStage(d) \in StageIdx
        /\ MmcStage(d) # UsbStage(d)
        /\ MmcStage(d) \in 0 .. d.ring.numStages - 1
        /\ UsbStage(d) \in 0 .. d.ring.numStages - 1
    BY <1>2, <1>4, StagesDiffer, StagesAre
  <2>4. d.mmcDataToTransfer = 0 /\ d.scsi_blk_len = 0
    <3>1. StageLeft(d)[MmcStage(d)] = 0 /\ StageLeft(d)[UsbStage(d)] = 0
      BY <2>1, <2>3
    <3>2. d.mmcDataToTransfer + CountedAhead(d) = 0 /\ d.scsi_blk_len = 0
      BY <2>3, <3>1 DEF StageLeft
    <3>3. d.mmcDataToTransfer \in Nat /\ CountedAhead(d) \in Nat
      BY DEF Base, DevType, CountedAhead
    <3> QED BY <3>2, <3>3
  <2>5. d.epIn.what = "none"
    <3>1. Resting(d, m, UsbStage(d))
      BY <1>3, <2>1, <2>2, <2>3, OutOfFlight
    <3>2. ~UsbBusy(d)
      BY <2>3, <3>1 DEF Resting
    <3> QED BY <1>4, <3>2 DEF UsbBusy
  <2>6. Changes(c, b, {"ring"}) /\ b.ring = p
    <3>1. b = [c EXCEPT !.ring.exec = {}]
      BY <1>6, <2>1 DEF b, RunStages
    <3>2. [p EXCEPT !.exec = {}] = p
      BY <1>3, <2>1 DEF FifoStruct
    <3> QED BY <1>6, <3>1, <3>2 DEF Changes, IsDev, Fields
  <2>7. b.mmcDataToTransfer = 0 /\ b.epIn.what = "none" /\ b.cbw = d.cbw /\ IsDev(b)
    BY <1>6, <2>4, <2>5, <2>6 DEF Changes, Fields
  <2>8. e = MSC_BOT_SendCSW(b, TRUE)
    BY <1>1, <1>3, <1>8, <2>7 DEF transferComplete
  <2>9. /\ Changes(b, e, {"bot_state", "epIn", "epOut"})
        /\ e.bot_state = "IDLE" /\ e.epIn = Csw(b, TRUE)
    BY <2>7, <2>8, CswFree
  <2>10. e.cbw = d.cbw /\ e.ring = p
    BY <2>6, <2>7, <2>9 DEF Changes, Fields
  <2> QED BY <1>8, <2>4, <2>9, <2>10 DEF EndsWith, Csw
<1> QED BY <1>7, <1>8

(* The buffer that stage s passes on is full. *)
Full(d, ct, kn, s) ==
    s # LastStage(d) =>
        Holds(d, kn, ct[WriteBuffer(d.ring, s)], s, Gone(d, s), Chunk(d, Gone(d, s)))

LEMMA PassesData ==
    ASSUME NEW d, NEW m, Base(d, m), d.ring.processing,
           NEW s \in StageIdx, s \in 0 .. d.ring.numStages - 1,
           s \notin Finishing(d, m), Resting(d, m, s),
           NEW h, NEW md, NEW ct, NEW kn, TransferOk(d, m, h, md, ct, kn), Full(d, ct, kn, s),
           NEW e, NEW p, PassesOn(d, e, m, s, p), Base(e, m)
    PROVE  TransferOk(e, m, h, md, ct, kn)
<1> DEFINE M == MmcStage(d)
           U == UsbStage(d)
<1>1. PICK c : /\ Changes(d, c, {"ring"}) /\ c.ring = p /\ SameLengths(d, c, m)
               /\ Called(c, m) /\ AllPlaced(c, e, p.exec)
               /\ Changes(c, e, Launching \cup {"ring"})
  BY DEF PassesOn
<1>2. /\ F!BufferPassed(d.ring, p, s, {s} \cup Finishing(d, m))
      /\ e.ring = [p EXCEPT !.exec = {}] /\ p \in FifoStruct /\ p.processing
  BY DEF PassesOn
<1>3. /\ p.numStages = d.ring.numStages
      /\ \A u \in (0 .. d.ring.numStages - 1) \ {s} :
            /\ F!Passed(p, u) = F!Passed(d.ring, u)
            /\ ReadBuffer(p, u) = ReadBuffer(d.ring, u)
            /\ WriteBuffer(p, u) = WriteBuffer(d.ring, u)
            /\ u \notin p.exec /\ F!InFlight(p, Finishing(d, m), u) => Flying(d, m, u)
      /\ s \notin p.exec => ~F!InFlight(p, Finishing(d, m), s)
      /\ \A t \in (0 .. d.ring.numStages - 1) \ {0} : \A k \in F!Between(p, t) :
            /\ F!BufferOf(p, t, k) = F!BufferOf(d.ring, t, k)
            /\ \/ k \in F!Between(d.ring, t)
               \/ /\ t = s + 1 /\ k = F!Passed(d.ring, s)
                  /\ F!BufferOf(d.ring, t, k) = WriteBuffer(d.ring, s)
  <2>1. ({s} \cup Finishing(d, m)) \ {s} = Finishing(d, m)
    OBVIOUS
  <2>2. \A u : u # s /\ F!InFlight(d.ring, {s} \cup Finishing(d, m), u) => Flying(d, m, u)
    BY DEF F!InFlight, Flying
  <2> QED BY <1>2, <2>1, <2>2, Same DEF F!BufferPassed
<1>4. SameIndices(p, e.ring) /\ e.ring.stageProcessing = p.stageProcessing /\ e.ring.processing
  BY <1>2 DEF SameIndices, FifoStruct
<1>5. /\ \A u : F!Passed(e.ring, u) = F!Passed(p, u) /\ F!Between(e.ring, u) = F!Between(p, u)
      /\ \A u : ReadBuffer(e.ring, u) = ReadBuffer(p, u)
      /\ \A u : WriteBuffer(e.ring, u) = WriteBuffer(p, u)
      /\ \A u, k : F!BufferOf(e.ring, u, k) = F!BufferOf(p, u, k)
  BY <1>4, IndicesGive
<1>6. SameOrder(d, e)
  BY <1>1, <1>3, <1>4 DEF SameOrder, SameIndices, Changes, Fields, Launching
<1>7. /\ e.cplt = d.cplt /\ e.scsi_blk_len = d.scsi_blk_len
      /\ e.mmcDataToTransfer = d.mmcDataToTransfer /\ e.g_cryptOutInt = d.g_cryptOutInt
      /\ c.cplt = d.cplt /\ c.g_emmc_user = d.g_emmc_user /\ c.crypt = d.crypt
      /\ c.mmcBuffer = d.mmcBuffer /\ c.mmcReadLen = d.mmcReadLen /\ c.epIn = d.epIn
      /\ c.epOut = d.epOut /\ c.writeBuffer = d.writeBuffer /\ c.writeLen = d.writeLen
      /\ c.g_cryptOutInt = d.g_cryptOutInt /\ c.reading = d.reading
  BY <1>1 DEF Changes, Fields, Launching
<1>8. /\ OrderOk(d) /\ PlacesOk(d, m) /\ ChunksOk(d, ct, kn) /\ PiecesOk(d, m, ct, kn)
      /\ HostHas(d, h, kn) /\ (~d.reading => WrittenUpTo(md, d.cbw, OnCard(d)))
  BY DEF TransferOk
<1>9. /\ OrderOk(e)
      /\ \A x, t, k, n : Holds(d, kn, x, t, k, n) => Holds(e, kn, x, t, k, n)
      /\ \A k : Chunk(e, k) = Chunk(d, k)
      /\ \A got, n : Delivered(e, kn, got, n) <=> Delivered(d, kn, got, n)
      /\ LastStage(e) = LastStage(d) /\ MmcStage(e) = M /\ UsbStage(e) = U /\ Ends(e) = Ends(d)
  BY <1>6, <1>8, OrderGives
<1>10. /\ M \in StageIdx /\ U \in StageIdx /\ M # U
       /\ M \in 0 .. d.ring.numStages - 1 /\ U \in 0 .. d.ring.numStages - 1
       /\ d.ring.numStages \in {2, 3} /\ d.reading \in BOOLEAN
       /\ d.ring.numStages = 3 => M # 1 /\ U # 1 /\ 1 \in StageIdx
       /\ (M = 0 <=> d.reading) /\ (U = 0 <=> ~d.reading)
       /\ LastStage(d) = IF d.reading THEN U ELSE M
  <2>1. d.ring.numStages \in {2, 3} /\ d.reading \in BOOLEAN
    BY DEF Base, DevType, BotOk
  <2> QED BY <2>1, StagesDiffer, StagesAre
<1>11. /\ MmcStage(c) = M /\ UsbStage(c) = U /\ LastStage(c) = LastStage(d)
       /\ Finishing(e, m) = Finishing(d, m)
  BY <1>1, <1>3, <1>7, <1>9 DEF SameLengths, LastStage, Finishing
<1> HIDE DEF M, U
<1>12. \A t \in StageIdx : IF t \in p.exec THEN WorksAt(c, e, t) ELSE StaysAt(c, e, t)
  BY <1>1 DEF AllPlaced
<1>13. /\ e.crypt.sector = d.crypt.sector /\ e.crypt.toTransfer = d.crypt.toTransfer
       /\ UserKept(d, e)
  BY <1>1, <1>7 DEF AllPlaced, SameCount, UserKept
<1>14. M = s => ~MmcBusy(d, m)
  BY <1>10 DEF Resting, M
<1>15. U = s => ~UsbBusy(d)
  BY <1>10 DEF Resting, M, U
<1>16. s = 1 /\ d.ring.numStages = 3 => ~CryptBusy(d)
  BY <1>10 DEF Resting, M, U
<1>17. CryptBusy(e) \/ CryptBusy(d) => d.ring.numStages = 3
  BY <1>6 DEF Base, CryptOk, SameOrder
<1>18. MmcPlace(e, m)
  <2>1. CASE M \in p.exec
    <3>1. e.mmcBuffer = MmcBufferOf(c)
      BY <1>10, <1>11, <1>12, <2>1 DEF WorksAt
    <3>2. MmcBufferOf(c) = IF e.reading THEN WriteBuffer(e.ring, 0)
                           ELSE ReadBuffer(e.ring, LastStage(e))
      BY <1>1, <1>5, <1>6, <1>7, <1>9, <1>11 DEF MmcBufferOf, SameOrder
    <3> QED BY <3>1, <3>2 DEF MmcPlace
  <2>2. CASE M \notin p.exec
    <3>1. SUFFICES ASSUME Flying(e, m, M)
                   PROVE  e.mmcBuffer = IF e.reading THEN WriteBuffer(e.ring, 0)
                                        ELSE ReadBuffer(e.ring, LastStage(e))
      BY <1>9 DEF MmcPlace
    <3>2. F!InFlight(p, Finishing(d, m), M)
      BY <1>4, <1>11, <3>1 DEF Flying, F!InFlight, F!StagesOf, SameIndices
    <3>3. M # s /\ Flying(d, m, M)
      BY <1>3, <1>10, <2>2, <3>2
    <3>4. d.mmcBuffer = IF d.reading THEN WriteBuffer(d.ring, 0)
                        ELSE ReadBuffer(d.ring, LastStage(d))
      BY <1>8, <3>3 DEF PlacesOk, MmcPlace, M
    <3>5. e.mmcBuffer = d.mmcBuffer
      BY <1>7, <1>10, <1>11, <1>12, <2>2 DEF StaysAt
    <3>6. ReadBuffer(e.ring, M) = ReadBuffer(d.ring, M)
          /\ WriteBuffer(e.ring, M) = WriteBuffer(d.ring, M)
      BY <1>3, <1>5, <1>10, <3>3
    <3> QED BY <1>6, <1>9, <1>10, <3>4, <3>5, <3>6 DEF SameOrder
  <2> QED BY <2>1, <2>2
<1>19. UsbPlace(e)
  <2>1. (e.epIn.what = "data" => e.reading) /\ (e.epOut = "data" => ~e.reading)
    BY DEF Base, UsbOk
  <2>2. CASE U \in p.exec
    <3>1. WorksAt(c, e, U)
      BY <1>10, <1>12, <2>2
    <3>2. CASE d.reading
      <4>1. e.epIn = [what |-> "data", buf |-> WriteBuffer(p, U), len |-> e.writeLen]
        BY <1>1, <1>7, <1>10, <1>11, <3>1, <3>2 DEF WorksAt
      <4> QED BY <1>5, <1>6, <1>9, <1>10, <2>1, <3>2, <4>1 DEF UsbPlace, SameOrder
    <3>3. CASE ~d.reading
      <4>1. e.writeBuffer = WriteBuffer(p, 0)
        BY <1>1, <1>7, <1>10, <1>11, <3>1, <3>3 DEF WorksAt
      <4> QED BY <1>5, <1>6, <2>1, <3>3, <4>1 DEF UsbPlace, SameOrder
    <3> QED BY <1>10, <3>2, <3>3
  <2>3. CASE U \notin p.exec
    <3>1. /\ e.epIn = d.epIn /\ e.epOut = d.epOut
          /\ e.writeBuffer = d.writeBuffer /\ e.writeLen = d.writeLen
      BY <1>7, <1>10, <1>11, <1>12, <2>3 DEF StaysAt
    <3>2. U # s => WriteBuffer(e.ring, U) = WriteBuffer(d.ring, U)
      BY <1>3, <1>5, <1>10
    <3>3. UsbPlace(d)
      BY <1>8 DEF PlacesOk
    <3>4. U = s => e.epIn.what # "data" /\ e.epOut # "data"
      BY <1>15, <3>1 DEF UsbBusy
    <3> QED BY <1>6, <1>9, <1>10, <2>1, <3>1, <3>2, <3>3, <3>4 DEF UsbPlace, SameOrder
  <2> QED BY <2>2, <2>3
<1>20. /\ CryptPlace(e)
       /\ CryptBusy(e) => Holds(e, kn, ct[WriteBuffer(e.ring, 1)], 1, Gone(e, 1), SectorsOut(e))
  <2>1. Encrypted(e.cbw.lun) => d.ring.numStages = 3
    BY <1>6, <1>8 DEF OrderOk, StageCount, SameOrder
  <2>2. CASE d.ring.numStages # 3
    BY <1>17, <2>1, <2>2 DEF CryptPlace
  <2>3. CASE d.ring.numStages = 3 /\ 1 \in p.exec
    <3>1. WorksAt(c, e, 1) /\ 1 # M /\ 1 # U
      BY <1>10, <1>12, <2>3
    <3>2. /\ e.crypt.from = ReadBuffer(e.ring, 1) /\ e.crypt.to = WriteBuffer(e.ring, 1)
          /\ e.crypt.left = e.crypt.txLen
      BY <1>1, <1>5, <1>11, <3>1 DEF WorksAt
    <3>3. ~CryptBusy(d)
      <4>1. Resting(c, m, 1)
        BY <1>1, <2>3 DEF Called
      <4>2. ~CryptBusy(c)
        BY <1>11, <3>1, <4>1 DEF Resting
      <4> QED BY <1>7, <4>2 DEF CryptBusy
    <3>4. SectorsIn(e) = 0 /\ SectorsIn(d) = 0 /\ SectorsOut(e) = 0
      <4>1. e.crypt.txLen \in Nat /\ ~e.g_cryptOutInt
        BY <1>7, <3>3 DEF Base, DevType, Crypts, CryptBusy
      <4> QED BY <3>2, <3>3, <4>1 DEF SectorsIn, SectorsOut
    <3>5. CryptPlace(e)
      BY <1>6, <1>8, <1>9, <1>13, <3>2, <3>4 DEF PlacesOk, CryptPlace, SameOrder
    <3> QED BY <3>4, <3>5 DEF Holds
  <2>4. CASE d.ring.numStages = 3 /\ 1 \notin p.exec
    <3>1. StaysAt(c, e, 1) /\ 1 # M /\ 1 # U
      BY <1>10, <1>12, <2>4
    <3>2. e.crypt = d.crypt
      BY <1>7, <1>11, <3>1 DEF StaysAt
    <3>3. /\ CryptBusy(e) <=> CryptBusy(d)
          /\ SectorsIn(e) = SectorsIn(d) /\ SectorsOut(e) = SectorsOut(d)
      BY <1>7, <3>2 DEF CryptBusy, SectorsIn, SectorsOut
    <3>4. CryptBusy(e) => s # 1
      BY <1>16, <2>4, <3>3
    <3>5. s # 1 => /\ ReadBuffer(e.ring, 1) = ReadBuffer(d.ring, 1)
                   /\ WriteBuffer(e.ring, 1) = WriteBuffer(d.ring, 1)
                   /\ Gone(e, 1) = Gone(d, 1)
      BY <1>3, <1>5, <2>4 DEF Gone
    <3>6. CryptPlace(e)
      BY <1>6, <1>8, <1>9, <3>2, <3>3, <3>4, <3>5 DEF PlacesOk, CryptPlace, SameOrder
    <3>7. ASSUME CryptBusy(e)
          PROVE  Holds(e, kn, ct[WriteBuffer(e.ring, 1)], 1, Gone(e, 1), SectorsOut(e))
      <4>1. Holds(d, kn, ct[WriteBuffer(d.ring, 1)], 1, Gone(d, 1), SectorsOut(d))
        BY <1>8, <3>3, <3>7 DEF PiecesOk
      <4> QED BY <1>9, <3>3, <3>4, <3>5, <3>7, <4>1
    <3> QED BY <3>6, <3>7
  <2> QED BY <2>2, <2>3, <2>4
<1>21. ChunksOk(e, ct, kn)
  <2>1. SUFFICES ASSUME NEW t \in (0 .. LastStage(d)) \ {0}, NEW k \in F!Between(p, t)
                 PROVE  Holds(e, kn, ct[F!BufferOf(p, t, k)], t - 1, k, Chunk(d, k))
    BY <1>5, <1>9 DEF ChunksOk
  <2>2. t \in (0 .. d.ring.numStages - 1) \ {0}
    BY DEF LastStage
  <2>3. CASE k \in F!Between(d.ring, t)
    BY <1>3, <1>8, <1>9, <2>2, <2>3 DEF ChunksOk
  <2>4. CASE t = s + 1 /\ k = F!Passed(d.ring, s)
             /\ F!BufferOf(d.ring, t, k) = WriteBuffer(d.ring, s)
    <3>1. s # LastStage(d) /\ t - 1 = s
      BY <2>2, <2>4, <1>10 DEF LastStage
    <3> QED BY <1>3, <1>9, <2>2, <2>4, <3>1 DEF Full, Gone
  <2> QED BY <1>3, <2>2, <2>3, <2>4
<1>22. /\ CardHasRead(e, m) => CardHasRead(d, m)
       /\ CardHasWritten(e) => CardHasWritten(d)
  BY <1>6, <1>7, <1>13, CardHasBefore DEF Base, SameOrder
<1>23. MmcBusy(d, m) => M # s /\ M \notin p.exec
  <2>1. ASSUME MmcBusy(d, m), M \in p.exec
        PROVE  FALSE
    <3>1. Resting(c, m, M)
      BY <1>1, <2>1 DEF Called
    <3>2. Resting(d, m, M)
      BY <1>1, <1>10, <3>1 DEF SameLengths
    <3> QED BY <2>1, <3>2 DEF Resting, M
  <2> QED BY <1>14, <2>1
<1>24. CardHasRead(e, m) =>
           Holds(e, kn, ct[WriteBuffer(e.ring, 0)], 0, Gone(e, 0), Chunk(e, Gone(e, 0)))
  <2>1. SUFFICES ASSUME CardHasRead(d, m)
                 PROVE  Holds(e, kn, ct[WriteBuffer(e.ring, 0)], 0, Gone(e, 0),
                              Chunk(e, Gone(e, 0)))
    BY <1>22
  <2>2. MmcBusy(d, m) /\ d.reading
    BY <2>1 DEF CardHasRead, MmcBusy
  <2>3. 0 # s
    BY <1>10, <1>23, <2>2
  <2>4. WriteBuffer(e.ring, 0) = WriteBuffer(d.ring, 0) /\ Gone(e, 0) = Gone(d, 0)
    BY <1>3, <1>5, <1>10, <2>3 DEF Gone
  <2> QED BY <1>8, <1>9, <2>1, <2>4 DEF PiecesOk
<1>25. HostHas(e, h, kn)
  BY <1>6, <1>7, <1>8, <1>9 DEF HostHas, SameOrder
<1>26. ASSUME ~e.reading
       PROVE  WrittenUpTo(md, e.cbw, OnCard(e))
  <2>1. WrittenUpTo(md, d.cbw, OnCard(d))
    BY <1>6, <1>8, <1>26 DEF SameOrder
  <2>2. CardHasWritten(e) => e.mmcReadLen = d.mmcReadLen
    <3>1. CardHasWritten(e) => M \notin p.exec
      BY <1>22, <1>23 DEF CardHasWritten, MmcBusy
    <3> QED BY <1>7, <1>10, <1>11, <1>12, <3>1 DEF StaysAt
  <2>3. /\ OnCard(e) <= OnCard(d) /\ OnCard(e) \in Int /\ OnCard(d) \in Int
    <3>1. /\ d.mmcDataToTransfer \in Nat /\ d.cbw.len \in Nat
          /\ d.mmcReadLen \in Nat /\ e.mmcReadLen \in Nat
      BY DEF Base, DevType
    <3> QED BY <1>6, <1>7, <1>22, <2>2, <3>1 DEF OnCard, SameOrder
  <2> QED BY <1>6, <2>1, <2>3 DEF WrittenUpTo, SameOrder
<1> QED BY <1>9, <1>18, <1>19, <1>20, <1>21, <1>24, <1>25, <1>26
  DEF TransferOk, PlacesOk, PiecesOk

(* A transfer that has ended is all done. *)
LEMMA EndsData ==
    ASSUME NEW d, NEW m, Base(d, m), NEW e, EndsWith(d, e),
           NEW h, NEW md, NEW ct, NEW kn, TransferOk(d, m, h, md, ct, kn)
    PROVE  /\ d.reading => Delivered(d, kn, h.got, d.cbw.len)
           /\ ~d.reading => WrittenUpTo(md, d.cbw, d.cbw.len)
<1>1. d.scsi_blk_len = 0 /\ d.mmcDataToTransfer = 0
  BY DEF EndsWith
<1>2. d.cbw.len \in Nat /\ d.mmcReadLen \in Nat
  BY DEF Base, DevType
<1>3. ASSUME d.reading
      PROVE  Delivered(d, kn, h.got, d.cbw.len)
  <2>1. d.cbw.len - d.scsi_blk_len = d.cbw.len
    BY <1>1, <1>2
  <2> QED BY <1>3, <2>1 DEF TransferOk, HostHas
<1>4. ASSUME ~d.reading
      PROVE  WrittenUpTo(md, d.cbw, d.cbw.len)
  <2>1. OnCard(d) \in Nat /\ d.cbw.len <= OnCard(d)
    BY <1>1, <1>2 DEF OnCard
  <2>2. WrittenUpTo(md, d.cbw, OnCard(d))
    BY <1>4 DEF TransferOk
  <2> QED BY <1>2, <2>1, <2>2 DEF WrittenUpTo
<1> QED BY <1>3, <1>4

(* Stage s passes its buffer on: the sectors are where they should be, or the   *)
(* transfer is over and they are where the status says.                         *)
LEMMA CompleteKeepsData ==
    ASSUME NEW d, NEW m, Base(d, m), d.cbw.len > 0, d.ring.processing,
           NEW s \in StageIdx, s \in 0 .. d.ring.numStages - 1,
           s \notin Finishing(d, m), Resting(d, m, s),
           F!RingInv(d.ring, d.cbw.len, StageLeft(d), StageLen(d), {s} \cup Finishing(d, m)),
           NEW e, e = Complete(d, s, StageLen(d)[s]),
           NEW h, NEW md, NEW ct, NEW kn, TransferOk(d, m, h, md, ct, kn), Full(d, ct, kn, s),
           CardOf(d, h, md, kn), h.waiting, d.cbw = h.cmd
    PROVE  DataOk(e, m, h, md, ct, kn)
<1>1. Completed(d, e, m)
  BY CompletesOk
<1>2. Base(e, m) /\ e.cbw = d.cbw
  BY <1>1 DEF Completed, Changes, Fields, Launching
<1>3. OrderOk(d)
  BY DEF TransferOk
<1>4. CASE EndsWith(d, e)
  <2>1. ~e.ring.processing /\ PassedNow(e) /\ e.bot_state = "IDLE"
    BY <1>4 DEF EndsWith, PassedNow
  <2>2. /\ d.reading => Delivered(d, kn, h.got, d.cbw.len)
        /\ ~d.reading => WrittenUpTo(md, d.cbw, d.cbw.len)
    BY <1>4, EndsData
  <2>3. CardOf(e, h, md, kn)
    BY <2>1 DEF CardOf, Replacing
  <2>4. DoneOk(e, h, md, kn)
    BY <1>3, <2>1, <2>2 DEF DoneOk, Delivered, OrderOk
  <2> QED BY <2>1, <2>3, <2>4 DEF DataOk, Moving
<1>5. CASE \E p : PassesOn(d, e, m, s, p)
  <2>1. TransferOk(e, m, h, md, ct, kn)
    BY <1>2, <1>5, PassesData
  <2>2. e.ring.processing
    BY <1>5 DEF PassesOn, FifoStruct
  <2>3. ~PassedNow(e) /\ e.bot_state # "SEND_DATA"
    BY <1>2, <2>1, <2>2 DEF Base, BotOk, PassedNow, TransferOk, OrderOk
  <2>4. CardOf(e, h, md, kn)
    BY <2>2 DEF CardOf, Replacing
  <2>5. DoneOk(e, h, md, kn)
    BY <2>3 DEF DoneOk
  <2> QED BY <2>1, <2>4, <2>5 DEF DataOk
<1> QED BY <1>4, <1>5, CompleteWays

------------------------------------------------------------------------------
(* Steps that leave the sectors where they are. *)

(* e is d, as far as the buffers and the command of the transfer go. *)
Framed(d, m, e, n) ==
    /\ SameOrder(d, e) /\ SameIndices(d.ring, e.ring)
    /\ e.mmcBuffer = d.mmcBuffer
    /\ Flying(e, n, MmcStage(e)) => Flying(d, m, MmcStage(d))
    /\ e.writeLen = d.writeLen /\ e.writeBuffer = d.writeBuffer
    /\ e.epIn = d.epIn \/ e.epIn.what # "data"
    /\ e.epOut = d.epOut \/ e.epOut # "data"
    /\ CardHasRead(e, n) => CardHasRead(d, m)
SameCrypt(d, e) == e.crypt = d.crypt /\ e.g_cryptOutInt = d.g_cryptOutInt

(* The part of the AES unit in TransferOk. *)
CryptData(d, ct, kn) ==
    /\ CryptPlace(d)
    /\ CryptBusy(d) =>
         Holds(d, kn, ct[WriteBuffer(d.ring, 1)], 1, Gone(d, 1), SectorsOut(d))

LEMMA FramedData ==
    ASSUME NEW d, NEW m, NEW h, NEW md, NEW ct, NEW kn, TransferOk(d, m, h, md, ct, kn),
           NEW e, NEW n, Framed(d, m, e, n),
           SameCrypt(d, e) \/ CryptData(e, ct, kn),
           NEW h2, HostHas(e, h2, kn),
           NEW md2, ~e.reading => WrittenUpTo(md2, e.cbw, OnCard(e))
    PROVE  TransferOk(e, n, h2, md2, ct, kn)
<1>1. /\ SameOrder(d, e) /\ SameIndices(d.ring, e.ring)
      /\ e.mmcBuffer = d.mmcBuffer
      /\ Flying(e, n, MmcStage(e)) => Flying(d, m, MmcStage(d))
      /\ e.writeLen = d.writeLen /\ e.writeBuffer = d.writeBuffer
      /\ e.epIn = d.epIn \/ e.epIn.what # "data"
      /\ e.epOut = d.epOut \/ e.epOut # "data"
      /\ CardHasRead(e, n) => CardHasRead(d, m)
  BY DEF Framed
<1>2. /\ OrderOk(d) /\ PlacesOk(d, m) /\ ChunksOk(d, ct, kn) /\ PiecesOk(d, m, ct, kn)
  BY DEF TransferOk
<1>3. /\ OrderOk(e)
      /\ \A x, s, k, i : Holds(d, kn, x, s, k, i) => Holds(e, kn, x, s, k, i)
      /\ \A k : Chunk(e, k) = Chunk(d, k)
      /\ LastStage(e) = LastStage(d) /\ MmcStage(e) = MmcStage(d) /\ Ends(e) = Ends(d)
      /\ e.cbw = d.cbw /\ e.reading = d.reading
  BY <1>1, <1>2, OrderGives DEF SameOrder
<1>4. /\ \A s : F!Passed(e.ring, s) = F!Passed(d.ring, s)
      /\ \A s : F!Between(e.ring, s) = F!Between(d.ring, s)
      /\ \A s : ReadBuffer(e.ring, s) = ReadBuffer(d.ring, s)
      /\ \A s : WriteBuffer(e.ring, s) = WriteBuffer(d.ring, s)
      /\ \A s, k : F!BufferOf(e.ring, s, k) = F!BufferOf(d.ring, s, k)
  BY <1>1, IndicesGive
<1>5. MmcPlace(e, n) /\ UsbPlace(e)
  BY <1>1, <1>2, <1>3, <1>4 DEF PlacesOk, MmcPlace, UsbPlace
<1>6. ChunksOk(e, ct, kn)
  BY <1>2, <1>3, <1>4 DEF ChunksOk
<1>7. CardHasRead(e, n) =>
         Holds(e, kn, ct[WriteBuffer(e.ring, 0)], 0, Gone(e, 0), Chunk(e, Gone(e, 0)))
  BY <1>1, <1>2, <1>3, <1>4 DEF PiecesOk, Gone
<1>8. CryptData(e, ct, kn)
  <2>1. SUFFICES ASSUME SameCrypt(d, e)
                 PROVE  CryptData(e, ct, kn)
    OBVIOUS
  <2>2. /\ CryptBusy(e) <=> CryptBusy(d)
        /\ SectorsIn(e) = SectorsIn(d) /\ SectorsOut(e) = SectorsOut(d)
    BY <2>1 DEF SameCrypt, CryptBusy, SectorsIn, SectorsOut
  <2>3. CryptPlace(e)
    BY <1>2, <1>3, <1>4, <2>1, <2>2 DEF PlacesOk, CryptPlace, SameCrypt
  <2>4. CryptBusy(e) =>
            Holds(e, kn, ct[WriteBuffer(e.ring, 1)], 1, Gone(e, 1), SectorsOut(e))
    BY <1>2, <1>3, <1>4, <2>2 DEF PiecesOk, Gone
  <2> QED BY <2>3, <2>4 DEF CryptData
<1> QED BY <1>3, <1>5, <1>6, <1>7, <1>8 DEF TransferOk, PlacesOk, PiecesOk, CryptData

(* Nothing of the transfer moves. *)
Unmoved(d, m, e, n) ==
    /\ Framed(d, m, e, n) /\ SameCrypt(d, e) /\ e.scsi_blk_len = d.scsi_blk_len
    /\ ~d.reading => OnCard(d) \in Int /\ OnCard(e) \in Int /\ OnCard(e) <= OnCard(d)

LEMMA UnmovedData ==
    ASSUME NEW d, NEW m, NEW h, NEW md, NEW ct, NEW kn, DataOk(d, m, h, md, ct, kn),
           NEW e, NEW n, e.ring.processing = d.ring.processing, e.cbw = d.cbw,
           e.epIn = d.epIn, e.bot_state = d.bot_state,
           Moving(d) => Unmoved(d, m, e, n)
    PROVE  DataOk(e, n, h, md, ct, kn)
<1>1. CardOf(e, h, md, kn) /\ DoneOk(e, h, md, kn)
  BY DEF DataOk, CardOf, DoneOk, Replacing, PassedNow
<1>2. ASSUME Moving(e)
      PROVE  TransferOk(e, n, h, md, ct, kn)
  <2>1. Moving(d)
    BY <1>2 DEF Moving
  <2>2. TransferOk(d, m, h, md, ct, kn) /\ Unmoved(d, m, e, n)
    BY <2>1 DEF DataOk
  <2>3. SameOrder(d, e) /\ e.cbw = d.cbw /\ e.reading = d.reading
    BY <2>2 DEF Unmoved, Framed, SameOrder
  <2>4. HostHas(e, h, kn)
    BY <2>2, <2>3, OrderGives DEF TransferOk, HostHas, Unmoved
  <2>5. ~e.reading => WrittenUpTo(md, e.cbw, OnCard(e))
    BY <2>2, <2>3 DEF TransferOk, Unmoved, WrittenUpTo
  <2> QED BY <2>2, <2>4, <2>5, FramedData DEF Unmoved
<1> QED BY <1>1, <1>2 DEF DataOk

(* The eMMC is given to one user after the other, and the database does its work. *)
Scheduled1(d, m, e, n) ==
    /\ Changes(d, e, Scheduler)
    /\ \/ e.g_emmc_user = d.g_emmc_user \/ e.g_emmc_user = "NONE" \/ d.g_emmc_user = "NONE"
    /\ e.cplt \subseteq d.cplt \cup {"tx", "read_db", "write_db"}
    /\ n.after = "ring" <=> m.after = "ring"

LEMMA ScheduledData ==
    ASSUME NEW d, NEW m, Base(d, m), NEW e, NEW n, Base(e, n), Scheduled1(d, m, e, n),
           NEW h, NEW md, NEW ct, NEW kn, DataOk(d, m, h, md, ct, kn)
    PROVE  DataOk(e, n, h, md, ct, kn)
<1>1. /\ e.cbw = d.cbw /\ e.reading = d.reading /\ e.stalledOut = d.stalledOut
      /\ e.bot_state = d.bot_state /\ e.ring = d.ring /\ e.mmcBuffer = d.mmcBuffer
      /\ e.writeLen = d.writeLen /\ e.writeBuffer = d.writeBuffer /\ e.epIn = d.epIn
      /\ e.epOut = d.epOut /\ e.crypt = d.crypt /\ e.g_cryptOutInt = d.g_cryptOutInt
      /\ e.scsi_blk_len = d.scsi_blk_len /\ e.mmcDataToTransfer = d.mmcDataToTransfer
      /\ e.mmcReadLen = d.mmcReadLen
  BY DEF Scheduled1, Changes, Fields, Scheduler
<1>2. CardOk(d) /\ CardOk(e) /\ d.cbw.len \in Nat /\ d.mmcDataToTransfer \in Nat
      /\ d.mmcReadLen \in Nat
  BY DEF Base, DevType
<1>3. "rx" \in d.cplt \/ "tx_dma" \in d.cplt => d.g_emmc_user # "NONE"
  BY <1>2 DEF CardOk, Doing
<1>4. CardHasRead(e, n) => CardHasRead(d, m)
  BY <1>1, <1>3 DEF CardHasRead, Scheduled1
<1>5. ASSUME CardHasWritten(e)
      PROVE  CardHasWritten(d)
  <2>1. "tx_dma" \in e.cplt
    BY <1>2, <1>5 DEF CardHasWritten, CardOk, NoOp
  <2>2. "tx_dma" \in d.cplt
    BY <2>1 DEF Scheduled1
  <2>3. d.op.kind = "write_wait"
    BY <1>2, <2>2 DEF CardOk
  <2> QED BY <1>3, <1>5, <2>2, <2>3 DEF CardHasWritten, Scheduled1
<1>6. OnCard(d) \in Int /\ OnCard(e) \in Int /\ OnCard(e) <= OnCard(d)
  BY <1>1, <1>2, <1>5 DEF OnCard
<1>7. SameOrder(d, e) /\ SameIndices(d.ring, e.ring) /\ SameCrypt(d, e)
  BY <1>1 DEF SameOrder, SameIndices, SameCrypt
<1>8. Flying(e, n, MmcStage(e)) => Flying(d, m, MmcStage(d))
  BY <1>1 DEF Scheduled1, Flying, Finishing, MmcStage, LastStage
<1>9. Unmoved(d, m, e, n)
  BY <1>1, <1>4, <1>6, <1>7, <1>8 DEF Unmoved, Framed
<1> QED BY <1>1, <1>9, UnmovedData

(* The steps of StorageSystem. *)

Domains ==
    /\ DOMAIN content = Buffers /\ \A b \in Buffers : DOMAIN content[b] = 1 .. BufSectors
    /\ DOMAIN medium = 0 .. CardSectors - 1
    /\ known = [lun \in Luns |-> [a \in 0 .. Capacity(lun) - 1 |-> known[lun][a]]]
    /\ IsCommand(host.cmd)

(* What is known of a state in which none of the events has happened. *)
Sound ==
    /\ StatusInv /\ Undisturbed /\ (dev.ring.processing => VolumeOk(dev))
    /\ Domains /\ Spared({"race", "range", "reset"})
Exact == DataOk(dev, main, host, medium, content, known)

LEMMA SchedulingData ==
    ASSUME Sound, Exact, Sound', Changes(dev, dev', Scheduler \cup {"fault"}),
           \/ dev'.g_emmc_user = dev.g_emmc_user \/ dev'.g_emmc_user = "NONE"
           \/ dev.g_emmc_user = "NONE",
           dev'.cplt \subseteq dev.cplt \cup {"tx", "read_db", "write_db"},
           main'.after = "ring" <=> main.after = "ring",
           UNCHANGED <<medium, content, host, known>>
    PROVE  Exact'
<1>1. Base(dev, main) /\ dev.fault = {}
  BY DEF Sound, Undisturbed
<1>2. Base(dev', main') /\ dev'.fault = {}
  BY DEF Sound, Undisturbed
<1>3. Changes(dev, dev', Scheduler)
  BY <1>1, <1>2 DEF Changes, Scheduler, Fields
<1>4. Scheduled1(dev, main, dev', main')
  BY <1>3 DEF Scheduled1
<1>5. DataOk(dev, main, host, medium, content, known)
  BY DEF Exact
<1> QED BY <1>1, <1>2, <1>4, <1>5, ScheduledData DEF Exact

LEMMA SchedulerStepsData ==
    ASSUME Sound, Exact, Sound',
           \/ WriteEnds \/ DbComplete \/ emmc_user_done \/ TestNone \/ PickDb \/ PickStorage
           \/ Assign \/ ClearReady \/ Start \/ DbAfter \/ DbFromMain \/ DbFromInterrupt
           \/ usbd_scsi_device_state_change \/ UNCHANGED vars
    PROVE  Exact'
<1>1. IsDev(dev) /\ Base(dev, main) /\ CardOk(dev) /\ MainOk(dev, main) /\ MainType(main)
  BY DEF Sound, Undisturbed, Base
<1>2. CASE WriteEnds
  BY <1>1, <1>2, SchedulingData
  DEF WriteEnds, Flag, Changes, IsDev, Fields, Scheduler, bounds, data
<1>3. CASE DbComplete
  <2>1. PICK f \in {"read_db", "write_db"} :
          /\ At("loop") /\ dev' = Taken(f) /\ main' = [main EXCEPT !.pc = "done", !.after = "db"]
          /\ MainOnly
    BY <1>3 DEF DbComplete
  <2>2. Changes(dev, dev', {"cplt"}) /\ dev'.cplt \subseteq dev.cplt
        /\ dev'.g_emmc_user = dev.g_emmc_user
    BY <1>1, <2>1 DEF Taken, Changes, IsDev, Fields
  <2>3. main = Idle
    BY <1>1, <2>1 DEF At, MainOk
  <2>4. main'.after = "ring" <=> main.after = "ring"
    BY <2>1, <2>3 DEF Idle
  <2> QED
    BY <2>1, <2>2, <2>4, SchedulingData DEF MainOnly, data, bounds, Changes, Scheduler
<1>4. ASSUME MainOnly, main' = Idle \/ main'.after = main.after, main'=Idle => main.after # "ring"
      PROVE  /\ main'.after = "ring" <=> main.after = "ring"
             /\ UNCHANGED <<medium, content, host, known>>
  BY <1>4 DEF MainOnly, data, Idle
<1>5. ASSUME Return \/ (\E pc : Goto(pc))
      PROVE  (main' = Idle \/ main'.after = main.after) /\ (main' = Idle => main.after # "ring")
  <2>1. CASE Return
    BY <1>1, <2>1 DEF Return, MainType, Idle
  <2>2. CASE \E pc : Goto(pc)
    BY <1>1, <2>2 DEF Goto, MainType, Idle
  <2> QED BY <1>5, <2>1, <2>2
<1>6. CASE emmc_user_done
  <2>1. Changes(dev, dev', {"g_emmc_user"}) /\ dev'.g_emmc_user = "NONE" /\ dev'.cplt = dev.cplt
    BY <1>1, <1>6 DEF emmc_user_done, Changes, IsDev, Fields
  <2> QED BY <1>4, <1>5, <1>6, <2>1, SchedulingData DEF emmc_user_done, Changes, Scheduler
<1>7. CASE TestNone \/ PickDb \/ PickStorage
  <2>1. MainOnly /\ dev' = dev
    BY <1>7 DEF TestNone, PickDb, PickStorage
  <2>2. (main' = Idle \/ main'.after = main.after) /\ (main' = Idle => main.after # "ring")
    <3>1. CASE TestNone
      BY <1>5, <3>1 DEF TestNone
    <3>2. CASE PickDb
      BY <1>1, <3>2 DEF PickDb, MainType, Idle
    <3>3. CASE PickStorage
      <4>1. CASE Return
        BY <1>5, <4>1
      <4>2. CASE main' = [main EXCEPT !.pc = "assign", !.user = "STORAGE"]
        BY <1>1, <4>2 DEF MainType, Idle
      <4> QED BY <3>3, <4>1, <4>2 DEF PickStorage
    <3> QED BY <1>7, <3>1, <3>2, <3>3
  <2> QED BY <1>1, <1>4, <2>1, <2>2, SchedulingData DEF Changes
<1>8. CASE Assign
  <2>1. Changes(dev, dev', {"g_emmc_user", "disturbed"}) /\ dev'.cplt = dev.cplt
    BY <1>1, <1>8 DEF Assign, Changes, IsDev, Fields
  <2>2. dev.g_emmc_user = "NONE"
    <3>1. "race" \notin dev'.disturbed
      BY DEF Sound, Spared
    <3> QED BY <1>1, <1>8, <3>1 DEF Assign, IsDev, Fields
  <2> QED BY <1>4, <1>5, <1>8, <2>1, <2>2, SchedulingData DEF Assign, Changes, Scheduler
<1>9. CASE ClearReady
  <2>1. Changes(dev, dev', {"ready"}) /\ dev'.cplt = dev.cplt /\ dev'.g_emmc_user = dev.g_emmc_user
    BY <1>1, <1>9 DEF ClearReady, Changes, IsDev, Fields
  <2> QED BY <1>4, <1>5, <1>9, <2>1, SchedulingData DEF ClearReady, Changes, Scheduler
<1>10. CASE Start
  <2>1. Changes(dev, dev', {"op"})
    BY <1>1, <1>10, UserStartChanges DEF Start
  <2>2. dev'.cplt = dev.cplt /\ dev'.g_emmc_user = dev.g_emmc_user
    BY <2>1 DEF Changes, Fields
  <2> QED BY <1>4, <1>5, <1>10, <2>1, <2>2, SchedulingData DEF Start, Changes, Scheduler
<1>11. CASE DbAfter
  <2>1. /\ Changes(dev, dev', Scheduler \cup {"fault"}) /\ dev'.cplt = dev.cplt
        /\ dev'.g_emmc_user = dev.g_emmc_user
    <3>1. CASE dev' = [dev EXCEPT !.g_db_action = "none"]
      BY <1>1, <3>1 DEF Changes, IsDev, Fields, Scheduler
    <3>2. CASE dev' = MarkReady([dev EXCEPT !.g_db_action = "write"], "DB")
      <4> DEFINE c == [dev EXCEPT !.g_db_action = "write"]
      <4>1. Changes(dev, c, {"g_db_action"}) /\ IsDev(c)
        BY <1>1 DEF Changes, IsDev, Fields
      <4>2. dev' = MarkReady(c, "DB")
        BY <3>2
      <4> HIDE DEF c
      <4>3. Changes(c, dev', {"fault", "ready"})
        BY <4>1, <4>2, MarkChanges
      <4> QED BY <4>1, <4>3 DEF Changes, Fields, Scheduler
    <3> QED BY <1>11, <3>1, <3>2 DEF DbAfter
  <2>2. main.after = "db" /\ main'.after = "none"
    BY <1>11 DEF DbAfter, Idle
  <2> QED BY <1>11, <2>1, <2>2, SchedulingData DEF DbAfter, data
<1>12. CASE DbFromMain
  <2>1. PICK action \in {"read", "write"} :
            dev' = MarkReady([dev EXCEPT !.g_db_action = action], "DB")
    BY <1>12 DEF DbFromMain
  <2>2. /\ Changes(dev, dev', Scheduler \cup {"fault"}) /\ dev'.cplt = dev.cplt
        /\ dev'.g_emmc_user = dev.g_emmc_user
    <3> DEFINE c == [dev EXCEPT !.g_db_action = action]
    <3>1. Changes(dev, c, {"g_db_action"}) /\ IsDev(c)
      BY <1>1 DEF Changes, IsDev, Fields
    <3>2. dev' = MarkReady(c, "DB")
      BY <2>1
    <3> HIDE DEF c
    <3>3. Changes(c, dev', {"fault", "ready"})
      BY <3>1, <3>2, MarkChanges
    <3> QED BY <3>1, <3>3 DEF Changes, Fields, Scheduler
  <2>3. main'.after = main.after /\ UNCHANGED <<medium, content, host, known>>
    BY <1>1, <1>12 DEF DbFromMain, Goto, MainType, data
  <2> QED BY <2>2, <2>3, SchedulingData
<1>13. CASE DbFromInterrupt
  <2>1. PICK action \in {"read", "write"} :
            dev' = emmc_user_queue([dev EXCEPT !.g_db_action = action], "DB")
    BY <1>13 DEF DbFromInterrupt
  <2>2. /\ Changes(dev, dev', Scheduler \cup {"fault"}) /\ dev'.cplt = dev.cplt
        /\ UserKept(dev, dev')
    <3> DEFINE c == [dev EXCEPT !.g_db_action = action]
    <3>1. Changes(dev, c, {"g_db_action"}) /\ IsDev(c)
      BY <1>1 DEF Changes, IsDev, Fields
    <3>2. dev' = emmc_user_queue(c, "DB")
      BY <2>1
    <3> HIDE DEF c
    <3>3. Changes(c, dev', Scheduling \cup {"fault"}) /\ UserKept(c, dev')
      BY <3>1, <3>2, QueueChanges, QueueKeepsUser
    <3> QED BY <3>1, <3>3 DEF Changes, Fields, Scheduler, Scheduling, UserKept
  <2>3. main' = main /\ UNCHANGED <<medium, content, host, known>>
    BY <1>13 DEF DbFromInterrupt, data
  <2> QED BY <2>2, <2>3, SchedulingData DEF UserKept
<1>14. CASE usbd_scsi_device_state_change
  <2>1. /\ Changes(dev, dev', {"visible"}) /\ dev'.cplt = dev.cplt
        /\ dev'.g_emmc_user = dev.g_emmc_user
    BY <1>1, <1>14 DEF usbd_scsi_device_state_change, Changes, IsDev, Fields
  <2> QED BY <1>14, <2>1, SchedulingData
    DEF usbd_scsi_device_state_change, MainOnly, data, Changes, Scheduler
<1>15. CASE UNCHANGED vars
  BY <1>1, <1>15, SchedulingData DEF vars, Changes
<1> QED BY <1>2, <1>3, <1>6, <1>7, <1>8, <1>9, <1>10, <1>11, <1>12, <1>13, <1>14, <1>15

LEMMA StallIndices ==
    ASSUME NEW d, IsDev(d), IsRing(d.ring), NEW s, NEW e, e = Stall(d, s) \/ e = d
    PROVE  /\ Changes(d, e, {"ring"}) /\ SameIndices(d.ring, e.ring)
           /\ e.ring.processing = d.ring.processing
<1>1. CASE e = d
  BY <1>1 DEF Changes, SameIndices
<1>2. CASE e = Stall(d, s)
  <2> DEFINE p == bufferFIFO_stallStage(d.ring, s)
  <2>1. SameIndices(d.ring, p) /\ p.processing = d.ring.processing
    BY DEF bufferFIFO_stallStage, IsRing, RingFields, SameIndices
  <2>2. e = [d EXCEPT !.ring = p]
    BY <1>2 DEF Stall
  <2> HIDE DEF p
  <2> QED BY <2>1, <2>2 DEF Changes, IsDev, Fields
<1> QED BY <1>1, <1>2

LEMMA SoundFacts ==
    ASSUME Sound, Exact
    PROVE  /\ Base(dev, main) /\ RingOk(dev, main) /\ dev.fault = {}
           /\ IsDev(dev) /\ DevType(dev) /\ CardOk(dev) /\ MainType(main)
           /\ MainOk(dev, main) /\ BotOk(dev) /\ UsbOk(dev) /\ CryptOk(dev)
           /\ IsRing(dev.ring) /\ IsHost(host) /\ StatusOk(dev, host)
           /\ "reset" \notin dev.disturbed
           /\ DataOk(dev, main, host, medium, content, known)
BY DEF Sound, Exact, Undisturbed, StatusInv, Base, Spared

(* The counters of the eMMC stage move, and its completions are taken. *)
LEMMA CountedData ==
    ASSUME Sound, Exact, Changes(dev, dev', Card \cup {"ring"}),
           SameIndices(dev.ring, dev'.ring), dev'.ring.processing = dev.ring.processing,
           Flying(dev', main', MmcStage(dev)) => Flying(dev, main, MmcStage(dev)),
           CardHasRead(dev', main') => CardHasRead(dev, main),
           ~dev.reading =>
               OnCard(dev) \in Int /\ OnCard(dev') \in Int /\ OnCard(dev') <= OnCard(dev),
           UNCHANGED <<medium, content, host, known>>
    PROVE  Exact'
<1>1. /\ dev'.cbw = dev.cbw /\ dev'.reading = dev.reading /\ dev'.stalledOut = dev.stalledOut
      /\ dev'.bot_state = dev.bot_state /\ dev'.mmcBuffer = dev.mmcBuffer
      /\ dev'.writeLen = dev.writeLen /\ dev'.writeBuffer = dev.writeBuffer
      /\ dev'.epIn = dev.epIn /\ dev'.epOut = dev.epOut /\ dev'.crypt = dev.crypt
      /\ dev'.g_cryptOutInt = dev.g_cryptOutInt /\ dev'.scsi_blk_len = dev.scsi_blk_len
  BY DEF Changes, Fields, Card
<1>2. SameOrder(dev, dev') /\ SameCrypt(dev, dev')
  BY <1>1 DEF SameOrder, SameCrypt, SameIndices
<1>3. MmcStage(dev') = MmcStage(dev)
  BY <1>1 DEF MmcStage, LastStage, SameIndices
<1>4. Unmoved(dev, main, dev', main')
  BY <1>1, <1>2, <1>3 DEF Unmoved, Framed
<1>5. DataOk(dev, main, host, medium, content, known)
  BY DEF Exact
<1> QED BY <1>1, <1>4, <1>5, UnmovedData DEF Exact

(* The completion of the eMMC that passes to RingAfter. *)
LEMMA CardDoneData ==
    ASSUME Sound, Exact, main.pc = "loop", dev.g_emmc_user = "STORAGE", dev.op = NoOp,
           dev.mmcReadLen > 0,
           NEW c, Changes(dev, c, {"cplt", "mmcDataToTransfer", "mmcBlockAddr"}),
           main' = [main EXCEPT !.pc = "done", !.after = "ring"], dev' = StallAtEnd(c),
           ~dev.reading => c.mmcDataToTransfer = dev.mmcDataToTransfer,
           dev.reading => "rx" \in dev.cplt,
           UNCHANGED <<medium, content, host, known>>
    PROVE  Exact'
<1>1. /\ Base(dev, main) /\ RingOk(dev, main) /\ DevType(dev) /\ IsRing(dev.ring)
      /\ MainOk(dev, main)
  BY SoundFacts
<1>2. main.after # "ring"
  BY <1>1 DEF MainOk, Idle
<1>3. /\ dev.ring.processing /\ MmcStage(dev) \in StageIdx
      /\ dev.ring.stageProcessing[MmcStage(dev)]
  BY <1>1, <1>2, PieceLeft
<1>4. c.ring = dev.ring /\ IsDev(c)
  BY DEF Changes, Fields
<1>5. dev' = Stall(c, c.mmcStageIdx) \/ dev' = c
  BY DEF StallAtEnd
<1>6. /\ Changes(c, dev', {"ring"}) /\ SameIndices(dev.ring, dev'.ring)
      /\ dev'.ring.processing = dev.ring.processing
  BY <1>1, <1>4, <1>5, StallIndices
<1>7. Changes(dev, dev', {"cplt", "mmcDataToTransfer", "mmcBlockAddr", "ring"})
  BY <1>6 DEF Changes
<1>8. Flying(dev, main, MmcStage(dev))
  <2>1. MmcStage(dev) \in 0 .. dev.ring.numStages - 1
    <3>1. dev.ring.numStages \in {2, 3} /\ dev.reading \in BOOLEAN
      BY <1>1, <1>3 DEF Base, BotOk, DevType
    <3> QED BY <1>3, <3>1, StagesDiffer, StagesAre
  <2> QED BY <1>3, <2>1, Same DEF Flying, F!InFlight
<1>9. CardHasRead(dev', main') => CardHasRead(dev, main)
  BY <1>7 DEF CardHasRead, Changes, Fields
<1>10. ASSUME ~dev.reading
       PROVE  OnCard(dev) \in Int /\ OnCard(dev') \in Int /\ OnCard(dev') <= OnCard(dev)
  <2>1. /\ dev'.op = NoOp /\ dev'.cbw = dev.cbw
        /\ dev'.mmcDataToTransfer = c.mmcDataToTransfer
    BY <1>6, <1>7 DEF Changes, Fields
  <2>2. ~CardHasWritten(dev) /\ ~CardHasWritten(dev')
    BY <2>1 DEF CardHasWritten, NoOp
  <2> QED BY <1>1, <1>10, <2>1, <2>2 DEF OnCard, DevType
<1>11. Changes(dev, dev', Card \cup {"ring"})
  BY <1>7 DEF Changes, Card
<1> QED BY <1>6, <1>8, <1>9, <1>10, <1>11, CountedData

LEMMA ReadCompleteData == ASSUME Sound, Exact, Sound', ReadComplete PROVE Exact'
<1> DEFINE o == Owned("rx")
           c == Counted(o)
<1>1. /\ IsDev(dev) /\ DevType(dev) /\ CardOk(dev) /\ Undisturbed
  BY SoundFacts DEF Sound
<1>2. /\ main.pc = "loop" /\ "rx" \in dev.cplt /\ UNCHANGED <<medium, content, host, known>>
  BY DEF ReadComplete, At, MainOnly, data
<1>3. /\ dev.g_emmc_user \in {"DB", "STORAGE"} /\ dev.op = NoOp
      /\ Changes(dev, o, {"cplt"}) /\ o.cplt = {} /\ dev.cplt = {"rx"}
  BY <1>1, <1>2, Takes
<1>4. CASE dev.g_emmc_user = "STORAGE"
  <2>1. /\ dev' = StallAtEnd(c)
        /\ main' = [main EXCEPT !.pc = "done", !.after = "ring"]
    BY <1>4 DEF ReadComplete, emmc_user_read_storage_rx_complete
  <2> HIDE DEF o
  <2>2. Changes(o, c, {"mmcDataToTransfer", "mmcBlockAddr"})
    BY <1>3, CountedFacts DEF Changes
  <2> HIDE DEF c
  <2>3. Changes(dev, c, {"cplt", "mmcDataToTransfer", "mmcBlockAddr"})
    BY <1>3, <2>2 DEF Changes, Fields
  <2>4. dev.mmcReadLen > 0 /\ dev.reading
    BY <1>1, <1>2, <1>4 DEF CardOk
  <2> QED BY <1>2, <1>3, <1>4, <2>1, <2>3, <2>4, CardDoneData
<1>5. CASE dev.g_emmc_user = "DB"
  <2>1. dev' = [o EXCEPT !.cplt = @ \cup {"read_db"}] /\ main' = main
    BY <1>5 DEF ReadComplete
  <2> HIDE DEF o
  <2>2. Changes(o, dev', {"cplt"}) /\ dev'.cplt = {"read_db"}
    BY <1>3, <2>1 DEF Changes, IsDev, Fields
  <2>3. /\ Changes(dev, dev', {"cplt"}) /\ dev'.g_emmc_user = dev.g_emmc_user
    BY <1>3, <1>5, <2>2 DEF Changes, Fields
  <2> QED BY <1>2, <2>1, <2>2, <2>3, SchedulingData DEF Changes, Scheduler
<1> QED BY <1>3, <1>4, <1>5

LEMMA WriteCompleteData == ASSUME Sound, Exact, Sound', WriteComplete PROVE Exact'
<1> DEFINE o == Owned("tx")
<1>1. /\ IsDev(dev) /\ DevType(dev) /\ CardOk(dev) /\ Undisturbed
  BY SoundFacts DEF Sound
<1>2. /\ main.pc = "loop" /\ "tx" \in dev.cplt /\ UNCHANGED <<medium, content, host, known>>
  BY DEF WriteComplete, At, MainOnly, data
<1>3. /\ dev.g_emmc_user \in {"DB", "STORAGE"} /\ dev.op = NoOp
      /\ Changes(dev, o, {"cplt"}) /\ o.cplt = {} /\ dev.cplt = {"tx"}
  BY <1>1, <1>2, Takes
<1>4. CASE dev.g_emmc_user = "STORAGE"
  <2>1. /\ dev' = StallAtEnd(o)
        /\ main' = [main EXCEPT !.pc = "done", !.after = "ring"]
    BY <1>4 DEF WriteComplete, emmc_user_write_storage_tx_complete
  <2> HIDE DEF o
  <2>2. Changes(dev, o, {"cplt", "mmcDataToTransfer", "mmcBlockAddr"})
        /\ o.mmcDataToTransfer = dev.mmcDataToTransfer
    BY <1>3 DEF Changes, Fields
  <2>3. dev.mmcReadLen > 0 /\ ~dev.reading
    BY <1>1, <1>2, <1>4 DEF CardOk
  <2> QED BY <1>2, <1>3, <1>4, <2>1, <2>2, <2>3, CardDoneData
<1>5. CASE dev.g_emmc_user = "DB"
  <2>1. dev' = [o EXCEPT !.cplt = @ \cup {"write_db"}] /\ main' = main
    BY <1>5 DEF WriteComplete
  <2> HIDE DEF o
  <2>2. Changes(o, dev', {"cplt"}) /\ dev'.cplt = {"write_db"}
    BY <1>3, <2>1 DEF Changes, IsDev, Fields
  <2>3. /\ Changes(dev, dev', {"cplt"}) /\ dev'.g_emmc_user = dev.g_emmc_user
    BY <1>3, <1>5, <2>2 DEF Changes, Fields
  <2> QED BY <1>2, <2>1, <2>2, <2>3, SchedulingData DEF Changes, Scheduler
<1> QED BY <1>3, <1>4, <1>5

LEMMA WriteDmaCompleteData == ASSUME Sound, Exact, Sound', WriteDmaComplete PROVE Exact'
<1> DEFINE o == Owned("tx_dma")
           c == Counted(o)
<1>1. /\ IsDev(dev) /\ DevType(dev) /\ CardOk(dev) /\ Undisturbed
  BY SoundFacts DEF Sound
<1>2. /\ main.pc = "loop" /\ "tx_dma" \in dev.cplt /\ main' = main
      /\ UNCHANGED <<medium, content, host, known>>
  BY DEF WriteDmaComplete, At, MainOnly, data
<1>3. /\ dev.g_emmc_user \in {"DB", "STORAGE"}
      /\ dev.op \in Operations /\ dev.op.kind = "write_wait"
      /\ Changes(dev, o, {"cplt"}) /\ o.cplt = {} /\ o.op = dev.op /\ dev.cplt = {"tx_dma"}
  BY <1>1, <1>2, Takes
<1>4. CASE dev.g_emmc_user = "STORAGE"
  <2>1. dev' = HAL_MMC_WriteBlocks_DMA_Cont(c)
    BY <1>4 DEF WriteDmaComplete, emmc_user_write_storage_tx_dma_complete
  <2> HIDE DEF o
  <2>2. /\ Changes(o, c, {"mmcDataToTransfer", "mmcBlockAddr"})
        /\ c.mmcDataToTransfer = o.mmcDataToTransfer - o.mmcReadLen
    BY <1>3, CountedFacts DEF Changes
  <2> HIDE DEF c
  <2>3. /\ o.mmcDataToTransfer = dev.mmcDataToTransfer /\ o.mmcReadLen = dev.mmcReadLen
    BY <1>3 DEF Changes, Fields
  <2>4. /\ Changes(dev, c, {"cplt", "mmcDataToTransfer", "mmcBlockAddr"})
        /\ c.op = dev.op
    BY <1>3, <2>2 DEF Changes, Fields
  <2>5. Changes(c, dev', {"op"}) /\ dev'.op.kind = "write_data"
    <3>1. IsDev(c) /\ c.op \in Operations /\ c.op.kind = "write_wait"
      BY <1>3, <2>4 DEF Changes
    <3> QED BY <2>1, <3>1, ContFacts
  <2>6. Changes(dev, dev', Card) /\ dev'.ring = dev.ring
    BY <2>4, <2>5 DEF Changes, Fields, Card
  <2>7. /\ dev'.cbw = dev.cbw /\ dev'.reading = dev.reading
        /\ dev'.mmcDataToTransfer = dev.mmcDataToTransfer - dev.mmcReadLen
    BY <2>2, <2>3, <2>5, <2>6 DEF Changes, Fields, Card
  <2>8. ~dev.reading
    BY <1>1, <1>2, <1>4 DEF CardOk
  <2>9. CardHasWritten(dev) /\ ~CardHasWritten(dev')
    BY <1>3, <1>4, <2>5 DEF CardHasWritten
  <2>10. OnCard(dev) \in Int /\ OnCard(dev') \in Int /\ OnCard(dev') <= OnCard(dev)
    BY <1>1, <2>7, <2>9 DEF OnCard, DevType
  <2>11. ~CardHasRead(dev', main')
    BY <2>7, <2>8 DEF CardHasRead
  <2>12. Flying(dev', main', MmcStage(dev)) => Flying(dev, main, MmcStage(dev))
    BY <1>2, <2>6, <2>7 DEF Flying, Finishing, MmcStage, LastStage
  <2>13. SameIndices(dev.ring, dev'.ring) /\ Changes(dev, dev', Card \cup {"ring"})
    BY <2>6 DEF SameIndices, Changes
  <2> QED BY <1>2, <2>6, <2>10, <2>11, <2>12, <2>13, CountedData
<1>5. CASE dev.g_emmc_user = "DB"
  <2>1. dev' = HAL_MMC_WriteBlocks_DMA_Cont(o)
    BY <1>5 DEF WriteDmaComplete
  <2> HIDE DEF o
  <2>2. Changes(o, dev', {"op"})
    BY <1>3, <2>1, ContFacts DEF Changes
  <2>3. /\ Changes(dev, dev', {"cplt", "op"}) /\ dev'.cplt = {}
        /\ dev'.g_emmc_user = dev.g_emmc_user
    BY <1>3, <1>5, <2>2 DEF Changes, Fields
  <2> QED BY <1>2, <2>3, SchedulingData DEF Changes, Scheduler
<1> QED BY <1>3, <1>4, <1>5

------------------------------------------------------------------------------
(* A stage fills its buffer. *)

LEMMA PieceAt ==
    ASSUME NEW d, NEW m, Base(d, m), RingOk(d, m), Moving(d), NEW s, Flying(d, m, s)
    PROVE  /\ F!AtChunk(d.ring, d.cbw.len, StageLeft(d), StageLen(d), Finishing(d, m), s,
                       Gone(d, s))
           /\ F!RingInv(d.ring, d.cbw.len, StageLeft(d), StageLen(d), Finishing(d, m))
           /\ d.ring.numStages \in {2, 3} /\ d.reading \in BOOLEAN /\ d.ring \in FifoStruct
<1>1. d.ring.processing /\ d.cbw.len \in Nat /\ d.cbw.len > 0
  BY DEF Moving, Base, DevType
<1>2. F!RingInv(d.ring, d.cbw.len, StageLeft(d), StageLen(d), Finishing(d, m))
  BY <1>1 DEF RingOk
<1> QED
  BY <1>1, <1>2, RingConstants, F!ChunkOfStage DEF Flying, Gone, Base, BotOk, DevType

(* The buffers of the card and the AES unit are those of stages in flight. *)
LEMMA BusyFlies ==
    ASSUME NEW d, NEW m, Base(d, m), d.ring.processing
    PROVE  /\ MmcBusy(d, m) => Flying(d, m, MmcStage(d))
           /\ CardHasRead(d, m) => MmcStage(d) = 0 /\ Flying(d, m, 0)
           /\ UsbBusy(d) => Flying(d, m, UsbStage(d))
           /\ CryptBusy(d) => Flying(d, m, 1) /\ LastStage(d) = 2
                              /\ MmcStage(d) # 1 /\ UsbStage(d) # 1
<1>1. d.ring.numStages \in {2, 3} /\ d.reading \in BOOLEAN
  BY DEF Base, BotOk, DevType
<1>2. /\ MmcStage(d) \in 0 .. d.ring.numStages - 1 /\ UsbStage(d) \in 0 .. d.ring.numStages - 1
      /\ MmcStage(d) = 0 <=> d.reading
      /\ d.ring.numStages = 3 => MmcStage(d) # 1 /\ UsbStage(d) # 1
  BY <1>1, StagesDiffer, StagesAre
<1>3. MmcBusy(d, m) => Flying(d, m, MmcStage(d))
  <2>1. MmcBusy(d, m) => d.ring.stageProcessing[MmcStage(d)] \/ MmcStage(d) \in Finishing(d, m)
    BY DEF Base, MmcOk, Finishing
  <2> QED BY <1>2, <2>1, Same DEF Flying, F!InFlight
<1>4. CardHasRead(d, m) => MmcBusy(d, m) /\ d.reading
  BY DEF CardHasRead, MmcBusy
<1>5. UsbBusy(d) => Flying(d, m, UsbStage(d))
  BY <1>2, Same DEF Base, UsbOk, Flying, F!InFlight
<1>6. CryptBusy(d) => Flying(d, m, 1) /\ LastStage(d) = 2 /\ MmcStage(d) # 1 /\ UsbStage(d) # 1
  BY <1>2, Same DEF Base, CryptOk, Flying, F!InFlight, LastStage
<1> QED BY <1>2, <1>3, <1>4, <1>5, <1>6

LEMMA WritesElsewhere ==
    ASSUME NEW d, NEW m, Base(d, m), RingOk(d, m), Moving(d),
           NEW s, Flying(d, m, s), s # LastStage(d),
           NEW h, NEW md, NEW ct, NEW kn, TransferOk(d, m, h, md, ct, kn),
           NEW ct2, \A b \in Buffers \ {WriteBuffer(d.ring, s)} : ct2[b] = ct[b]
    PROVE  /\ ChunksOk(d, ct2, kn)
           /\ CardHasRead(d, m) /\ s # 0 =>
                 Holds(d, kn, ct2[WriteBuffer(d.ring, 0)], 0, Gone(d, 0), Chunk(d, Gone(d, 0)))
           /\ CryptBusy(d) /\ s # 1 =>
                 Holds(d, kn, ct2[WriteBuffer(d.ring, 1)], 1, Gone(d, 1), SectorsOut(d))
<1>1. /\ F!RingInv(d.ring, d.cbw.len, StageLeft(d), StageLen(d), Finishing(d, m))
      /\ d.ring.numStages \in {2, 3} /\ d.ring \in FifoStruct /\ d.ring.processing
  BY PieceAt DEF Moving
<1>2. s # d.ring.numStages - 1 /\ F!InFlight(d.ring, Finishing(d, m), s)
  BY DEF LastStage, Flying
<1>3. /\ \A t \in (0 .. d.ring.numStages - 1) \ {0} : \A k \in F!Between(d.ring, t) :
            F!BufferOf(d.ring, t, k) # WriteBuffer(d.ring, s)
      /\ \A u : F!InFlight(d.ring, Finishing(d, m), u) /\ u # s =>
            WriteBuffer(d.ring, s) # WriteBuffer(d.ring, u)
  BY <1>1, <1>2, Same, RingConstants, MassStorageAssumption, F!WritesNoChunk
<1>4. ChunksOk(d, ct, kn) /\ PiecesOk(d, m, ct, kn)
  BY DEF TransferOk
<1>5. ASSUME NEW t \in (0 .. LastStage(d)) \ {0}, NEW k \in F!Between(d.ring, t)
      PROVE  Holds(d, kn, ct2[F!BufferOf(d.ring, t, k)], t - 1, k, Chunk(d, k))
  <2>1. t \in (0 .. d.ring.numStages - 1) \ {0}
    BY DEF LastStage
  <2>2. F!BufferOf(d.ring, t, k) \in Buffers
    <3>1. F!Passed(d.ring, t) \in Nat /\ F!Passed(d.ring, t - 1) \in Nat
      <4>1. t - 1 \in 0 .. d.ring.numStages - 1
        BY <1>1, <2>1
      <4> QED BY <1>1, <2>1, <4>1, RingConstants, F!StageIndices
    <3>2. k \in Nat
      BY <3>1 DEF F!Between
    <3>3. F!FirstReadIndex(d.ring.numStages, t) \in Nat
      BY <1>1, <2>1 DEF F!FirstReadIndex
    <3>4. F!FirstReadIndex(d.ring.numStages, t) + k \in Nat
      BY <3>2, <3>3
    <3> QED BY <3>4, RingConstants DEF F!BufferOf, Buffers
  <2>3. F!BufferOf(d.ring, t, k) # WriteBuffer(d.ring, s)
    BY <1>3, <2>1
  <2>4. Holds(d, kn, ct[F!BufferOf(d.ring, t, k)], t - 1, k, Chunk(d, k))
    BY <1>4 DEF ChunksOk
  <2> QED BY <2>2, <2>3, <2>4
<1>6. ASSUME NEW u \in {0, 1}, Flying(d, m, u), u # s
      PROVE  ct2[WriteBuffer(d.ring, u)] = ct[WriteBuffer(d.ring, u)]
  <2>1. WriteBuffer(d.ring, u) \in Buffers
    BY <1>1, RingSizes, StagesAre
  <2> QED BY <1>3, <1>6, <2>1 DEF Flying
<1>7. /\ CardHasRead(d, m) => Flying(d, m, 0)
      /\ CryptBusy(d) => Flying(d, m, 1)
  BY <1>1, BusyFlies
<1> QED BY <1>4, <1>5, <1>6, <1>7 DEF ChunksOk, PiecesOk

(* Where the volumes are. *)
LEMMA VolumeArithmetic ==
    ASSUME NEW lun \in Luns
    PROVE  /\ region_start(lun) \in Nat /\ Capacity(lun) \in Nat
           /\ \A a \in 0 .. Capacity(lun) - 1 : region_start(lun) + a \in 0 .. CardSectors - 1
           /\ \A l \in Luns : \A a \in 0 .. Capacity(lun) - 1, b \in 0 .. Capacity(l) - 1 :
                 region_start(lun) + a = region_start(l) + b => l = lun /\ a = b
BY MassStorageAssumption
DEF region_start, Capacity, CardSectors, Luns, EMMC_STORAGE_FIRST_BLOCK

(* A READ brings what the card holds. *)
LEMMA ReadEndsData == ASSUME Sound, Exact, Sound', ReadEnds PROVE Exact'
<1>1. /\ Base(dev, main) /\ RingOk(dev, main) /\ IsDev(dev) /\ DevType(dev) /\ CardOk(dev)
      /\ MainOk(dev, main) /\ MainType(main) /\ StatusOk(dev, host) /\ "reset" \notin dev.disturbed
      /\ DataOk(dev, main, host, medium, content, known)
  BY SoundFacts
<1>2. /\ dev.op.kind = "read" /\ dev.op.len > 0
      /\ content' = IF dev.op.buf = -1 THEN content
                    ELSE [content EXCEPT ![dev.op.buf] =
                            [i \in 1 .. BufSectors |->
                               IF i <= dev.op.len THEN medium[dev.op.addr + i - 1] ELSE @[i]]]
      /\ dev' = [dev EXCEPT !.op = NoOp, !.cplt = @ \cup {"rx"}]
      /\ main' = main /\ medium' = medium /\ host' = host /\ known' = known
  BY DEF ReadEnds, Flag
<1>3. /\ Changes(dev, dev', {"op", "cplt"}) /\ dev'.op = NoOp /\ dev'.cplt = dev.cplt \cup {"rx"}
      /\ dev'.ring = dev.ring /\ dev'.cbw = dev.cbw /\ dev'.reading = dev.reading
      /\ dev'.g_emmc_user = dev.g_emmc_user /\ dev'.scsi_blk_len = dev.scsi_blk_len
      /\ dev'.epIn = dev.epIn /\ dev'.epOut = dev.epOut /\ dev'.bot_state = dev.bot_state
  BY <1>1, <1>2 DEF Changes, IsDev, Fields
<1>4. dev.op # NoOp /\ dev.g_emmc_user \in {"DB", "STORAGE"} /\ dev.cplt = {}
  BY <1>1, <1>2 DEF CardOk, Doing, NoOp, DevType, Users
<1>5. CASE dev.g_emmc_user = "DB"
  <2>1. content' = content
    BY <1>1, <1>2, <1>4, <1>5 DEF CardOk
  <2>2. Unmoved(dev, main, dev', main')
    <3>1. SameOrder(dev, dev') /\ SameIndices(dev.ring, dev'.ring) /\ SameCrypt(dev, dev')
          /\ dev'.mmcBuffer = dev.mmcBuffer /\ dev'.writeLen = dev.writeLen
          /\ dev'.writeBuffer = dev.writeBuffer /\ MmcStage(dev') = MmcStage(dev)
      BY <1>3 DEF SameOrder, SameIndices, SameCrypt, Changes, Fields, MmcStage, LastStage
    <3>2. Flying(dev', main', MmcStage(dev')) => Flying(dev, main, MmcStage(dev))
      BY <1>2, <1>3, <3>1 DEF Flying, Finishing
    <3>3. CardHasRead(dev', main') => CardHasRead(dev, main)
      BY <1>2, <1>3, <1>5 DEF CardHasRead
    <3>4. OnCard(dev) \in Int /\ OnCard(dev') = OnCard(dev)
      <4>1. dev'.mmcDataToTransfer = dev.mmcDataToTransfer
        BY <1>3 DEF Changes, Fields
      <4> QED BY <1>1, <1>3, <1>5, <4>1 DEF OnCard, CardHasWritten, DevType
    <3> QED BY <1>3, <3>1, <3>2, <3>3, <3>4 DEF Unmoved, Framed
  <2> QED BY <1>1, <1>2, <1>3, <2>1, <2>2, UnmovedData DEF Exact
<1>6. CASE dev.g_emmc_user = "STORAGE"
  <2>1. /\ dev.op.len = dev.mmcReadLen /\ dev.op.buf = dev.mmcBuffer /\ dev.reading
        /\ dev.op.buf # -1 /\ dev.op \in Operations
    BY <1>1, <1>2, <1>4, <1>6 DEF CardOk, DevType
  <2>2. main.after # "ring"
    BY <1>1, <1>4, <1>6 DEF MainOk, Doing
  <2>3. /\ dev.ring.processing /\ dev.cbw.len > 0 /\ Finishing(dev, main) = {}
    BY <1>1, <1>2, <1>6, <2>1, <2>2, PieceLeft
  <2>4. Moving(dev) /\ MmcBusy(dev, main)
    BY <1>6, <2>3 DEF Moving, MmcBusy
  <2>5. TransferOk(dev, main, host, medium, content, known)
    BY <1>1, <2>4 DEF DataOk
  <2>6. Flying(dev, main, 0) /\ MmcStage(dev) = 0
    <3>1. MmcStage(dev) = 0
      BY <2>1 DEF MmcStage
    <3> QED BY <1>1, <2>3, <2>4, <3>1, BusyFlies
  <2> DEFINE k == Gone(dev, 0)
             w == WriteBuffer(dev.ring, 0)
             n == dev.mmcReadLen
             c == dev.cbw
  <2>7. /\ F!AtChunk(dev.ring, c.len, StageLeft(dev), StageLen(dev), {}, 0, k)
        /\ dev.ring.numStages \in {2, 3} /\ dev.ring \in FifoStruct
    BY <1>1, <2>3, <2>4, <2>6, PieceAt
  <2>8. /\ n = Chunk(dev, k) /\ n \in 1 .. BufSectors /\ k \in Nat
        /\ StageLeft(dev)[0] = c.len - k * BufSectors
    <3>1. StageLen(dev)[0] = n
      BY <2>6, StagesAre DEF StageLen
    <3> QED BY <2>7, <3>1 DEF F!AtChunk, Chunk
  <2>9. dev.mmcBuffer = w /\ w \in Buffers
    <3>1. w \in Buffers
      BY <2>7, RingSizes, StagesAre
    <3> QED BY <2>1, <2>5, <2>6, <3>1 DEF TransferOk, PlacesOk, MmcPlace
  <2>10. /\ c.lun \in Luns /\ c.lba \in Nat /\ c.len \in Nat /\ c.lba + c.len <= Capacity(c.lun)
         /\ dev.op.addr = region_start(c.lun) + c.lba + c.len - MmcLeft(dev)
    <3>1. VolumeOk(dev)
      BY <2>3 DEF Sound
    <3> QED BY <1>4, <1>6, <3>1 DEF VolumeOk, Fits, InPlace
  <2>11. /\ MmcLeft(dev) = c.len - k * BufSectors /\ n <= c.len - k * BufSectors
         /\ k * BufSectors \in Nat /\ MmcLeft(dev) \in Int
    <3>1. MmcLeft(dev) = StageLeft(dev)[0]
      BY <2>6, StagesAre DEF MmcLeft, StageLeft
    <3>2. n <= MmcLeft(dev)
      BY <1>1, <1>2, <1>6, <2>1, <2>2, PieceLeft DEF MmcLeft
    <3>3. k * BufSectors \in Nat
      BY <2>8, RingConstants
    <3> QED BY <2>8, <2>10, <3>1, <3>2, <3>3
  <2>12. c = host.cmd /\ host.cmd.kind = "read"
    <3>1. c = host.cmd
      BY <1>1, <2>3 DEF StatusOk
    <3> QED BY <2>1, <2>5, <3>1 DEF TransferOk, OrderOk
  <2> HIDE DEF k, w, n, c
  <2>13. ASSUME NEW i \in 1 .. n
         PROVE  content'[w][i] = Leaves(dev, known, 0, c.lba + k * BufSectors + i - 1)
    <3> DEFINE at == c.lba + k * BufSectors + i - 1
    <3>1. content'[w][i] = medium[dev.op.addr + i - 1]
      <4>1. w \in DOMAIN content
        BY <2>9 DEF Sound, Domains
      <4>2. i \in 1 .. BufSectors /\ i <= dev.op.len
        BY <2>1, <2>8, RingConstants DEF n
      <4> QED BY <1>2, <2>1, <2>9, <4>1, <4>2
    <3>2. at \in 0 .. Capacity(c.lun) - 1 /\ dev.op.addr + i - 1 = region_start(c.lun) + at
      <4>1. region_start(c.lun) \in Nat /\ Capacity(c.lun) \in Nat
        BY <2>10, VolumeArithmetic
      <4>2. dev.op.addr = region_start(c.lun) + c.lba + k * BufSectors
        BY <2>10, <2>11, <4>1
      <4>3. k * BufSectors + i <= c.len
        BY <2>8, <2>10, <2>11
      <4> QED BY <2>10, <2>11, <4>1, <4>2, <4>3
    <3> HIDE DEF at
    <3>3. ~Replacing(dev, host, c.lun, at)
      BY <2>12 DEF Replacing
    <3>4. medium[region_start(c.lun) + at] = Stored(c.lun, at, known[c.lun][at])
      BY <1>1, <2>10, <3>2, <3>3 DEF DataOk, CardOf
    <3>5. Stored(c.lun, at, known[c.lun][at]) = Leaves(dev, known, 0, at)
      BY <2>1 DEF Stored, Leaves, Version, c
    <3> QED BY <3>1, <3>2, <3>4, <3>5 DEF at
  <2>14. Holds(dev, known, content'[w], 0, k, n)
    BY <2>13 DEF Holds, c
  <2>15. \A b \in Buffers \ {w} : content'[b] = content[b]
    BY <1>2, <2>1, <2>9 DEF Sound, Domains
  <2>16. 0 # LastStage(dev)
    BY <2>7 DEF LastStage
  <2>17. /\ ChunksOk(dev, content', known)
         /\ CryptBusy(dev) =>
               Holds(dev, known, content'[WriteBuffer(dev.ring, 1)], 1, Gone(dev, 1),
                     SectorsOut(dev))
    <3>1. /\ ChunksOk(dev, content', known)
          /\ CryptBusy(dev) /\ 0 # 1 =>
               Holds(dev, known, content'[WriteBuffer(dev.ring, 1)], 1, Gone(dev, 1),
                     SectorsOut(dev))
      BY <1>1, <2>4, <2>5, <2>6, <2>15, <2>16, WritesElsewhere DEF w
    <3> QED BY <3>1
  <2>18. /\ dev'.mmcBuffer = dev.mmcBuffer /\ dev'.writeLen = dev.writeLen
         /\ dev'.writeBuffer = dev.writeBuffer /\ SameCrypt(dev, dev')
         /\ SameOrder(dev, dev')
    BY <1>3 DEF Changes, Fields, SameCrypt, SameOrder
  <2>19. /\ OrderOk(dev') /\ LastStage(dev') = LastStage(dev) /\ MmcStage(dev') = MmcStage(dev)
         /\ \A x, s, j, i : Holds(dev, known, x, s, j, i) => Holds(dev', known, x, s, j, i)
         /\ \A j : Chunk(dev', j) = Chunk(dev, j)
         /\ Ends(dev') = Ends(dev)
    BY <2>5, <2>18, OrderGives DEF TransferOk
  <2>20. MmcPlace(dev', main') /\ UsbPlace(dev')
    <3>1. Flying(dev', main', MmcStage(dev')) => Flying(dev, main, MmcStage(dev))
      BY <1>2, <1>3, <2>19 DEF Flying, Finishing
    <3> QED BY <1>3, <2>5, <2>18, <2>19, <3>1 DEF TransferOk, PlacesOk, MmcPlace, UsbPlace
  <2>21. CryptBusy(dev') = CryptBusy(dev) /\ SectorsIn(dev') = SectorsIn(dev)
         /\ SectorsOut(dev') = SectorsOut(dev) /\ dev'.crypt = dev.crypt
    BY <2>18 DEF SameCrypt, CryptBusy, SectorsIn, SectorsOut
  <2>22. CryptPlace(dev')
    BY <1>3, <2>5, <2>19, <2>21 DEF TransferOk, PlacesOk, CryptPlace
  <2>23. ChunksOk(dev', content', known)
    BY <1>3, <2>17, <2>19 DEF ChunksOk
  <2>24. PiecesOk(dev', main', content', known)
    BY <1>3, <2>8, <2>14, <2>17, <2>19, <2>21 DEF PiecesOk, Gone, k, w
  <2>25. HostHas(dev', host, known)
    BY <1>3, <2>1, <2>5 DEF TransferOk, HostHas, Delivered
  <2>26. TransferOk(dev', main', host', medium', content', known')
    BY <1>2, <1>3, <2>1, <2>19, <2>20, <2>22, <2>23, <2>24, <2>25 DEF TransferOk, PlacesOk
  <2>27. CardOf(dev', host', medium', known') /\ DoneOk(dev', host', medium', known')
    BY <1>1, <1>2, <1>3 DEF DataOk, CardOf, DoneOk, Replacing, PassedNow
  <2> QED BY <2>26, <2>27 DEF Exact, DataOk
<1> QED BY <1>4, <1>5, <1>6

(* A WRITE brings the card what the last buffer holds. *)
LEMMA WriteDmaEndsData == ASSUME Sound, Exact, Sound', WriteDmaEnds PROVE Exact'
<1>1. /\ Base(dev, main) /\ RingOk(dev, main) /\ IsDev(dev) /\ DevType(dev) /\ CardOk(dev)
      /\ MainOk(dev, main) /\ MainType(main) /\ StatusOk(dev, host) /\ "reset" \notin dev.disturbed
      /\ DataOk(dev, main, host, medium, content, known) /\ BotOk(dev)
  BY SoundFacts
<1>2. /\ dev.op.kind = "write" /\ dev.op.len > 0
      /\ dev' = [dev EXCEPT !.op.kind = "write_wait", !.cplt = @ \cup {"tx_dma"}]
      /\ medium' = IF dev.op.buf = -1 THEN medium
                   ELSE [a \in DOMAIN medium |->
                           IF a \in Sectors(dev.op)
                             THEN content[dev.op.buf][a - dev.op.addr + 1] ELSE medium[a]]
      /\ main' = main /\ content' = content /\ host' = host /\ known' = known
  BY DEF WriteDmaEnds
<1>3. /\ Changes(dev, dev', {"op", "cplt"}) /\ dev'.cplt = dev.cplt \cup {"tx_dma"}
      /\ dev'.op = [dev.op EXCEPT !.kind = "write_wait"]
      /\ dev'.ring = dev.ring /\ dev'.cbw = dev.cbw /\ dev'.reading = dev.reading
      /\ dev'.g_emmc_user = dev.g_emmc_user /\ dev'.scsi_blk_len = dev.scsi_blk_len
      /\ dev'.epIn = dev.epIn /\ dev'.epOut = dev.epOut /\ dev'.bot_state = dev.bot_state
      /\ dev'.mmcDataToTransfer = dev.mmcDataToTransfer /\ dev'.mmcReadLen = dev.mmcReadLen
  BY <1>1, <1>2 DEF Changes, IsDev, Fields
<1>4. /\ dev.op # NoOp /\ dev.g_emmc_user \in {"DB", "STORAGE"} /\ dev.cplt = {}
      /\ dev.op \in Operations
  BY <1>1, <1>2 DEF CardOk, Doing, NoOp, DevType, Users
<1>5. dev'.op.kind = "write_wait"
  BY <1>3, <1>4 DEF Operations
<1>6. /\ SameOrder(dev, dev') /\ SameIndices(dev.ring, dev'.ring) /\ SameCrypt(dev, dev')
      /\ dev'.mmcBuffer = dev.mmcBuffer /\ dev'.writeLen = dev.writeLen
      /\ dev'.writeBuffer = dev.writeBuffer /\ MmcStage(dev') = MmcStage(dev)
  BY <1>3 DEF SameOrder, SameIndices, SameCrypt, Changes, Fields, MmcStage, LastStage
<1>7. Flying(dev', main', MmcStage(dev')) => Flying(dev, main, MmcStage(dev))
  BY <1>2, <1>3, <1>6 DEF Flying, Finishing
<1>8. CardHasRead(dev', main') => CardHasRead(dev, main)
  BY <1>2, <1>3 DEF CardHasRead
<1>9. Framed(dev, main, dev', main')
  BY <1>3, <1>6, <1>7, <1>8 DEF Framed
<1>10. CASE dev.g_emmc_user = "DB"
  <2>1. medium' = medium
    BY <1>1, <1>2, <1>4, <1>10 DEF CardOk
  <2>2. OnCard(dev) \in Int /\ OnCard(dev') = OnCard(dev)
    BY <1>1, <1>3, <1>10 DEF OnCard, CardHasWritten, DevType
  <2>3. Unmoved(dev, main, dev', main')
    BY <1>3, <1>6, <1>9, <2>2 DEF Unmoved
  <2> QED BY <1>1, <1>2, <1>3, <2>1, <2>3, UnmovedData DEF Exact
<1>11. CASE dev.g_emmc_user = "STORAGE"
  <2>1. /\ dev.op.len = dev.mmcReadLen /\ dev.op.buf = dev.mmcBuffer /\ ~dev.reading
        /\ dev.op.buf # -1
    BY <1>1, <1>2, <1>4, <1>11 DEF CardOk, DevType
  <2>2. main.after # "ring"
    BY <1>1, <1>4, <1>11 DEF MainOk, Doing
  <2>3. /\ dev.ring.processing /\ dev.cbw.len > 0 /\ Finishing(dev, main) = {}
    BY <1>1, <1>2, <1>11, <2>1, <2>2, PieceLeft
  <2>4. Moving(dev) /\ MmcBusy(dev, main)
    BY <1>11, <2>3 DEF Moving, MmcBusy
  <2>5. TransferOk(dev, main, host, medium, content, known)
    BY <1>1, <2>4 DEF DataOk
  <2> DEFINE M == MmcStage(dev)
             k == Gone(dev, M)
             n == dev.mmcReadLen
             c == dev.cbw
  <2>6. Flying(dev, main, M) /\ M = LastStage(dev)
    <3>1. M = LastStage(dev)
      BY <2>1 DEF MmcStage
    <3> QED BY <1>1, <2>3, <2>4, <3>1, BusyFlies
  <2>7. /\ F!AtChunk(dev.ring, c.len, StageLeft(dev), StageLen(dev), {}, M, k)
        /\ dev.ring.numStages \in {2, 3} /\ dev.ring \in FifoStruct
    BY <1>1, <2>3, <2>4, <2>6, PieceAt
  <2>8. M = dev.ring.numStages - 1 /\ M \in {1, 2} /\ M \in StageIdx
    BY <2>6, <2>7, StagesAre DEF LastStage
  <2>9. /\ n = Chunk(dev, k) /\ n \in 1 .. BufSectors /\ k \in Nat
        /\ StageLeft(dev)[M] = c.len - k * BufSectors
        /\ k \in F!Between(dev.ring, M) /\ F!BufferOf(dev.ring, M, k) = ReadBuffer(dev.ring, M)
    <3>1. StageLen(dev)[M] = n
      BY <2>8 DEF StageLen
    <3> QED BY <2>7, <2>8, <3>1, Same DEF F!AtChunk, Chunk
  <2>10. /\ c.lun \in Luns /\ c.lba \in Nat /\ c.len \in Nat /\ c.lba + c.len <= Capacity(c.lun)
         /\ dev.op.addr = region_start(c.lun) + c.lba + c.len - MmcLeft(dev)
    <3>1. VolumeOk(dev)
      BY <2>3 DEF Sound
    <3> QED BY <1>4, <1>11, <3>1 DEF VolumeOk, Fits, InPlace
  <2>11. /\ MmcLeft(dev) = c.len - k * BufSectors /\ n <= c.len - k * BufSectors
         /\ k * BufSectors \in Nat /\ MmcLeft(dev) = dev.mmcDataToTransfer
    <3>1. MmcLeft(dev) = StageLeft(dev)[M]
      BY <2>8 DEF MmcLeft, StageLeft
    <3>2. n <= MmcLeft(dev)
      BY <1>1, <1>2, <1>11, <2>1, <2>2, PieceLeft DEF MmcLeft
    <3>3. k * BufSectors \in Nat
      BY <2>9, RingConstants
    <3>4. MmcLeft(dev) = dev.mmcDataToTransfer
      BY <1>1, <1>2, <1>4 DEF MmcLeft, CountedAhead, DevType
    <3> QED BY <2>9, <2>10, <3>1, <3>2, <3>3, <3>4
  <2>12. c = host.cmd /\ host.cmd.kind = "write" /\ host.waiting
    <3>1. c = host.cmd /\ host.waiting
      BY <1>1, <2>3 DEF StatusOk
    <3> QED BY <2>1, <2>5, <3>1 DEF TransferOk, OrderOk
  <2>13. Holds(dev, known, content[dev.mmcBuffer], M - 1, k, n)
    <3>1. dev.mmcBuffer = F!BufferOf(dev.ring, M, k)
      BY <2>1, <2>5, <2>6, <2>9 DEF TransferOk, PlacesOk, MmcPlace
    <3>2. M \in (0 .. LastStage(dev)) \ {0}
      BY <2>6, <2>8
    <3> QED BY <2>5, <2>9, <3>1, <3>2 DEF TransferOk, ChunksOk
  <2>14. ~Encrypted(c.lun) \/ M = 2
    BY <2>5, <2>8 DEF TransferOk, OrderOk, StageCount
  <2>15. \A at : Leaves(dev, known, M - 1, at) = Stored(c.lun, at, c.tag)
    BY <2>1, <2>8, <2>14 DEF Leaves, Version, Stored
  <2> HIDE DEF M, k, n, c
  <2>16. /\ region_start(c.lun) \in Nat /\ Capacity(c.lun) \in Nat
         /\ \A a \in 0 .. Capacity(c.lun) - 1 : region_start(c.lun) + a \in 0 .. CardSectors - 1
         /\ \A l \in Luns : \A a \in 0 .. Capacity(c.lun) - 1, b \in 0 .. Capacity(l) - 1 :
               region_start(c.lun) + a = region_start(l) + b => l = c.lun /\ a = b
    BY <2>10, VolumeArithmetic
  <2>17. dev.op.addr = region_start(c.lun) + (c.lba + k * BufSectors) /\ dev.op.addr \in Nat
    BY <2>10, <2>11, <2>16
  <2>18. /\ DOMAIN medium = 0 .. CardSectors - 1
         /\ \A a \in 0 .. CardSectors - 1 :
              medium'[a] = IF a \in dev.op.addr .. dev.op.addr + n - 1
                             THEN content[dev.mmcBuffer][a - dev.op.addr + 1] ELSE medium[a]
    BY <1>2, <2>1 DEF Sectors, Sound, Domains, n
  <2>19. ASSUME NEW j \in 0 .. k * BufSectors + n - 1
         PROVE  medium'[region_start(c.lun) + (c.lba + j)] = Stored(c.lun, c.lba + j, c.tag)
    <3> DEFINE a == region_start(c.lun) + (c.lba + j)
    <3>1. j \in Nat /\ n \in Nat /\ j < c.len /\ c.lba + j \in 0 .. Capacity(c.lun) - 1
      BY <2>9, <2>10, <2>11, <2>16
    <3>2. a \in 0 .. CardSectors - 1
      BY <2>16, <3>1
    <3>3. CASE j >= k * BufSectors
      <4> DEFINE i == j - k * BufSectors + 1
      <4>1. i \in 1 .. n /\ c.lba + k * BufSectors + i - 1 = c.lba + j
        BY <2>10, <2>11, <3>1, <3>3
      <4>2. a \in dev.op.addr .. dev.op.addr + n - 1 /\ a - dev.op.addr + 1 = i
        BY <2>10, <2>11, <2>16, <2>17, <3>1, <3>3
      <4>3. medium'[a] = content[dev.mmcBuffer][i]
        BY <2>18, <3>2, <4>2
      <4> HIDE DEF i
      <4>4. content[dev.mmcBuffer][i] = Leaves(dev, known, M - 1, c.lba + j)
        BY <2>13, <4>1 DEF Holds, c
      <4> QED BY <2>15, <4>3, <4>4
    <3>4. CASE j < k * BufSectors
      <4>1. a \notin dev.op.addr .. dev.op.addr + n - 1
        BY <2>10, <2>11, <2>16, <2>17, <3>1, <3>4
      <4>2. medium'[a] = medium[a]
        BY <2>18, <3>2, <4>1
      <4>3. OnCard(dev) = k * BufSectors
        <5>1. ~CardHasWritten(dev)
          BY <1>2 DEF CardHasWritten
        <5> QED BY <2>10, <2>11, <5>1 DEF OnCard, c
      <4>4. j \in 0 .. OnCard(dev) - 1
        BY <2>11, <3>1, <3>4, <4>3
      <4>5. medium[a] = Stored(c.lun, c.lba + j, c.tag)
        BY <2>1, <2>5, <4>4 DEF TransferOk, WrittenUpTo, c
      <4> QED BY <4>2, <4>5
    <3> QED BY <2>11, <3>1, <3>3, <3>4
  <2>20. ~dev'.reading => WrittenUpTo(medium', dev'.cbw, OnCard(dev'))
    <3>1. CardHasWritten(dev')
      BY <1>3, <1>5, <1>11 DEF CardHasWritten
    <3>2. OnCard(dev') = k * BufSectors + n
      BY <1>3, <2>9, <2>10, <2>11, <3>1 DEF OnCard, c, n
    <3>3. WrittenUpTo(medium', c, k * BufSectors + n)
      <4>1. n \in Nat /\ k * BufSectors \in Nat
        BY <2>9, <2>11
      <4> QED BY <2>19, <4>1 DEF WrittenUpTo
    <3> QED BY <1>3, <3>2, <3>3 DEF c
  <2>21. HostHas(dev', host, known)
    BY <1>3, <2>1, <2>5 DEF TransferOk, HostHas
  <2>22. TransferOk(dev', main', host', medium', content', known')
    BY <1>2, <1>6, <1>9, <2>5, <2>20, <2>21, FramedData
  <2>23. CardOf(dev', host', medium', known')
    <3>1. ASSUME NEW l \in Luns, NEW a \in 0 .. Capacity(l) - 1, ~Replacing(dev, host, l, a)
          PROVE  medium'[region_start(l) + a] = Stored(l, a, known[l][a])
      <4> DEFINE at == region_start(l) + a
      <4>1. at \in 0 .. CardSectors - 1
        BY VolumeArithmetic
      <4>2. medium[at] = Stored(l, a, known[l][a])
        BY <1>1, <3>1 DEF DataOk, CardOf
      <4>3. ASSUME at \in dev.op.addr .. dev.op.addr + n - 1
            PROVE  FALSE
        <5> DEFINE b == at - region_start(c.lun)
        <5>1. n \in Nat /\ region_start(l) \in Nat /\ Capacity(l) \in Nat
          BY <2>9, VolumeArithmetic
        <5>2. at \in Nat
          BY <5>1
        <5>3. b \in c.lba + k * BufSectors .. c.lba + k * BufSectors + n - 1
          BY <2>10, <2>11, <2>16, <2>17, <4>3, <5>1, <5>2
        <5>4. b \in 0 .. Capacity(c.lun) - 1 /\ b \in c.lba .. c.lba + c.len - 1
          BY <2>10, <2>11, <2>16, <5>1, <5>3
        <5>5. region_start(c.lun) + b = region_start(l) + a
          BY <2>16, <5>1
        <5> HIDE DEF b
        <5>6. l = c.lun /\ a = b
          BY <2>16, <5>4, <5>5
        <5> QED BY <2>3, <2>12, <3>1, <5>4, <5>6 DEF Replacing, Covers
      <4> QED BY <2>18, <4>1, <4>2, <4>3
    <3>2. \A l, a : Replacing(dev', host', l, a) <=> Replacing(dev, host, l, a)
      BY <1>2, <1>3 DEF Replacing, PassedNow
    <3> QED BY <1>2, <3>1, <3>2 DEF CardOf
  <2>24. DoneOk(dev', host', medium', known')
    <3>1. ~PassedNow(dev')
      BY <1>1, <1>3, <2>3 DEF BotOk, PassedNow
    <3>2. dev'.bot_state = "SEND_DATA" => host'.cmd.kind \notin {"read", "write"}
      BY <1>1, <1>2, <1>3 DEF DataOk, DoneOk
    <3> QED BY <3>1, <3>2 DEF DoneOk
  <2> QED BY <2>22, <2>23, <2>24 DEF Exact, DataOk
<1> QED BY <1>4, <1>10, <1>11

(* The AES unit. *)

(* What is known of the AES unit while it works on a chunk. *)
LEMMA CryptChunk ==
    ASSUME Sound, Exact, CryptBusy(dev), NEW k, k = Gone(dev, 1)
    PROVE  /\ Moving(dev) /\ Flying(dev, main, 1) /\ LastStage(dev) = 2
           /\ TransferOk(dev, main, host, medium, content, known)
           /\ dev.crypt \in Crypts /\ dev.crypt.txLen = Chunk(dev, k)
           /\ dev.crypt.left \in 1 .. dev.crypt.txLen /\ dev.crypt.txLen \in 1 .. BufSectors
           /\ k \in Nat /\ k * BufSectors \in Nat
           /\ dev.crypt.toTransfer = dev.cbw.len - k * BufSectors
           /\ dev.cbw.lun \in Luns /\ Encrypted(dev.cbw.lun)
           /\ dev.cbw.lba \in Nat /\ dev.cbw.len \in Nat
           /\ dev.crypt.from = F!BufferOf(dev.ring, 1, k) /\ k \in F!Between(dev.ring, 1)
           /\ dev.crypt.to = WriteBuffer(dev.ring, 1) /\ dev.crypt.to \in Buffers
           /\ dev.crypt.sector =
                 dev.cbw.lba + k * BufSectors + (dev.crypt.txLen - dev.crypt.left)
           /\ 1 \in StageIdx /\ 1 \notin Finishing(dev, main)
           /\ MmcStage(dev) # 1 /\ UsbStage(dev) # 1
<1>1. /\ Base(dev, main) /\ RingOk(dev, main) /\ DevType(dev) /\ CryptOk(dev)
      /\ DataOk(dev, main, host, medium, content, known)
  BY SoundFacts
<1>2. /\ dev.ring.processing /\ dev.ring.numStages = 3 /\ dev.ring.stageProcessing[1]
      /\ dev.crypt.left \in 1 .. dev.crypt.txLen
  BY <1>1 DEF CryptOk
<1>3. Flying(dev, main, 1) /\ LastStage(dev) = 2 /\ MmcStage(dev) # 1 /\ UsbStage(dev) # 1
  BY <1>1, <1>2, BusyFlies
<1>4. 1 \in StageIdx \ {0}
  BY StagesAre
<1>5. Moving(dev)
  BY <1>1, <1>2, <1>4, NotFrozen DEF Moving
<1>6. TransferOk(dev, main, host, medium, content, known)
  BY <1>1, <1>5 DEF DataOk
<1>7. /\ F!AtChunk(dev.ring, dev.cbw.len, StageLeft(dev), StageLen(dev), Finishing(dev, main), 1, k)
      /\ dev.ring.numStages \in {2, 3} /\ dev.ring \in FifoStruct
  BY <1>1, <1>3, <1>5, PieceAt
<1>8. 1 \notin Finishing(dev, main)
  BY <1>3 DEF Finishing
<1>9. /\ StageLeft(dev)[1] = dev.crypt.toTransfer /\ StageLen(dev)[1] = dev.crypt.txLen
  BY <1>3, <1>4 DEF StageLeft, StageLen
<1>10. /\ k \in Nat /\ k = F!Passed(dev.ring, 1)
       /\ dev.crypt.txLen = Chunk(dev, k) /\ dev.crypt.txLen \in 1 .. BufSectors
       /\ dev.crypt.toTransfer = dev.cbw.len - k * BufSectors
       /\ k \in F!Between(dev.ring, 1)
       /\ F!BufferOf(dev.ring, 1, k) = ReadBuffer(dev.ring, 1)
  BY <1>7, <1>8, <1>9, Same DEF F!AtChunk, Chunk
<1>11. /\ OrderOk(dev) /\ CryptPlace(dev)
  BY <1>6 DEF TransferOk, PlacesOk
<1>12. dev.cbw.lun \in Luns /\ Encrypted(dev.cbw.lun) /\ dev.cbw.lba \in Nat /\ dev.cbw.len \in Nat
  BY <1>1, <1>2, <1>11 DEF OrderOk, StageCount, DevType
<1>13. /\ dev.crypt.from = ReadBuffer(dev.ring, 1) /\ dev.crypt.to = WriteBuffer(dev.ring, 1)
       /\ dev.crypt.sector = Ends(dev) - dev.crypt.toTransfer + (dev.crypt.txLen - dev.crypt.left)
  BY <1>11, <1>12 DEF CryptPlace, SectorsIn
<1>14. dev.crypt.to \in Buffers
  BY <1>4, <1>7, <1>13, RingSizes
<1>15. k * BufSectors \in Nat /\ BufSectors \in Nat
  BY <1>10, RingConstants
<1>16. dev.crypt \in Crypts /\ dev.crypt.txLen \in Nat /\ dev.crypt.left \in Nat
  BY <1>1 DEF DevType, Crypts
<1>17. dev.crypt.sector = dev.cbw.lba + k * BufSectors + (dev.crypt.txLen - dev.crypt.left)
  BY <1>10, <1>12, <1>13, <1>15, <1>16 DEF Ends
<1> QED
  BY <1>2, <1>3, <1>4, <1>5, <1>6, <1>8, <1>10, <1>12, <1>13, <1>14, <1>15, <1>16, <1>17

(* Through the unit and back: the sector is as the next stage wants it. *)
LEMMA CryptDoes ==
    ASSUME NEW d, NEW kn, Encrypted(d.cbw.lun), d.reading \in BOOLEAN, NEW at \in Nat,
           NEW x, x = Leaves(d, kn, 0, at)
    PROVE  (IF d.reading THEN Decrypt(x, at) ELSE Encrypt(x, at)) = Leaves(d, kn, 1, at)
BY DEF Leaves, Decrypt, Encrypt, Sector

(* The steps of the AES unit leave alone what only USB and the card do. *)
LEMMA CryptOthers ==
    ASSUME NEW d, NEW h, NEW md, NEW kn, NEW e,
           CardOf(d, h, md, kn), DoneOk(d, h, md, kn), e.ring.processing = d.ring.processing,
           e.epIn = d.epIn, e.bot_state = d.bot_state
    PROVE  CardOf(e, h, md, kn) /\ DoneOk(e, h, md, kn)
BY DEF CardOf, DoneOk, Replacing, PassedNow

LEMMA CryptEndsData == ASSUME Sound, Exact, Sound', CryptEnds PROVE Exact'
<1> DEFINE c == dev.crypt
           i == c.txLen - c.left + 1
           x == content[c.from][i]
           k == Gone(dev, 1)
           at == dev.cbw.lba + k * BufSectors + i - 1
<1>1. /\ Base(dev, main) /\ RingOk(dev, main) /\ IsDev(dev) /\ DevType(dev) /\ CryptOk(dev)
      /\ DataOk(dev, main, host, medium, content, known)
  BY SoundFacts
<1>2. /\ c.running /\ i \in 1 .. BufSectors
      /\ content' = [content EXCEPT ![c.to][i] =
                       IF dev.reading THEN Decrypt(x, c.sector) ELSE Encrypt(x, c.sector)]
      /\ dev' = [dev EXCEPT !.crypt.running = FALSE, !.g_cryptOutInt = TRUE]
      /\ main' = main /\ medium' = medium /\ host' = host /\ known' = known
  BY DEF CryptEnds
<1>3. CryptBusy(dev) /\ ~dev.g_cryptOutInt
  BY <1>1, <1>2 DEF CryptOk, CryptBusy
<1>4. /\ Moving(dev) /\ Flying(dev, main, 1) /\ LastStage(dev) = 2
      /\ TransferOk(dev, main, host, medium, content, known)
      /\ c \in Crypts /\ c.txLen = Chunk(dev, k)
      /\ c.left \in 1 .. c.txLen /\ c.txLen \in 1 .. BufSectors
      /\ k \in Nat /\ k * BufSectors \in Nat
      /\ dev.cbw.lun \in Luns /\ Encrypted(dev.cbw.lun) /\ dev.cbw.lba \in Nat
      /\ c.from = F!BufferOf(dev.ring, 1, k) /\ k \in F!Between(dev.ring, 1)
      /\ c.to = WriteBuffer(dev.ring, 1) /\ c.to \in Buffers
      /\ c.sector = dev.cbw.lba + k * BufSectors + (c.txLen - c.left)
  BY <1>3, CryptChunk
<1>5. /\ Changes(dev, dev', {"crypt", "g_cryptOutInt"}) /\ dev'.g_cryptOutInt = TRUE
      /\ dev'.crypt = [c EXCEPT !.running = FALSE]
  BY <1>1, <1>2 DEF Changes, IsDev, Fields
<1>6. /\ dev'.crypt.txLen = c.txLen /\ dev'.crypt.left = c.left /\ dev'.crypt.from = c.from
      /\ dev'.crypt.to = c.to /\ dev'.crypt.sector = c.sector
      /\ dev'.crypt.toTransfer = c.toTransfer
  BY <1>4, <1>5 DEF Crypts
<1>7. /\ dev'.ring = dev.ring /\ dev'.cbw = dev.cbw /\ dev'.reading = dev.reading
      /\ dev'.stalledOut = dev.stalledOut /\ dev'.bot_state = dev.bot_state
      /\ dev'.mmcBuffer = dev.mmcBuffer /\ dev'.writeLen = dev.writeLen
      /\ dev'.writeBuffer = dev.writeBuffer /\ dev'.epIn = dev.epIn /\ dev'.epOut = dev.epOut
      /\ dev'.cplt = dev.cplt /\ dev'.g_emmc_user = dev.g_emmc_user
      /\ dev'.scsi_blk_len = dev.scsi_blk_len /\ dev'.op = dev.op
      /\ dev'.mmcDataToTransfer = dev.mmcDataToTransfer /\ dev'.mmcReadLen = dev.mmcReadLen
  BY <1>5 DEF Changes, Fields
<1>8. /\ c.txLen \in Nat /\ c.left \in Nat /\ i \in 1 .. c.txLen /\ at \in Nat /\ c.sector = at
  BY <1>4 DEF Crypts
<1>9. x = Leaves(dev, known, 0, at)
  <2>1. 1 \in (0 .. LastStage(dev)) \ {0}
    BY <1>4
  <2>2. Holds(dev, known, content[c.from], 1 - 1, k, Chunk(dev, k))
    BY <1>4, <2>1 DEF TransferOk, ChunksOk
  <2>3. 1 - 1 = 0
    OBVIOUS
  <2>4. Holds(dev, known, content[c.from], 0, k, c.txLen)
    BY <1>4, <2>2, <2>3
  <2> HIDE DEF i, k
  <2> QED BY <1>8, <2>4 DEF Holds
<1>10. dev.reading \in BOOLEAN
  BY <1>1 DEF DevType
<1> HIDE DEF x, i, at, k
<1>11. (IF dev.reading THEN Decrypt(x, c.sector) ELSE Encrypt(x, c.sector))
          = Leaves(dev, known, 1, at)
  BY <1>4, <1>8, <1>9, <1>10, CryptDoes
<1>12. content' = [content EXCEPT ![c.to][i] = Leaves(dev, known, 1, at)]
  BY <1>2, <1>11
<1>13. /\ c.to \in DOMAIN content /\ DOMAIN content[c.to] = 1 .. BufSectors
  BY <1>4 DEF Sound, Domains
<1>14. /\ content'[c.to] = [content[c.to] EXCEPT ![i] = Leaves(dev, known, 1, at)]
       /\ \A b \in Buffers \ {c.to} : content'[b] = content[b]
  BY <1>12, <1>13
<1>15. /\ content'[c.to][i] = Leaves(dev, known, 1, at)
       /\ \A j \in 1 .. i - 1 : content'[c.to][j] = content[c.to][j]
  <2>1. \A j \in 1 .. BufSectors : content'[c.to][j] =
           IF j = i THEN Leaves(dev, known, 1, at) ELSE content[c.to][j]
    BY <1>13, <1>14
  <2>2. i \in 1 .. BufSectors /\ BufSectors \in Nat
    BY <1>2, RingConstants
  <2> QED BY <2>1, <2>2
<1>16. SectorsOut(dev) = i - 1 /\ SectorsIn(dev') = i - 1 /\ SectorsOut(dev') = i
  <2>1. SectorsIn(dev) = i - 1 /\ SectorsIn(dev') = i - 1
    BY <1>3, <1>5, <1>6, <1>8 DEF SectorsIn, CryptBusy, i
  <2> QED BY <1>3, <1>5, <1>8, <2>1 DEF SectorsOut
<1>17. Holds(dev, known, content[c.to], 1, k, i - 1)
  BY <1>3, <1>4, <1>16 DEF TransferOk, PiecesOk, k
<1>18. Holds(dev, known, content'[c.to], 1, k, i - 1)
  BY <1>15, <1>17 DEF Holds
<1>19. Holds(dev, known, content'[c.to], 1, k, i)
  <2>1. \A j \in 1 .. i : j = i \/ j \in 1 .. i - 1
    BY <1>8
  <2> QED BY <1>15, <1>18, <2>1 DEF Holds, at
<1>20. /\ ChunksOk(dev, content', known)
       /\ CardHasRead(dev, main) /\ 1 # 0 =>
             Holds(dev, known, content'[WriteBuffer(dev.ring, 0)], 0, Gone(dev, 0),
                   Chunk(dev, Gone(dev, 0)))
  BY <1>1, <1>4, <1>14, WritesElsewhere
<1>21. TransferOk(dev, main, host, medium, content', known)
  <2>1. PiecesOk(dev, main, content', known)
    BY <1>4, <1>16, <1>18, <1>20 DEF PiecesOk, k
  <2> QED BY <1>4, <1>20, <2>1 DEF TransferOk
<1>22. /\ SameOrder(dev, dev') /\ SameIndices(dev.ring, dev'.ring)
       /\ MmcStage(dev') = MmcStage(dev)
  BY <1>7 DEF SameOrder, SameIndices, MmcStage, LastStage
<1>23. Framed(dev, main, dev', main')
  <2>1. Flying(dev', main', MmcStage(dev')) => Flying(dev, main, MmcStage(dev))
    BY <1>2, <1>7, <1>22 DEF Flying, Finishing
  <2>2. CardHasRead(dev', main') => CardHasRead(dev, main)
    BY <1>2, <1>7 DEF CardHasRead
  <2> QED BY <1>7, <1>22, <2>1, <2>2 DEF Framed
<1>24. CryptData(dev', content', known)
  <2>1. CryptPlace(dev) /\ SectorsIn(dev) = i - 1
    BY <1>3, <1>4, <1>8 DEF TransferOk, PlacesOk, SectorsIn, i
  <2>2. CryptPlace(dev')
    BY <1>3, <1>6, <1>7, <1>16, <2>1 DEF CryptPlace, Ends
  <2>3. Holds(dev', known, content'[c.to], 1, k, i)
    BY <1>19, <1>22, OrderGives
  <2> QED BY <1>4, <1>7, <1>16, <2>2, <2>3 DEF CryptData, Gone, k
<1>25. HostHas(dev', host', known')
  BY <1>2, <1>4, <1>7 DEF TransferOk, HostHas, Delivered
<1>26. ~dev'.reading => WrittenUpTo(medium', dev'.cbw, OnCard(dev'))
  BY <1>2, <1>4, <1>7 DEF TransferOk, OnCard, CardHasWritten
<1>27. main' = main /\ medium' = medium /\ host' = host /\ known' = known
  BY <1>2
<1>28. TransferOk(dev', main', host', medium', content', known')
  BY <1>27, <1>21, <1>23, <1>24, <1>25, <1>26, FramedData
<1>29. CardOf(dev', host', medium', known') /\ DoneOk(dev', host', medium', known')
  BY <1>1, <1>27, <1>7, CryptOthers DEF DataOk
<1> QED BY <1>28, <1>29 DEF Exact, DataOk

(* Stage s, at rest again, passes on the piece that it has moved. *)
LEMMA PieceData ==
    ASSUME NEW d, NEW c, NEW m, NEW s, PieceMoved(d, c, m, s),
           NEW e, e = Complete(StallIfLast(c, s), s, StageLen(d)[s]),
           NEW h, NEW md, NEW ct, NEW kn, TransferOk(c, m, h, md, ct, kn), Full(c, ct, kn, s),
           CardOf(c, h, md, kn), h.waiting, c.cbw = h.cmd
    PROVE  DataOk(e, m, h, md, ct, kn)
<1> DEFINE g == StallIfLast(c, s)
<1>1. /\ Base(d, m) /\ d.ring.processing /\ d.cbw.len > 0
      /\ F!RingInv(d.ring, d.cbw.len, StageLeft(d), StageLen(d), Finishing(d, m))
      /\ s \in StageIdx /\ d.ring.stageProcessing[s] /\ s \notin Finishing(d, m)
      /\ Base(c, m) /\ c.ring = d.ring /\ c.cbw = d.cbw
      /\ Resting(c, m, s) /\ Finishing(c, m) = Finishing(d, m)
      /\ StageLen(c) = StageLen(d)
      /\ LessBy(StageLeft(d), StageLeft(c), s, StageLen(d)[s])
  BY DEF PieceMoved
<1>2. PieceGone(d, m, c, m, s)
  BY <1>1 DEF PieceGone
<1>3. /\ Base(g, m) /\ SameLengths(c, g, m) /\ Changes(c, g, {"ring"}) /\ g.ring.processing
      /\ F!RingInv(g.ring, g.cbw.len, StageLeft(g), StageLen(g), {s} \cup Finishing(g, m))
  BY <1>2, Accounted
<1>4. /\ IsDev(c) /\ IsRing(c.ring) /\ c.ring \in FifoStruct /\ c.reading \in BOOLEAN
  BY <1>1 DEF Base, DevType, IsRing, RingFields, FifoStruct
<1>5. /\ SameIndices(c.ring, g.ring)
      /\ \A t : g.ring.stageProcessing[t] => c.ring.stageProcessing[t]
  <2>1. g = Stall(c, s) \/ g = c
    BY DEF StallIfLast
  <2>2. SameIndices(c.ring, g.ring)
    BY <1>4, <2>1, StallIndices
  <2>3. ASSUME NEW t, g = Stall(c, s), g.ring.stageProcessing[t]
        PROVE  c.ring.stageProcessing[t]
    <3>1. g.ring = bufferFIFO_stallStage(c.ring, s)
      BY <1>4, <2>3 DEF Stall, IsDev, Fields
    <3>2. g.ring.stageProcessing = [c.ring.stageProcessing EXCEPT ![s] = FALSE]
      BY <1>4, <3>1 DEF bufferFIFO_stallStage, FifoStruct
    <3> QED BY <1>1, <1>4, <2>3, <3>2 DEF FifoStruct
  <2> QED BY <2>1, <2>2, <2>3
<1> HIDE DEF g
<1>6. /\ g.cbw = c.cbw /\ Finishing(g, m) = Finishing(c, m) /\ StageLen(g) = StageLen(d)
      /\ Resting(g, m, s) /\ g.epIn = c.epIn /\ g.epOut = c.epOut /\ g.reading = c.reading
      /\ g.bot_state = c.bot_state /\ g.stalledOut = c.stalledOut /\ g.mmcBuffer = c.mmcBuffer
      /\ g.writeLen = c.writeLen /\ g.writeBuffer = c.writeBuffer /\ g.crypt = c.crypt
      /\ g.g_cryptOutInt = c.g_cryptOutInt /\ g.scsi_blk_len = c.scsi_blk_len
      /\ g.op = c.op /\ g.cplt = c.cplt /\ g.g_emmc_user = c.g_emmc_user
      /\ g.mmcDataToTransfer = c.mmcDataToTransfer /\ g.mmcReadLen = c.mmcReadLen
  BY <1>1, <1>3 DEF SameLengths, Finishing, Changes, Fields
<1>7. SameOrder(c, g) /\ SameCrypt(c, g) /\ MmcStage(g) = MmcStage(c)
  BY <1>3, <1>5, <1>6 DEF SameOrder, SameCrypt, SameLengths, SameIndices
<1>8. Framed(c, m, g, m)
  <2>1. Flying(g, m, MmcStage(g)) => Flying(c, m, MmcStage(c))
    BY <1>5, <1>6, <1>7 DEF Flying, F!InFlight, F!StagesOf, SameIndices
  <2>2. CardHasRead(g, m) => CardHasRead(c, m)
    BY <1>6 DEF CardHasRead
  <2> QED BY <1>5, <1>6, <1>7, <2>1, <2>2 DEF Framed
<1>9. HostHas(g, h, kn)
  BY <1>6 DEF TransferOk, HostHas, Delivered
<1>10. ~g.reading => WrittenUpTo(md, g.cbw, OnCard(g))
  BY <1>6 DEF TransferOk, OnCard, CardHasWritten
<1>11. TransferOk(g, m, h, md, ct, kn)
  BY <1>7, <1>8, <1>9, <1>10, FramedData
<1>12. Full(g, ct, kn, s)
  BY <1>5, <1>7, OrderGives, IndicesGive DEF Full, Gone
<1>13. CardOf(g, h, md, kn)
  BY <1>3, <1>6, <1>11 DEF CardOf, Replacing, Base, BotOk, PassedNow
<1>14. s \in 0 .. g.ring.numStages - 1
  <2>1. s \in 0 .. d.ring.numStages - 1
    BY <1>1, FlightFacts DEF Base, DevType
  <2> QED BY <1>1, <1>5, <2>1 DEF SameIndices
<1>15. e = Complete(g, s, StageLen(g)[s])
  BY <1>6 DEF g
<1>16. s \notin Finishing(g, m) /\ g.cbw.len > 0 /\ g.cbw = h.cmd
  BY <1>1, <1>6
<1> QED BY <1>1, <1>3, <1>6, <1>11, <1>12, <1>13, <1>14, <1>15, <1>16, CompleteKeepsData

LEMMA CryptCompleteData == ASSUME Sound, Exact, Sound', CryptComplete PROVE Exact'
<1> DEFINE c == dev.crypt
           k == Gone(dev, 1)
           w == WriteBuffer(dev.ring, 1)
<1>1. /\ Base(dev, main) /\ CryptOk(dev) /\ StatusOk(dev, host) /\ "reset" \notin dev.disturbed
      /\ DataOk(dev, main, host, medium, content, known) /\ Undisturbed
  BY SoundFacts DEF Sound
<1>2. dev.g_cryptOutInt /\ medium' = medium /\ content' = content /\ host' = host /\ known' = known
  BY DEF CryptComplete, MainOnly, data
<1>3. CryptBusy(dev) /\ ~c.running
  BY <1>1, <1>2 DEF CryptOk, CryptBusy
<1>4. /\ Moving(dev) /\ LastStage(dev) = 2
      /\ TransferOk(dev, main, host, medium, content, known)
      /\ c \in Crypts /\ c.txLen = Chunk(dev, k)
      /\ c.left \in 1 .. c.txLen /\ c.txLen \in 1 .. BufSectors
      /\ k \in Nat /\ k * BufSectors \in Nat
      /\ dev.cbw.lba \in Nat /\ dev.cbw.len \in Nat
      /\ c.toTransfer = dev.cbw.len - k * BufSectors
      /\ c.from = F!BufferOf(dev.ring, 1, k) /\ c.to = w
      /\ c.sector = dev.cbw.lba + k * BufSectors + (c.txLen - c.left)
  BY <1>3, CryptChunk
<1>5. PICK x : TickedOn(x) \/ DoneWith(x)
  BY <1>1, CryptWays
<1>6. Changes(dev, x, {"crypt", "g_cryptOutInt"}) /\ ~x.g_cryptOutInt /\ main' = main
  BY <1>5 DEF TickedOn, DoneWith, Ticking
<1>7. /\ x.ring = dev.ring /\ x.cbw = dev.cbw /\ x.reading = dev.reading
      /\ x.stalledOut = dev.stalledOut /\ x.bot_state = dev.bot_state
      /\ x.mmcBuffer = dev.mmcBuffer /\ x.writeLen = dev.writeLen
      /\ x.writeBuffer = dev.writeBuffer /\ x.epIn = dev.epIn /\ x.epOut = dev.epOut
      /\ x.cplt = dev.cplt /\ x.g_emmc_user = dev.g_emmc_user
      /\ x.scsi_blk_len = dev.scsi_blk_len /\ x.op = dev.op
      /\ x.mmcDataToTransfer = dev.mmcDataToTransfer /\ x.mmcReadLen = dev.mmcReadLen
  BY <1>6 DEF Changes, Fields
<1>8. /\ SameOrder(dev, x) /\ SameIndices(dev.ring, x.ring) /\ MmcStage(x) = MmcStage(dev)
      /\ LastStage(x) = LastStage(dev)
  BY <1>7 DEF SameOrder, SameIndices, MmcStage, LastStage
<1>9. Framed(dev, main, x, main)
  BY <1>7, <1>8 DEF Framed, Flying, Finishing, CardHasRead
<1>10. HostHas(x, host, known) /\ (~x.reading => WrittenUpTo(medium, x.cbw, OnCard(x)))
  BY <1>4, <1>7 DEF TransferOk, HostHas, Delivered, OnCard, CardHasWritten
<1>11. CardOf(x, host, medium, known) /\ DoneOk(x, host, medium, known)
  BY <1>1, <1>7, CryptOthers DEF DataOk
<1>12. /\ CryptPlace(dev) /\ SectorsOut(dev) = c.txLen - c.left + 1
       /\ Holds(dev, known, content[w], 1, k, c.txLen - c.left + 1)
  <2>1. SectorsOut(dev) = c.txLen - c.left + 1
    BY <1>2, <1>3 DEF SectorsOut, SectorsIn
  <2> QED BY <1>3, <1>4, <2>1 DEF TransferOk, PlacesOk, PiecesOk, k, w
<1>13. Holds(x, known, content[w], 1, k, c.txLen - c.left + 1)
  BY <1>8, <1>12, OrderGives
<1>14. /\ c.txLen \in Nat /\ c.left \in Nat /\ c.left <= c.txLen
       /\ c.sector \in Nat /\ c.toTransfer \in Nat
  BY <1>4 DEF Crypts
<1>15. Ends(x) = Ends(dev) /\ Ends(dev) \in Nat
  BY <1>4, <1>7 DEF Ends
<1> HIDE DEF k, w
<1>16. CASE TickedOn(x)
  <2>1. x.crypt = Restarted(Ticked(c)) /\ dev' = x
    BY <1>16 DEF TickedOn
  <2>2. /\ x.crypt.running /\ x.crypt.sector = c.sector + 1 /\ x.crypt.left = c.left - 1
        /\ x.crypt.toTransfer = c.toTransfer /\ x.crypt.txLen = c.txLen
        /\ x.crypt.from = c.from /\ x.crypt.to = c.to
    BY <1>4, <2>1 DEF Crypts, Restarted, Ticked
  <2>3. CryptBusy(x) /\ SectorsIn(x) = c.txLen - c.left + 1 /\ SectorsOut(x) = c.txLen - c.left + 1
    <3>1. CryptBusy(x)
      BY <2>2 DEF CryptBusy
    <3>2. SectorsIn(x) = c.txLen - c.left + 1
      BY <1>14, <2>2, <3>1 DEF SectorsIn
    <3> QED BY <1>6, <1>14, <3>1, <3>2 DEF SectorsOut
  <2>4. CryptPlace(x)
    <3>1. x.crypt.from = ReadBuffer(x.ring, 1) /\ x.crypt.to = WriteBuffer(x.ring, 1)
      BY <1>3, <1>7, <1>12, <2>2 DEF CryptPlace
    <3>2. x.crypt.sector = Ends(x) - x.crypt.toTransfer + SectorsIn(x)
      BY <1>4, <1>14, <1>15, <2>2, <2>3 DEF Ends
    <3> QED BY <3>1, <3>2 DEF CryptPlace
  <2>5. CryptData(x, content, known)
    BY <1>7, <1>13, <2>3, <2>4 DEF CryptData, Gone, k, w
  <2>6. TransferOk(x, main, host, medium, content, known)
    BY <1>4, <1>9, <1>10, <2>5, FramedData
  <2> QED BY <1>2, <1>6, <1>11, <2>1, <2>6 DEF Exact, DataOk
<1>17. CASE DoneWith(x)
  <2>1. /\ x.crypt = Lessened(Ticked(c), c.txLen) /\ c.left = 1
        /\ PieceMoved(dev, x, main, 1)
        /\ dev' = Complete(StallIfLast(x, 1), 1, StageLen(dev)[1])
    BY <1>17 DEF DoneWith
  <2>2. /\ ~x.crypt.running /\ x.crypt.sector = c.sector + 1
        /\ x.crypt.toTransfer = c.toTransfer - c.txLen
    BY <1>3, <1>4, <2>1 DEF Crypts, Lessened, Ticked
  <2>3. ~CryptBusy(x) /\ SectorsIn(x) = 0
    BY <1>6, <2>2 DEF CryptBusy, SectorsIn
  <2>4. CryptPlace(x)
    <3>1. x.crypt.sector = Ends(x) - x.crypt.toTransfer + SectorsIn(x)
      BY <1>4, <1>14, <1>15, <2>1, <2>2, <2>3 DEF Ends
    <3> QED BY <2>3, <3>1 DEF CryptPlace
  <2>5. CryptData(x, content, known)
    BY <2>3, <2>4 DEF CryptData
  <2>6. TransferOk(x, main, host, medium, content, known)
    BY <1>4, <1>9, <1>10, <2>5, FramedData
  <2>7. Full(x, content, known, 1)
    <3>1. c.txLen - c.left + 1 = Chunk(x, k)
      BY <1>4, <1>7, <1>14, <2>1 DEF Chunk
    <3>2. Holds(x, known, content[w], 1, k, Chunk(x, k))
      BY <1>13, <3>1
    <3> QED BY <1>7, <3>2 DEF Full, Gone, k, w
  <2>8. host.waiting /\ x.cbw = host.cmd
    BY <1>1, <1>4, <1>7 DEF StatusOk, Moving
  <2>9. DataOk(dev', main, host, medium, content, known)
    BY <1>11, <2>1, <2>6, <2>7, <2>8, PieceData
  <2> QED BY <1>2, <1>6, <2>9 DEF Exact
<1> QED BY <1>5, <1>16, <1>17

(* The card is done with its piece, and the buffer is passed on. *)

LEMMA RingAfterData == ASSUME Sound, Exact, Sound', RingAfter PROVE Exact'
<1> DEFINE s == MmcStage(dev)
<1>1. /\ StatusOk(dev, host) /\ "reset" \notin dev.disturbed
      /\ DataOk(dev, main, host, medium, content, known) /\ Undisturbed
  BY SoundFacts DEF Sound
<1>2. medium' = medium /\ content' = content /\ host' = host /\ known' = known
  BY DEF RingAfter, MainOnly, data
<1>3. /\ main.after = "ring" /\ main' = Idle /\ Idle.after = "none"
      /\ dev' = Complete(dev, s, StageLen(dev)[s])
      /\ Base(dev, Idle) /\ dev.ring.processing /\ dev.cbw.len > 0
      /\ s \in StageIdx /\ s \in 0 .. dev.ring.numStages - 1
      /\ Resting(dev, Idle, s) /\ Finishing(dev, Idle) = {}
      /\ F!RingInv(dev.ring, dev.cbw.len, StageLeft(dev), StageLen(dev),
                   {s} \cup Finishing(dev, Idle))
  BY <1>1, RingAfterFacts
<1>4. TransferOk(dev, main, host, medium, content, known)
  BY <1>1, <1>3 DEF DataOk, Moving
<1>5. Framed(dev, main, dev, Idle) /\ SameCrypt(dev, dev)
  <2>1. SameOrder(dev, dev) /\ SameIndices(dev.ring, dev.ring) /\ SameCrypt(dev, dev)
    BY DEF SameOrder, SameIndices, SameCrypt
  <2>2. Flying(dev, Idle, MmcStage(dev)) => Flying(dev, main, MmcStage(dev))
    BY <1>3 DEF Flying, F!InFlight
  <2>3. CardHasRead(dev, Idle) => CardHasRead(dev, main)
    BY <1>3 DEF CardHasRead
  <2> QED BY <2>1, <2>2, <2>3 DEF Framed
<1>6. TransferOk(dev, Idle, host, medium, content, known)
  <2>1. HostHas(dev, host, known)
        /\ (~dev.reading => WrittenUpTo(medium, dev.cbw, OnCard(dev)))
    BY <1>4 DEF TransferOk
  <2> QED BY <1>4, <1>5, <2>1, FramedData
<1>7. Full(dev, content, known, s)
  <2>1. ASSUME s # LastStage(dev)
        PROVE  CardHasRead(dev, main) /\ s = 0
    BY <1>3, <2>1 DEF CardHasRead, MmcStage
  <2> QED BY <1>4, <2>1 DEF TransferOk, PiecesOk, Full
<1>8. CardOf(dev, host, medium, known) /\ host.waiting /\ dev.cbw = host.cmd
  BY <1>1, <1>3 DEF DataOk, StatusOk
<1> HIDE DEF s
<1>9. s \notin Finishing(dev, Idle)
  BY <1>3
<1>10. DataOk(dev', Idle, host, medium, content, known)
  BY <1>3, <1>6, <1>7, <1>8, <1>9, CompleteKeepsData
<1> QED BY <1>2, <1>3, <1>10 DEF Exact

(* A piece goes over USB. *)

(* The piece is where USB was to bring it. *)
LEMMA PieceSentData ==
    ASSUME Sound, Exact, UsbBusy(dev), dev.cbw.len > 0,
           NEW c, Changes(dev, c, UsbFields), ~UsbBusy(c),
           c.epIn.what \in {"none", "data"},
           dev' = Account(c), main' = main, medium' = medium, known' = known,
           host'.waiting = host.waiting, host'.cmd = host.cmd,
           NEW n, n = dev.cbw.len - dev.scsi_blk_len + dev.writeLen,
           IF dev.reading THEN Delivered(dev, known, host'.got, n) ELSE host'.sent = n,
           ChunksOk(dev, content', known), PiecesOk(dev, main, content', known),
           Full(dev, content', known, UsbStage(dev))
    PROVE  Exact'
<1> DEFINE s == UsbStage(dev)
<1>1. /\ Base(dev, main) /\ DevType(dev) /\ StatusOk(dev, host) /\ "reset" \notin dev.disturbed
      /\ DataOk(dev, main, host, medium, content, known) /\ Undisturbed
  BY SoundFacts DEF Sound
<1>2. PICK e : AccountedBy(c, e)
  BY <1>1, PieceGoes
<1>3. /\ PieceMoved(dev, e, main, s) /\ Changes(dev, e, Peripheral)
      /\ Changes(c, e, {"scsi_blk_len"})
      /\ e.scsi_blk_len = dev.scsi_blk_len - dev.writeLen
      /\ dev' = Complete(StallIfLast(e, s), s, StageLen(dev)[s])
  BY <1>2 DEF AccountedBy
<1>4. dev.ring.processing
  BY <1>3 DEF PieceMoved
<1>5. TransferOk(dev, main, host, medium, content, known)
  BY <1>1, <1>4 DEF DataOk, Moving
<1>6. /\ e.ring = dev.ring /\ e.cbw = dev.cbw /\ e.reading = dev.reading
      /\ e.stalledOut = dev.stalledOut /\ e.bot_state = dev.bot_state
      /\ e.mmcBuffer = dev.mmcBuffer /\ e.writeLen = dev.writeLen
      /\ e.writeBuffer = dev.writeBuffer /\ e.cplt = dev.cplt
      /\ e.g_emmc_user = dev.g_emmc_user /\ e.op = dev.op
      /\ e.mmcDataToTransfer = dev.mmcDataToTransfer /\ e.mmcReadLen = dev.mmcReadLen
      /\ e.disturbed = dev.disturbed
  BY <1>3 DEF Changes, Fields, Peripheral
<1>7. /\ e.epIn.what # "data" /\ e.epOut # "data" /\ SameCrypt(dev, e)
  <2>1. e.epIn = c.epIn /\ e.epOut = c.epOut /\ e.crypt = c.crypt
        /\ e.g_cryptOutInt = c.g_cryptOutInt
    BY <1>3 DEF Changes, Fields
  <2>2. c.crypt = dev.crypt /\ c.g_cryptOutInt = dev.g_cryptOutInt
    BY DEF Changes, Fields, UsbFields
  <2> QED BY <2>1, <2>2 DEF UsbBusy, SameCrypt
<1>8. /\ SameOrder(dev, e) /\ SameIndices(dev.ring, e.ring) /\ MmcStage(e) = MmcStage(dev)
  BY <1>6 DEF SameOrder, SameIndices, MmcStage, LastStage
<1>9. Framed(dev, main, e, main)
  BY <1>6, <1>7, <1>8 DEF Framed, Flying, Finishing, CardHasRead
<1>10. TransferOk(dev, main, host, medium, content', known)
  BY <1>5 DEF TransferOk
<1>11. HostHas(e, host', known)
  <2>1. e.cbw.len - e.scsi_blk_len = n
    BY <1>1, <1>3, <1>6 DEF DevType
  <2>2. dev.reading => Delivered(e, known, host'.got, n)
    BY <1>8, OrderGives
  <2> QED BY <1>6, <2>1, <2>2 DEF HostHas
<1>12. ~e.reading => WrittenUpTo(medium, e.cbw, OnCard(e))
  BY <1>5, <1>6 DEF TransferOk, OnCard, CardHasWritten
<1>13. TransferOk(e, main, host', medium, content', known)
  BY <1>7, <1>9, <1>10, <1>11, <1>12, FramedData
<1>14. Full(e, content', known, s)
  BY <1>8, OrderGives, IndicesGive DEF Full, Gone
<1>15. CardOf(e, host', medium, known)
  <2>1. \A l, a : Replacing(e, host', l, a) <=> Replacing(dev, host, l, a)
    BY <1>4, <1>6 DEF Replacing
  <2> QED BY <1>1, <2>1 DEF DataOk, CardOf
<1>16. host'.waiting /\ e.cbw = host'.cmd
  BY <1>1, <1>4, <1>6 DEF StatusOk
<1> HIDE DEF s
<1>17. DataOk(dev', main, host', medium, content', known)
  BY <1>3, <1>13, <1>14, <1>15, <1>16, PieceData
<1> QED BY <1>17 DEF Exact

(* The data goes over USB. *)

(* Where USB is in the transfer. *)
LEMMA UsbChunk ==
    ASSUME Sound, Exact, UsbBusy(dev), dev.cbw.len > 0,
           NEW s, s = UsbStage(dev), NEW k, k = Gone(dev, s)
    PROVE  /\ Moving(dev) /\ Flying(dev, main, s) /\ s \in 0 .. LastStage(dev)
           /\ TransferOk(dev, main, host, medium, content, known)
           /\ dev.reading \in BOOLEAN /\ (s = 0 <=> ~dev.reading)
           /\ (dev.reading => s = LastStage(dev)) /\ (~dev.reading => s # LastStage(dev))
           /\ dev.ring.numStages \in {2, 3} /\ dev.ring \in FifoStruct
           /\ k \in Nat /\ k * BufSectors \in Nat
           /\ dev.writeLen = Chunk(dev, k) /\ dev.writeLen \in 1 .. BufSectors
           /\ dev.scsi_blk_len = dev.cbw.len - k * BufSectors
           /\ dev.cbw.len \in Nat /\ dev.writeLen \in Nat /\ dev.scsi_blk_len \in Nat
           /\ dev.writeLen <= dev.scsi_blk_len
           /\ dev.cbw.len - dev.scsi_blk_len = k * BufSectors
           /\ dev.cbw = host.cmd /\ host.waiting /\ Consistent(dev.cbw)
           /\ dev.cbw.lba \in Nat /\ dev.cbw.lun \in Luns
           /\ s # 0 => /\ k \in F!Between(dev.ring, s)
                       /\ F!BufferOf(dev.ring, s, k) = WriteBuffer(dev.ring, s)
<1>1. /\ Base(dev, main) /\ RingOk(dev, main) /\ DevType(dev) /\ UsbOk(dev) /\ BotOk(dev)
      /\ StatusOk(dev, host) /\ "reset" \notin dev.disturbed
      /\ DataOk(dev, main, host, medium, content, known)
  BY SoundFacts
<1>2. dev.ring.processing /\ dev.ring.stageProcessing[s]
  BY <1>1 DEF UsbOk
<1>3. Moving(dev) /\ Flying(dev, main, s)
  BY <1>1, <1>2, BusyFlies DEF Moving
<1>4. TransferOk(dev, main, host, medium, content, known)
  BY <1>1, <1>3 DEF DataOk
<1>5. /\ F!AtChunk(dev.ring, dev.cbw.len, StageLeft(dev), StageLen(dev), Finishing(dev, main), s, k)
      /\ dev.ring.numStages \in {2, 3} /\ dev.reading \in BOOLEAN /\ dev.ring \in FifoStruct
      /\ F!RingInv(dev.ring, dev.cbw.len, StageLeft(dev), StageLen(dev), Finishing(dev, main))
  BY <1>1, <1>3, PieceAt
<1>6. /\ s \in StageIdx /\ s # MmcStage(dev) /\ (s = 0 <=> ~dev.reading)
      /\ LastStage(dev) = IF dev.reading THEN s ELSE MmcStage(dev)
  BY <1>5, StagesDiffer
<1>7. s \notin Finishing(dev, main)
  BY <1>6 DEF Finishing
<1>8. StageLen(dev)[s] = dev.writeLen /\ StageLeft(dev)[s] = dev.scsi_blk_len
  BY <1>6 DEF StageLen, StageLeft
<1>9. /\ k \in Nat /\ dev.writeLen = Chunk(dev, k) /\ dev.writeLen \in 1 .. BufSectors
      /\ dev.scsi_blk_len = dev.cbw.len - k * BufSectors
      /\ s # 0 => /\ k \in F!Between(dev.ring, s)
                  /\ F!BufferOf(dev.ring, s, k) = ReadBuffer(dev.ring, s)
      /\ s = dev.ring.numStages - 1 => WriteBuffer(dev.ring, s) = ReadBuffer(dev.ring, s)
      /\ s \in 0 .. dev.ring.numStages - 1
  BY <1>5, <1>7, <1>8, Same DEF F!AtChunk, Chunk
<1>10. dev.cbw.len \in Nat /\ dev.writeLen \in Nat /\ dev.scsi_blk_len \in Nat
       /\ dev.writeLen <= dev.scsi_blk_len
  <2>1. StageLen(dev)[s] <= StageLeft(dev)[s]
    BY <1>1, <1>2, <1>5, <1>6, <1>7, FlightFacts DEF DevType
  <2> QED BY <1>1, <1>8, <2>1 DEF DevType
<1>11. k * BufSectors \in Nat /\ dev.cbw.len - dev.scsi_blk_len = k * BufSectors
  <2>1. k * BufSectors \in Nat
    BY <1>9, RingConstants
  <2> QED BY <1>9, <1>10, <2>1
<1>12. dev.cbw = host.cmd /\ host.waiting /\ Consistent(dev.cbw)
  BY <1>1, <1>2 DEF StatusOk
<1>13. dev.cbw.lba \in Nat /\ dev.cbw.lun \in Luns
  BY <1>4 DEF TransferOk, OrderOk
<1> QED BY <1>3, <1>4, <1>5, <1>6, <1>9, <1>10, <1>11, <1>12, <1>13 DEF LastStage

LEMMA SendDataData == ASSUME Sound, Exact, Sound', SendData PROVE Exact'
<1> DEFINE k == Gone(dev, 0)
           w == WriteBuffer(dev.ring, 0)
           n == dev.cbw.len - dev.scsi_blk_len + dev.writeLen
<1>1. /\ Base(dev, main) /\ RingOk(dev, main) /\ IsDev(dev) /\ DevType(dev) /\ UsbOk(dev)
      /\ BotOk(dev) /\ StatusOk(dev, host) /\ IsHost(host) /\ "reset" \notin dev.disturbed
  BY SoundFacts
<1>2. /\ host.waiting /\ host.sent < host.cmd.data /\ dev.epOut = "data"
      /\ content' = [content EXCEPT ![dev.writeBuffer] =
                       [i \in 1 .. BufSectors |->
                           IF i <= dev.writeLen THEN Outgoing(i) ELSE @[i]]]
      /\ dev' = MSC_BOT_DataOut([dev EXCEPT !.epOut = "none"])
      /\ host' = [host EXCEPT !.sent = Smaller(@ + dev.writeLen, host.cmd.data)]
      /\ main' = main /\ medium' = medium /\ known' = known
  BY DEF SendData, Sending, HostOnly
<1>3. UsbBusy(dev) /\ dev.ring.processing /\ ~dev.reading
  BY <1>1, <1>2 DEF UsbOk, UsbBusy
<1>4. UsbStage(dev) = 0
  BY <1>3 DEF UsbStage
<1>5. dev.cbw.len > 0
  <2>1. /\ host.cmd.data \in Nat /\ host.sent \in Nat
        /\ dev.cbw = host.cmd /\ Consistent(dev.cbw)
    BY <1>1, <1>2, <1>3, WaitingFacts DEF Sound
  <2> QED BY <1>2, <2>1 DEF Consistent
<1>6. /\ Moving(dev) /\ Flying(dev, main, 0) /\ 0 # LastStage(dev)
      /\ TransferOk(dev, main, host, medium, content, known)
      /\ dev.ring.numStages \in {2, 3} /\ dev.ring \in FifoStruct
      /\ k \in Nat /\ k * BufSectors \in Nat
      /\ dev.writeLen = Chunk(dev, k) /\ dev.writeLen \in 1 .. BufSectors
      /\ dev.cbw.len \in Nat /\ dev.writeLen \in Nat /\ dev.scsi_blk_len \in Nat
      /\ dev.writeLen <= dev.scsi_blk_len
      /\ dev.cbw.len - dev.scsi_blk_len = k * BufSectors
      /\ dev.cbw = host.cmd /\ Consistent(dev.cbw)
      /\ dev.cbw.lba \in Nat /\ dev.cbw.lun \in Luns
  BY <1>3, <1>4, <1>5, UsbChunk
<1>7. OrderOk(dev) /\ PlacesOk(dev, main) /\ HostHas(dev, host, known)
      /\ PiecesOk(dev, main, content, known)
  BY <1>6 DEF TransferOk
<1>8. dev.writeBuffer = w /\ w \in Buffers
  <2>1. w \in Buffers
    BY <1>6, RingSizes, StagesAre
  <2> QED BY <1>2, <1>7, <2>1 DEF PlacesOk, UsbPlace
<1>9. host.sent = k * BufSectors
  BY <1>3, <1>6, <1>7 DEF HostHas
<1>10. n = k * BufSectors + dev.writeLen /\ n \in Nat /\ n <= dev.cbw.len
  BY <1>6
<1>11. host'.sent = n /\ host'.waiting = host.waiting /\ host'.cmd = host.cmd
  <2>1. Smaller(host.sent + dev.writeLen, host.cmd.data) = n
    BY <1>6, <1>9, <1>10 DEF Smaller, Consistent
  <2>2. host' = [host EXCEPT !.sent = n]
    BY <1>2, <2>1
  <2> HIDE DEF n
  <2> QED BY <1>1, <2>2 DEF IsHost, HostFields
<1> HIDE DEF n, k, w
<1>13. /\ \A i \in 1 .. dev.writeLen : content'[w][i] = Outgoing(i)
       /\ \A b \in Buffers \ {w} : content'[b] = content[b]
  <2> DEFINE y == [i \in 1 .. BufSectors |-> IF i <= dev.writeLen THEN Outgoing(i)
                                             ELSE content[w][i]]
  <2>1. content' = [content EXCEPT ![w] = y]
    BY <1>2, <1>8
  <2>2. \A i \in 1 .. dev.writeLen : i \in 1 .. BufSectors /\ i <= dev.writeLen
    BY <1>6, RingConstants
  <2>3. \A i \in 1 .. dev.writeLen : y[i] = Outgoing(i)
    BY <2>2
  <2>4. DOMAIN content = Buffers
    BY DEF Sound, Domains
  <2> HIDE DEF y
  <2> QED BY <1>8, <2>1, <2>3, <2>4
<1>14. \A i \in 1 .. dev.writeLen :
          Outgoing(i) = Leaves(dev, known, 0, dev.cbw.lba + k * BufSectors + i - 1)
  BY <1>3, <1>6, <1>9 DEF Outgoing, Leaves, Version
<1>15. Full(dev, content', known, 0)
  BY <1>6, <1>13, <1>14 DEF Full, Holds, k, w
<1>16. ~CardHasRead(dev, main)
  BY <1>3 DEF CardHasRead
<1>17. ChunksOk(dev, content', known) /\ PiecesOk(dev, main, content', known)
  <2>1. /\ ChunksOk(dev, content', known)
        /\ CryptBusy(dev) /\ 0 # 1 =>
              Holds(dev, known, content'[WriteBuffer(dev.ring, 1)], 1, Gone(dev, 1),
                    SectorsOut(dev))
    BY <1>1, <1>6, <1>13, WritesElsewhere DEF w
  <2> QED BY <1>16, <2>1 DEF PiecesOk
<1> DEFINE c == [dev EXCEPT !.epOut = "none"]
<1>18. Changes(dev, c, {"epOut"}) /\ c.epOut = "none"
  BY <1>1 DEF Changes, IsDev, Fields
<1>19. dev' = MSC_BOT_DataOut(c)
  BY <1>2
<1> HIDE DEF c
<1>20. c.bot_state = dev.bot_state /\ c.epIn = dev.epIn /\ dev.bot_state = "DATA_OUT"
  BY <1>3, <1>7, <1>18 DEF Changes, Fields, OrderOk
<1>21. dev' = Account(c)
  BY <1>19, <1>20 DEF MSC_BOT_DataOut, SCSI_ProcessWrite
<1>22. ~UsbBusy(c) /\ c.epIn.what \in {"none", "data"} /\ Changes(dev, c, UsbFields)
  <2>1. dev.epIn.what = "none"
    BY <1>1, <1>3 DEF UsbOk, BotOk
  <2> QED BY <1>18, <1>20, <2>1 DEF UsbBusy, Changes, UsbFields
<1>23. main' = main /\ medium' = medium /\ known' = known
  BY <1>2
<1>24. IF dev.reading THEN Delivered(dev, known, host'.got, n) ELSE host'.sent = n
  BY <1>3, <1>11
<1>25. n = dev.cbw.len - dev.scsi_blk_len + dev.writeLen
  BY DEF n
<1>26. Full(dev, content', known, UsbStage(dev))
  BY <1>4, <1>15
<1> QED
  BY <1>3, <1>5, <1>11, <1>17, <1>21, <1>22, <1>23, <1>24, <1>25, <1>26, PieceSentData

(* x is a sequence of n elements. *)
Lists(x, n) == x = [i \in 1 .. n |-> x[i]]

(* z is x, of n elements, and then y, of m. *)
Joins(x, n, y, m, z) ==
    /\ n \in Nat /\ m \in Nat /\ Lists(x, n) /\ Lists(y, m) /\ Lists(z, n + m)
    /\ \A i \in 1 .. n : z[i] = x[i]
    /\ \A i \in 1 .. m : z[n + i] = y[i]

LEMMA Joined ==
    ASSUME NEW x, NEW n, NEW y, NEW m, NEW z, Joins(x, n, y, m, z)
    PROVE  x \o y = z
<1>0. /\ n \in Nat /\ m \in Nat /\ Lists(x, n) /\ Lists(y, m) /\ Lists(z, n + m)
      /\ \A i \in 1 .. n : z[i] = x[i]
      /\ \A i \in 1 .. m : z[n + i] = y[i]
  BY DEF Joins
<1> DEFINE S == {x[i] : i \in 1 .. n} \cup {y[i] : i \in 1 .. m}
<1>1. x \in [1 .. n -> S] /\ y \in [1 .. m -> S]
  BY <1>0 DEF Lists
<1>2. ASSUME NEW i \in 1 .. n + m
      PROVE  z[i] = (IF i <= n THEN x[i] ELSE y[i - n]) /\ z[i] \in S
  <2>1. CASE i <= n
    <3>1. i \in 1 .. n
      BY <1>0, <2>1
    <3> QED BY <1>0, <2>1, <3>1
  <2>2. CASE i > n
    <3>1. i - n \in 1 .. m /\ n + (i - n) = i /\ ~(i <= n)
      BY <1>0, <2>2
    <3>2. z[n + (i - n)] = y[i - n]
      BY <1>0, <3>1
    <3> QED BY <3>1, <3>2
  <2> QED BY <1>0, <2>1, <2>2
<1>3. z \in [1 .. n + m -> S]
  <2> HIDE DEF S
  <2> QED BY <1>0, <1>2 DEF Lists
<1> HIDE DEF S
<1>4. x \in Seq(S) /\ y \in Seq(S) /\ z \in Seq(S)
  <2>1. n + m \in Nat
    BY <1>0
  <2> QED BY <1>0, <1>1, <1>3, <2>1, SeqDef
<1>5. Len(x) = n /\ Len(y) = m /\ Len(z) = n + m
  <2>1. DOMAIN x = 1 .. Len(x) /\ DOMAIN y = 1 .. Len(y) /\ DOMAIN z = 1 .. Len(z)
        /\ Len(x) \in Nat /\ Len(y) \in Nat /\ Len(z) \in Nat
    BY <1>4, LenProperties
  <2>2. DOMAIN x = 1 .. n /\ DOMAIN y = 1 .. m /\ DOMAIN z = 1 .. n + m
    BY <1>1, <1>3
  <2>3. \A a \in Nat, b \in Nat : 1 .. a = 1 .. b => a = b
    <3> SUFFICES ASSUME NEW a \in Nat, NEW b \in Nat, 1 .. a = 1 .. b
                 PROVE  a = b
      OBVIOUS
    <3>1. a \in 1 .. a <=> a \in 1 .. b
      OBVIOUS
    <3>2. b \in 1 .. a <=> b \in 1 .. b
      OBVIOUS
    <3>3. a = 0 \/ a \in 1 .. a
      OBVIOUS
    <3>4. b = 0 \/ b \in 1 .. b
      OBVIOUS
    <3> QED BY <3>1, <3>2, <3>3, <3>4
  <2>4. 1 .. Len(x) = 1 .. n /\ 1 .. Len(y) = 1 .. m /\ 1 .. Len(z) = 1 .. n + m
    BY <2>1, <2>2, Zenon
  <2>5. n + m \in Nat
    BY <1>0
  <2> QED BY <1>0, <2>1, <2>3, <2>4, <2>5, Zenon
<1>6. /\ x \o y \in Seq(S) /\ Len(x \o y) = n + m
      /\ \A i \in 1 .. n + m : (x \o y)[i] = IF i <= n THEN x[i] ELSE y[i - n]
  BY <1>4, <1>5, ConcatProperties
<1>7. \A i \in 1 .. Len(x \o y) : (x \o y)[i] = z[i]
  BY <1>2, <1>6
<1> QED BY <1>4, <1>5, <1>6, <1>7, SeqEqual

(* The answer of a READ CAPACITY and the like has gone out; so has a piece of a *)
(* READ.                                                                        *)
LEMMA ReceiveDataData == ASSUME Sound, Exact, Sound', ReceiveData PROVE Exact'
<1>1. /\ Base(dev, main) /\ RingOk(dev, main) /\ IsDev(dev) /\ DevType(dev) /\ UsbOk(dev)
      /\ BotOk(dev) /\ StatusOk(dev, host) /\ IsHost(host) /\ "reset" \notin dev.disturbed
      /\ DataOk(dev, main, host, medium, content, known)
  BY SoundFacts
<1>2. /\ host.waiting /\ dev.epIn.what \in {"data", "response"}
      /\ dev' = MSC_BOT_DataIn(Sent)
      /\ host' = IF dev.epIn.what = "response" THEN host
                 ELSE [host EXCEPT !.got =
                         @ \o [i \in 1 .. dev.epIn.len |-> content[dev.epIn.buf][i]]]
      /\ main' = main /\ medium' = medium /\ content' = content /\ known' = known
  BY DEF ReceiveData, Polling, HostOnly
<1>3. Changes(dev, Sent, {"epIn"}) /\ Sent.epIn.what = "none"
  BY <1>1, SentFacts
<1>4. /\ Sent.bot_state = dev.bot_state /\ Sent.g_usb_transmitting = dev.g_usb_transmitting
      /\ Sent.epOut = dev.epOut /\ Sent.ring = dev.ring /\ Sent.cbw = dev.cbw
  BY <1>3 DEF Changes, Fields
<1>5. main' = main /\ medium' = medium /\ content' = content /\ known' = known
  BY <1>2
<1>6. CASE dev.epIn.what = "response"
  <2>1. dev.bot_state = "SEND_DATA" /\ ~dev.ring.processing
    BY <1>1, <1>6 DEF StatusOk
  <2>2. dev' = MSC_BOT_SendCSW(Sent, TRUE)
    BY <1>2, <1>4, <2>1 DEF MSC_BOT_DataIn
  <2>3. /\ Changes(Sent, dev', {"bot_state", "epIn", "epOut"}) /\ dev'.bot_state = "IDLE"
        /\ dev'.epIn = Csw(Sent, TRUE)
    <3>1. IsDev(Sent)
      BY <1>3 DEF Changes
    <3> QED BY <1>3, <2>2, <3>1, CswFree
  <2>4. dev'.ring = dev.ring
    BY <1>4, <2>3 DEF Changes, Fields
  <2>5. host.cmd.kind \notin {"read", "write"}
    BY <1>1, <2>1 DEF DataOk, DoneOk
  <2>6. host' = host
    BY <1>2, <1>6
  <2>7. CardOf(dev', host, medium, known)
    BY <1>1, <2>5 DEF DataOk, CardOf, Replacing
  <2>8. DoneOk(dev', host, medium, known)
    BY <2>3, <2>5 DEF DoneOk
  <2>9. ~Moving(dev')
    BY <2>1, <2>4 DEF Moving
  <2> QED BY <1>5, <2>6, <2>7, <2>8, <2>9 DEF Exact, DataOk
<1>7. CASE dev.epIn.what = "data"
  <2> DEFINE s == UsbStage(dev)
             k == Gone(dev, s)
             o == dev.cbw
             n == o.len - dev.scsi_blk_len + dev.writeLen
             y == [i \in 1 .. dev.epIn.len |-> content[dev.epIn.buf][i]]
             c == [Sent EXCEPT !.g_usb_transmitting = FALSE]
  <2>1. dev.ring.processing /\ dev.reading /\ dev.g_usb_transmitting
        /\ dev.ring.stageProcessing[s] /\ UsbBusy(dev)
    BY <1>1, <1>7 DEF BotOk, UsbOk, UsbBusy
  <2>2. o.len > 0
    <3>1. s \in StageIdx \ {0}
      <4>1. dev.ring.numStages \in {2, 3} /\ dev.reading \in BOOLEAN
        BY <1>1, <2>1 DEF BotOk, DevType
      <4>2. s \in StageIdx /\ (s = 0 <=> ~dev.reading)
        BY <4>1, StagesDiffer
      <4> QED BY <2>1, <4>2
    <3> QED BY <1>1, <2>1, <3>1, NotFrozen
  <2>3. /\ Moving(dev) /\ Flying(dev, main, s) /\ s \in 0 .. LastStage(dev) /\ s # 0
        /\ TransferOk(dev, main, host, medium, content, known)
        /\ s = LastStage(dev) /\ dev.ring.numStages \in {2, 3}
        /\ k \in Nat /\ k * BufSectors \in Nat
        /\ dev.writeLen = Chunk(dev, k) /\ dev.writeLen \in 1 .. BufSectors
        /\ o.len \in Nat /\ dev.writeLen \in Nat /\ dev.scsi_blk_len \in Nat
        /\ dev.writeLen <= dev.scsi_blk_len
        /\ o.len - dev.scsi_blk_len = k * BufSectors
        /\ o.lba \in Nat /\ o.lun \in Luns
        /\ k \in F!Between(dev.ring, s)
        /\ F!BufferOf(dev.ring, s, k) = WriteBuffer(dev.ring, s)
    BY <2>1, <2>2, UsbChunk
  <2>4. /\ OrderOk(dev) /\ PlacesOk(dev, main) /\ HostHas(dev, host, known)
        /\ ChunksOk(dev, content, known) /\ PiecesOk(dev, main, content, known)
    BY <2>3 DEF TransferOk
  <2>5. /\ dev.epIn.buf = F!BufferOf(dev.ring, s, k) /\ dev.epIn.len = dev.writeLen
    BY <1>7, <2>3, <2>4 DEF PlacesOk, UsbPlace
  <2>6. Holds(dev, known, content[dev.epIn.buf], s - 1, k, dev.writeLen)
    BY <2>3, <2>4, <2>5 DEF ChunksOk
  <2> DEFINE z == [i \in 1 .. k * BufSectors + dev.writeLen |->
                     Sector(o.lun, o.lba + i - 1, known[o.lun][o.lba + i - 1], Plain)]
  <2>7. \A at : Leaves(dev, known, s - 1, at) = Sector(o.lun, at, known[o.lun][at], Plain)
    <3>1. Encrypted(o.lun) => s - 1 # 0
      BY <2>3, <2>4 DEF OrderOk, StageCount, LastStage
    <3> QED BY <2>1, <3>1 DEF Leaves, Version
  <2>8. host.got = [i \in 1 .. k * BufSectors |->
                     Sector(o.lun, o.lba + i - 1, known[o.lun][o.lba + i - 1], Plain)]
    BY <2>1, <2>3, <2>4 DEF HostHas, Delivered
  <2>9. \A i \in 1 .. dev.writeLen : y[i] = z[k * BufSectors + i]
    <3> HIDE DEF k, s
    <3> SUFFICES ASSUME NEW i \in 1 .. dev.writeLen
                 PROVE  y[i] = z[k * BufSectors + i]
      OBVIOUS
    <3> DEFINE at == o.lba + k * BufSectors + i - 1
    <3>1. y[i] = content[dev.epIn.buf][i]
      BY <2>5
    <3>2. content[dev.epIn.buf][i] = Leaves(dev, known, s - 1, at)
      BY <2>6 DEF Holds
    <3>3. k * BufSectors + i \in 1 .. k * BufSectors + dev.writeLen
      BY <2>3
    <3>4. o.lba + (k * BufSectors + i) - 1 = at
      BY <2>3
    <3> HIDE DEF at, y
    <3> QED BY <2>7, <3>1, <3>2, <3>3, <3>4
  <2>10. \A i \in 1 .. k * BufSectors : host.got[i] = z[i]
    <3>1. \A i \in 1 .. k * BufSectors : i \in 1 .. k * BufSectors + dev.writeLen
      BY <2>3
    <3> HIDE DEF k
    <3> QED BY <2>8, <3>1
  <2>11. host.got \o y = z
    <3>1. Lists(host.got, k * BufSectors)
      BY <2>8 DEF Lists
    <3>2. Lists(y, dev.writeLen)
      BY <2>5 DEF Lists
    <3>3. Lists(z, k * BufSectors + dev.writeLen)
      BY DEF Lists
    <3>4. Joins(host.got, k * BufSectors, y, dev.writeLen, z)
      <4> HIDE DEF y, z, k
      <4> QED BY <2>3, <2>9, <2>10, <3>1, <3>2, <3>3 DEF Joins
    <3> HIDE DEF y, z, k
    <3> QED BY <3>4, Joined
  <2>12. n = k * BufSectors + dev.writeLen
    BY <2>3
  <2>13. host'.got = host.got \o y /\ host'.waiting = host.waiting /\ host'.cmd = host.cmd
    <3> HIDE DEF y
    <3>1. host' = [host EXCEPT !.got = host.got \o y]
      BY <1>2, <1>7 DEF y
    <3> QED BY <1>1, <3>1 DEF IsHost, HostFields
  <2>14. Delivered(dev, known, host'.got, n)
    BY <2>11, <2>12, <2>13 DEF Delivered
  <2>15. dev.bot_state = "DATA_IN"
    BY <2>1, <2>4 DEF OrderOk
  <2>16. dev' = Account(c)
    BY <1>2, <1>4, <2>1, <2>15 DEF MSC_BOT_DataIn, SCSI_ProcessRead
  <2>17. Changes(Sent, c, {"g_usb_transmitting"})
    BY <1>3 DEF Changes, IsDev, Fields
  <2> HIDE DEF c, n, y, z
  <2>18. Changes(dev, c, UsbFields) /\ c.epIn.what = "none" /\ c.epOut = dev.epOut
    BY <1>3, <1>4, <2>17 DEF Changes, Fields, UsbFields
  <2>19. dev.epOut # "data"
    BY <1>1, <2>1 DEF UsbOk
  <2>20. ~UsbBusy(c) /\ c.epIn.what \in {"none", "data"}
    BY <2>18, <2>19 DEF UsbBusy
  <2>21. n = o.len - dev.scsi_blk_len + dev.writeLen
    BY DEF n
  <2>22. ChunksOk(dev, content', known) /\ PiecesOk(dev, main, content', known)
    BY <1>5, <2>4
  <2>23. Full(dev, content', known, UsbStage(dev))
    BY <2>3 DEF Full
  <2>24. IF dev.reading THEN Delivered(dev, known, host'.got, n) ELSE host'.sent = n
    BY <2>1, <2>14
  <2>25. main' = main /\ medium' = medium /\ known' = known
    BY <1>2
  <2> QED
    BY <2>1, <2>2, <2>13, <2>16, <2>18, <2>20, <2>21, <2>22, <2>23, <2>24, <2>25, PieceSentData
<1> QED BY <1>2, <1>6, <1>7

------------------------------------------------------------------------------
(* Statuses, resets, and the data that no one wants. *)

(* Where no transfer moves, only the status matters. *)
LEMMA RestsData ==
    ASSUME NEW d, NEW m, NEW h, NEW md, NEW ct, NEW kn, DataOk(d, m, h, md, ct, kn),
           NEW e, NEW n, ~Moving(e), e.ring.processing = d.ring.processing,
           e.epIn = d.epIn, e.bot_state = d.bot_state,
           NEW g, g.waiting = h.waiting, g.cmd = h.cmd, g.got = h.got, NEW ct2
    PROVE  DataOk(e, n, g, md, ct2, kn)
BY DEF DataOk, CardOf, DoneOk, Replacing, PassedNow

LEMMA SendUnwantedDataData == ASSUME Sound, Exact, Sound', SendUnwantedData PROVE Exact'
<1>1. /\ IsDev(dev) /\ StatusOk(dev, host) /\ IsHost(host) /\ "reset" \notin dev.disturbed
      /\ DataOk(dev, main, host, medium, content, known)
  BY SoundFacts
<1> DEFINE c == [Command("invalid", 0, 0, 0, FALSE, 0) EXCEPT !.tag = 0]
           a == [dev EXCEPT !.epOut = "none"]
           b == [a EXCEPT !.cbw = c, !.tag = c.tag]
           d == [b EXCEPT !.bot_status = "ERROR"]
<1>2. c.kind = "invalid"
  BY DEF Command
<1>3. /\ dev.epOut = "cbw" /\ dev' = MSC_BOT_CBW_Decode(a, c)
      /\ host' = [host EXCEPT !.sent = @ + 1]
  BY DEF SendUnwantedData, HostOnly
<1>4. main' = main /\ medium' = medium /\ content' = content /\ known' = known
  BY DEF SendUnwantedData, HostOnly
<1>5. dev' = MSC_BOT_Abort(d)
  BY <1>2, <1>3 DEF MSC_BOT_CBW_Decode
<1> HIDE DEF c
<1>6. Changes(dev, a, {"epOut"})
  BY <1>1 DEF Changes, IsDev, Fields
<1> HIDE DEF a
<1>7. Changes(a, b, {"cbw", "tag"})
  BY <1>6 DEF Changes, IsDev, Fields
<1> HIDE DEF b
<1>8. Changes(b, d, {"bot_status"})
  BY <1>7 DEF Changes, IsDev, Fields
<1> HIDE DEF d
<1>9. Changes(d, dev', {"stalledIn", "stalledOut", "epOut"})
  BY <1>5, <1>8, Aborted DEF Changes
<1>10. dev'.ring = dev.ring /\ dev'.epIn = dev.epIn /\ dev'.bot_state = dev.bot_state
  BY <1>6, <1>7, <1>8, <1>9 DEF Changes, Fields
<1>11. ~Moving(dev')
  BY <1>1, <1>3, <1>10 DEF StatusOk, Moving
<1>12. host'.waiting = host.waiting /\ host'.cmd = host.cmd /\ host'.got = host.got
  BY <1>1, <1>3 DEF IsHost, HostFields
<1> QED BY <1>1, <1>4, <1>10, <1>11, <1>12, RestsData DEF Exact

(* With the status of a WRITE that has passed, its sectors are the host's. *)
LEMMA ReceiveStatusData == ASSUME Sound, Exact, Sound', ReceiveStatus PROVE Exact'
<1>1. /\ IsDev(dev) /\ StatusOk(dev, host) /\ IsHost(host) /\ "reset" \notin dev.disturbed
      /\ CardOf(dev, host, medium, known) /\ DoneOk(dev, host, medium, known)
  BY SoundFacts DEF DataOk
<1>2. /\ host.waiting /\ dev.epIn.what = "csw" /\ dev' = MSC_BOT_DataIn(Sent)
      /\ host' = [host EXCEPT !.waiting = FALSE, !.sent = 0, !.got = <<>>]
      /\ known' = [lun \in Luns |-> [a \in DOMAIN known[lun] |->
                      IF /\ dev.epIn.passed /\ host.cmd.kind = "write"
                         /\ Covers(host.cmd, lun, a)
                        THEN host.cmd.tag ELSE known[lun][a]]]
      /\ medium' = medium
  BY DEF ReceiveStatus, Polling, HostOnly
<1>3. dev.bot_state = "IDLE" /\ ~dev.ring.processing
  BY <1>1, <1>2 DEF StatusOk
<1>4. Changes(dev, Sent, {"epIn"}) /\ Sent.epIn.what = "none"
  BY <1>1, SentFacts
<1>5. Sent.bot_state = "IDLE" /\ Sent.ring = dev.ring
  BY <1>3, <1>4 DEF Changes, Fields
<1>6. dev' = Sent
  BY <1>2, <1>5 DEF MSC_BOT_DataIn
<1>7. ~host'.waiting
  BY <1>1, <1>2 DEF IsHost, HostFields
<1>8. ASSUME NEW lun \in Luns, NEW a \in 0 .. Capacity(lun) - 1
      PROVE  medium[region_start(lun) + a] = Stored(lun, a, known'[lun][a])
  <2> DEFINE Mine == /\ dev.epIn.passed /\ host.cmd.kind = "write"
                     /\ Covers(host.cmd, lun, a)
  <2>1. known'[lun][a] = IF Mine THEN host.cmd.tag ELSE known[lun][a]
    <3>1. a \in DOMAIN known[lun]
      BY DEF Sound, Domains
    <3> QED BY <1>2, <3>1
  <2>2. CASE Mine
    <3>1. WrittenUpTo(medium, host.cmd, host.cmd.len)
      BY <1>1, <1>2, <2>2 DEF DoneOk, PassedNow
    <3>2. /\ host.cmd.lun = lun /\ host.cmd.lba \in Nat /\ host.cmd.len \in Nat
          /\ a - host.cmd.lba \in 0 .. host.cmd.len - 1
          /\ host.cmd.lba + (a - host.cmd.lba) = a
      <4>1. host.cmd.lba \in Nat /\ host.cmd.len \in Nat /\ Capacity(lun) \in Nat
        BY VolumeArithmetic DEF Sound, Domains, IsCommand
      <4>2. a \in host.cmd.lba .. host.cmd.lba + host.cmd.len - 1 /\ host.cmd.lun = lun
        BY <2>2 DEF Covers
      <4> QED BY <4>1, <4>2
    <3> HIDE DEF Mine
    <3> QED BY <2>1, <2>2, <3>1, <3>2 DEF WrittenUpTo
  <2>3. CASE ~Mine
    <3>1. ~Replacing(dev, host, lun, a)
      BY <1>3, <2>3 DEF Replacing, PassedNow
    <3> HIDE DEF Mine
    <3> QED BY <1>1, <2>1, <2>3, <3>1 DEF CardOf
  <2> QED BY <2>2, <2>3
<1>9. CardOf(dev', host', medium', known')
  BY <1>2, <1>8 DEF CardOf
<1>10. DoneOk(dev', host', medium', known')
  BY <1>5, <1>6, <1>7 DEF DoneOk
<1>11. ~Moving(dev')
  BY <1>3, <1>5, <1>6 DEF Moving
<1> QED BY <1>9, <1>10, <1>11 DEF Exact, DataOk

LEMMA ClearHaltData == ASSUME Sound, Exact, Sound', ClearHalt PROVE Exact'
<1>1. /\ IsDev(dev) /\ IsHost(host) /\ DevType(dev)
      /\ DataOk(dev, main, host, medium, content, known)
  BY SoundFacts
<1>2. Changes(dev, dev', {"stalledIn", "stalledOut"}) /\ dev'.stalledOut = FALSE
  BY <1>1 DEF ClearHalt, Changes, IsDev, Fields
<1>3. /\ main' = main /\ medium' = medium /\ content' = content /\ known' = known
      /\ host' = IF dev.stalledOut THEN [host EXCEPT !.sent = host.cmd.data] ELSE host
  BY DEF ClearHalt, HostOnly
<1>4. /\ dev'.ring = dev.ring /\ dev'.cbw = dev.cbw /\ dev'.epIn = dev.epIn
      /\ dev'.bot_state = dev.bot_state
  BY <1>2 DEF Changes, Fields
<1>5. CASE Moving(dev)
  <2>1. host' = host
    BY <1>1, <1>3, <1>5 DEF DataOk, TransferOk, OrderOk
  <2>2. /\ SameOrder(dev, dev') /\ SameIndices(dev.ring, dev'.ring) /\ SameCrypt(dev, dev')
        /\ MmcStage(dev') = MmcStage(dev)
        /\ dev'.mmcBuffer = dev.mmcBuffer /\ dev'.writeLen = dev.writeLen
        /\ dev'.writeBuffer = dev.writeBuffer /\ dev'.epOut = dev.epOut
        /\ dev'.scsi_blk_len = dev.scsi_blk_len
    BY <1>2 DEF SameOrder, SameIndices, SameCrypt, Changes, Fields, MmcStage, LastStage
  <2>3. /\ Flying(dev', main, MmcStage(dev')) => Flying(dev, main, MmcStage(dev))
        /\ CardHasRead(dev', main) => CardHasRead(dev, main)
    BY <1>2, <1>4, <2>2 DEF Flying, Finishing, CardHasRead, Changes, Fields
  <2>4. OnCard(dev) \in Int /\ OnCard(dev') = OnCard(dev)
    <3>1. /\ dev'.mmcDataToTransfer = dev.mmcDataToTransfer /\ dev'.mmcReadLen = dev.mmcReadLen
          /\ dev'.op = dev.op /\ dev'.g_emmc_user = dev.g_emmc_user
      BY <1>2 DEF Changes, Fields
    <3> QED BY <1>1, <1>4, <3>1 DEF OnCard, CardHasWritten, DevType
  <2>5. Unmoved(dev, main, dev', main)
    BY <1>4, <2>2, <2>3, <2>4 DEF Unmoved, Framed
  <2> QED BY <1>1, <1>3, <1>4, <2>1, <2>5, UnmovedData DEF Exact
<1>6. CASE ~Moving(dev)
  <2>1. ~Moving(dev')
    BY <1>4, <1>6 DEF Moving
  <2>2. host'.waiting = host.waiting /\ host'.cmd = host.cmd /\ host'.got = host.got
    BY <1>1, <1>3 DEF IsHost, HostFields
  <2>3. main' = main /\ medium' = medium /\ content' = content /\ known' = known
    BY <1>3
  <2> QED BY <1>1, <1>4, <2>1, <2>2, <2>3, RestsData DEF Exact
<1> QED BY <1>5, <1>6

(* Between two commands a reset changes nothing of this. *)
LEMMA ResetRecoveryData == ASSUME Sound, Exact, Sound', ResetRecovery PROVE Exact'
<1>1. /\ IsDev(dev) /\ StatusOk(dev, host) /\ IsHost(host) /\ "reset" \notin dev.disturbed
      /\ CardOf(dev, host, medium, known)
  BY SoundFacts DEF DataOk
<1>2. /\ Changes(dev, dev', ResetFields) /\ dev'.bot_state = "IDLE"
      /\ dev'.disturbed = IF host.waiting THEN dev.disturbed \cup {"reset"} ELSE dev.disturbed
  BY <1>1, ResetChanges
<1>3. medium' = medium /\ known' = known /\ ~host'.waiting
  BY <1>1 DEF ResetRecovery, data, IsHost, HostFields
<1>4. ~host.waiting
  BY <1>2 DEF Sound, Spared
<1>5. ~dev.ring.processing
  BY <1>1, <1>4 DEF StatusOk
<1>6. ~Moving(dev')
  BY <1>2, <1>5 DEF Moving, Changes, Fields, ResetFields
<1>7. CardOf(dev', host', medium', known')
  BY <1>1, <1>3, <1>4 DEF CardOf, Replacing
<1>8. DoneOk(dev', host', medium', known')
  BY <1>2, <1>3 DEF DoneOk
<1> QED BY <1>6, <1>7, <1>8 DEF Exact, DataOk

------------------------------------------------------------------------------
(* A new command. *)

(* The host before the transfer of its command: nothing sent, nothing received. *)
Fresh(h, c) == h.waiting /\ h.cmd = c /\ h.sent = 0 /\ h.got = <<>>

LEMMA NothingYet ==
    ASSUME NEW d, NEW kn
    PROVE  Delivered(d, kn, <<>>, 0)
<1> DEFINE z == [i \in 1 .. 0 |-> Sector(d.cbw.lun, d.cbw.lba + i - 1,
                                         kn[d.cbw.lun][d.cbw.lba + i - 1], Plain)]
<1>1. z \in [1 .. 0 -> {}]
  OBVIOUS
<1>2. z \in Seq({}) /\ <<>> \in Seq({}) /\ Len(<<>>) = 0
  BY <1>1, SeqDef, EmptySeq
<1>3. DOMAIN z = 1 .. 0
  OBVIOUS
<1> HIDE DEF z
<1>4. Len(z) = 0
  <2>1. Len(z) \in Nat /\ 1 .. Len(z) = 1 .. 0
    BY <1>2, <1>3, LenProperties
  <2>2. 1 .. 0 = {}
    OBVIOUS
  <2> QED BY <2>1, <2>2
<1>5. z = <<>>
  <2>1. \A i \in 1 .. Len(z) : z[i] = <<>>[i]
    BY <1>4
  <2> QED BY <1>2, <1>4, <2>1, SeqEqual
<1> QED BY <1>5 DEF Delivered, z

LEMMA StartsData ==
    ASSUME NEW d, NEW m, Base(d, m), RingOk(d, m), ~d.ring.processing, d.epIn.what = "none",
           d.epOut = "none", ~d.stalledOut,
           NEW c, IsCommand(c), c.kind \in {"read", "write"}, d.cbw = c,
           NEW e, e = StartTransfer(d, c), NEW h, Fresh(h, c),
           NEW md, NEW ct, NEW kn
    PROVE  TransferOk(e, m, h, md, ct, kn) /\ e.epIn.what # "csw"
<1> DEFINE n == StageCount(c.lun)
<1>1. c.len \in Nat /\ c.lba \in Nat /\ c.lun \in Luns
  BY DEF IsCommand
<1>2. PICK x : StartsFrom(d, c, x, e, m)
  BY <1>1, StartFacts
<1>3. /\ e = RunStages(x) /\ Readied(d, c, x) /\ Called(x, m)
      /\ x.crypt = CryptFor(d.crypt, c) /\ x.ring = RingFor(d.ring, c)
      /\ Begun(x.ring, n)
      /\ ~MmcBusy(x, m) /\ ~UsbBusy(x) /\ ~CryptBusy(x)
      /\ x.crypt \in Crypts /\ (n = 3 => x.crypt.toTransfer = c.len)
  BY <1>2 DEF StartsFrom
<1>4. n \in {2, 3} /\ (n = 3 <=> Encrypted(c.lun))
  BY DEF StageCount
<1>5. /\ Changes(d, x, TransferFields)
      /\ x.bot_state = IF c.kind = "read" THEN "DATA_IN" ELSE "DATA_OUT"
      /\ x.reading = (c.kind = "read")
      /\ x.scsi_blk_len = c.len /\ x.mmcDataToTransfer = c.len
  BY <1>3 DEF Readied
<1>6. /\ x.cbw = c /\ x.epIn.what = "none" /\ x.epOut = "none" /\ ~x.stalledOut
  BY <1>5 DEF Changes, Fields, TransferFields
<1>7. /\ x.ring.numStages = n /\ x.ring.processing /\ x.ring.exec = {0} /\ x.ring \in FifoStruct
      /\ \A s \in StageIdx : x.ring.stageProcessing[s] <=> s = 0
  BY <1>3 DEF Begun
<1>8. \A s \in 0 .. n - 1 : F!Passed(x.ring, s) = 0
  <2> DEFINE b == [d.ring EXCEPT !.numStages = n]
  <2>1. b \in F!FifoStruct /\ b.numStages = n
    <3>1. d.ring \in FifoStruct
      BY DEF Base, DevType
    <3>2. b \in FifoStruct /\ b.numStages = n
      BY <1>4, <3>1 DEF FifoStruct, MaxStages
    <3> QED BY <3>2, Same
  <2>2. x.ring = F!bufferFIFO_start(b, Smaller(c.len, BufSectors))
    BY <1>3, SameOperations DEF RingFor
  <2> HIDE DEF b, n
  <2> QED BY <1>4, <2>1, <2>2, RingConstants, F!StartIndices
<1>9. /\ Base(e, m) /\ Changes(x, e, Launching \cup {"ring"})
      /\ e.ring = [x.ring EXCEPT !.exec = {}]
  BY <1>3, RunOk
<1>10. AllPlaced(x, e, {0})
  BY <1>3, <1>7, RunPlaces
<1>11. /\ e.ring.numStages = n /\ e.ring.stageProcessing = x.ring.stageProcessing
       /\ SameIndices(x.ring, e.ring)
  BY <1>7, <1>9 DEF FifoStruct, SameIndices
<1>12. /\ e.cbw = c /\ e.reading = x.reading /\ e.stalledOut = x.stalledOut
       /\ e.bot_state = x.bot_state /\ e.scsi_blk_len = c.len /\ e.mmcDataToTransfer = c.len
       /\ e.cplt = x.cplt
  BY <1>5, <1>6, <1>9 DEF Changes, Fields, Launching
<1>13. OrderOk(e)
  BY <1>1, <1>5, <1>6, <1>11, <1>12 DEF OrderOk
<1>14. x.reading \in BOOLEAN /\ e.reading \in BOOLEAN
  BY <1>5, <1>12
<1>15. /\ MmcStage(x) \in StageIdx /\ UsbStage(x) \in StageIdx /\ MmcStage(x) # UsbStage(x)
       /\ (MmcStage(x) = 0 <=> x.reading) /\ (UsbStage(x) = 0 <=> ~x.reading)
       /\ (n = 3 => MmcStage(x) # 1 /\ UsbStage(x) # 1)
  BY <1>4, <1>7, <1>14, StagesDiffer
<1>16. MmcStage(e) = MmcStage(x) /\ UsbStage(e) = UsbStage(x) /\ LastStage(e) = n - 1
  BY <1>7, <1>11, <1>12 DEF MmcStage, UsbStage, LastStage
<1>17. /\ ReadBuffer(e.ring, 1) = ReadBuffer(x.ring, 1)
       /\ \A s : WriteBuffer(e.ring, s) = WriteBuffer(x.ring, s)
       /\ \A s \in 0 .. n - 1 : F!Passed(e.ring, s) = 0
  BY <1>8, <1>11, IndicesGive
<1>18. MmcPlace(e, m)
  <2>1. CASE e.reading
    <3>1. MmcStage(x) = 0 /\ WorksAt(x, e, MmcStage(x))
      BY <1>10, <1>12, <1>15, <2>1 DEF AllPlaced
    <3> QED BY <1>12, <1>17, <2>1, <3>1 DEF WorksAt, MmcBufferOf, MmcPlace
  <2>2. CASE ~e.reading
    <3>1. ~e.ring.stageProcessing[MmcStage(e)]
      BY <1>7, <1>11, <1>12, <1>15, <1>16, <2>2
    <3>2. Finishing(e, m) = {}
      BY <1>3 DEF MmcBusy, Finishing
    <3> QED BY <3>1, <3>2 DEF MmcPlace, Flying, F!InFlight
  <2> QED BY <2>1, <2>2
<1>19. UsbPlace(e) /\ e.epIn.what \in {"none", "data"}
  <2>1. CASE e.reading
    <3>1. UsbStage(x) # 0 /\ StaysAt(x, e, UsbStage(x))
      BY <1>10, <1>12, <1>15, <2>1 DEF AllPlaced
    <3> QED BY <1>6, <1>15, <3>1 DEF StaysAt, UsbPlace
  <2>2. CASE ~e.reading
    <3>1. UsbStage(x) = 0 /\ WorksAt(x, e, UsbStage(x))
      BY <1>10, <1>12, <1>15, <2>2 DEF AllPlaced
    <3> QED BY <1>6, <1>12, <1>15, <1>17, <2>2, <3>1 DEF WorksAt, UsbPlace
  <2> QED BY <2>1, <2>2
<1>20. ~CryptBusy(e)
  <2>1. CASE n = 3
    <3>1. 1 \in StageIdx /\ 1 # 0
      BY StagesAre
    <3>2. StaysAt(x, e, 1)
      BY <1>10, <3>1 DEF AllPlaced
    <3>3. e.crypt = x.crypt
      BY <1>15, <2>1, <3>2 DEF StaysAt
    <3>4. e.g_cryptOutInt = x.g_cryptOutInt
      BY <1>9 DEF Changes, Fields, Launching
    <3> QED BY <1>3, <3>3, <3>4 DEF CryptBusy
  <2>2. CASE n # 3
    BY <1>9, <1>11, <2>2 DEF Base, CryptOk
  <2> QED BY <2>1, <2>2
<1>21. CryptPlace(e)
  <2>1. ASSUME Encrypted(c.lun)
        PROVE  x.crypt.sector = c.lba /\ x.crypt.toTransfer = c.len
    <3>1. d.crypt \in Crypts
      BY DEF Base, DevType
    <3>2. x.crypt = [d.crypt EXCEPT !.toTransfer = c.len, !.sector = c.lba]
      BY <1>3, <2>1 DEF CryptFor
    <3> QED BY <3>1, <3>2 DEF Crypts
  <2>2. SectorsIn(e) = 0
    BY <1>20 DEF SectorsIn
  <2>3. e.crypt.sector = x.crypt.sector /\ e.crypt.toTransfer = x.crypt.toTransfer
    BY <1>10 DEF AllPlaced, SameCount
  <2> QED BY <1>1, <1>12, <1>20, <2>1, <2>2, <2>3 DEF CryptPlace, Ends
<1>22. ChunksOk(e, ct, kn)
  <2>1. ASSUME NEW s \in (0 .. n - 1) \ {0}
        PROVE  F!Between(e.ring, s) = {}
    <3>1. s \in 0 .. n - 1 /\ s - 1 \in 0 .. n - 1
      BY <1>4, <2>1
    <3> QED BY <1>17, <3>1 DEF F!Between
  <2> QED BY <1>16, <2>1 DEF ChunksOk
<1>23. ~CardHasRead(e, m) /\ ~CardHasWritten(e)
  <2>1. CardOk(x) /\ CardOk(e)
    BY <1>3, <1>9 DEF Called, Base
  <2>2. UserKept(x, e)
    BY <1>10 DEF AllPlaced, SameCount
  <2>3. /\ CardHasRead(e, m) => CardHasRead(x, m)
        /\ CardHasWritten(e) => CardHasWritten(x)
    BY <1>12, <2>1, <2>2, CardHasBefore
  <2> QED BY <1>3, <2>3 DEF CardHasRead, CardHasWritten, MmcBusy, NoOp
<1>24. PiecesOk(e, m, ct, kn)
  BY <1>20, <1>23 DEF PiecesOk
<1>25. HostHas(e, h, kn)
  <2>1. e.cbw.len - e.scsi_blk_len = 0
    BY <1>1, <1>12
  <2> QED BY <2>1, NothingYet DEF HostHas, Fresh
<1>26. WrittenUpTo(md, e.cbw, OnCard(e))
  <2>1. OnCard(e) = 0
    BY <1>1, <1>12, <1>23 DEF OnCard
  <2> QED BY <2>1 DEF WrittenUpTo
<1> QED BY <1>13, <1>18, <1>19, <1>21, <1>22, <1>24, <1>25, <1>26 DEF TransferOk, PlacesOk

(* With a new command the host has sent and received nothing, and the sectors   *)
(* are as the commands before have left them.                                   *)
LEMMA SendCommandData == ASSUME Sound, Exact, Sound', SendCommand PROVE Exact'
<1>1. /\ Base(dev, main) /\ RingOk(dev, main) /\ IsDev(dev) /\ DevType(dev)
      /\ StatusOk(dev, host) /\ UsbOk(dev)
      /\ "reset" \notin dev.disturbed /\ CardOf(dev, host, medium, known)
  BY SoundFacts DEF DataOk
<1>2. PICK c \in Commands, cmd \in {[x EXCEPT !.tag = host.cmd.tag + 1] : x \in Commands} :
         /\ cmd = [c EXCEPT !.tag = host.cmd.tag + 1]
         /\ ~host.waiting /\ ~dev.stalledOut
         /\ dev' = MSC_BOT_CBW_Decode([dev EXCEPT !.epOut = "none"], cmd)
         /\ host' = [waiting |-> TRUE, cmd |-> cmd, sent |-> 0, got |-> <<>>]
  BY DEF SendCommand
<1>3. main' = main /\ medium' = medium /\ content' = content /\ known' = known
  BY DEF SendCommand, HostOnly
<1>4. IsCommand(cmd)
  BY <1>2, CommandsOk
<1>5. Fresh(host', cmd)
  BY <1>2 DEF Fresh
<1> DEFINE d == [dev EXCEPT !.epOut = "none"]
<1>6. Changes(dev, d, {"epOut"}) /\ d.epOut = "none"
  BY <1>1 DEF Changes, IsDev, Fields
<1>7. dev' = MSC_BOT_CBW_Decode(d, cmd)
  BY <1>2
<1> HIDE DEF d
<1>8. ~dev.ring.processing /\ dev.epIn.what = "none"
  BY <1>1, <1>2 DEF StatusOk, UsbOk, UsbBusy
<1>9. IsDev(d) /\ ~d.ring.processing /\ d.epIn.what = "none"
  BY <1>6, <1>8 DEF Changes, Fields
<1>10. PICK b : Noted(d, cmd, b) /\ (AtOnce(b, cmd, dev') \/ Starts(b, cmd, dev'))
  BY <1>7, <1>9, DecodeWays
<1>11. CardOf(dev', host', medium', known')
  <2>1. \A lun, a : ~Replacing(dev, host, lun, a)
    BY <1>2 DEF Replacing
  <2> QED BY <1>1, <1>3, <2>1 DEF CardOf
<1>12. CASE AtOnce(b, cmd, dev')
  <2>1. ~Moving(dev')
    BY <1>9, <1>10, <1>12 DEF Noted, AtOnce, Changes, Fields, Transport, Moving
  <2>2. PassedNow(dev') \/ dev'.bot_state = "SEND_DATA" => ~IsTransfer(cmd)
    BY <1>12 DEF AtOnce, Stalls, Concludes, Answers, PassedNow
  <2>3. DoneOk(dev', host', medium', known')
    BY <1>5, <2>2 DEF Fresh, DoneOk, IsTransfer
  <2> QED BY <1>11, <2>1, <2>3 DEF Exact, DataOk
<1>13. CASE Starts(b, cmd, dev')
  <2>1. /\ Changes(d, b, {"cbw", "tag"}) /\ b.cbw = cmd /\ cmd.kind \in {"read", "write"}
        /\ dev' = StartTransfer(b, cmd)
    BY <1>10, <1>13 DEF Noted, Starts, IsTransfer
  <2>2. TransportMoved(dev, b)
    <3>1. Changes(dev, b, Transport)
      BY <1>6, <2>1 DEF Changes, Transport
    <3>2. /\ b.epIn = dev.epIn /\ b.fault = dev.fault /\ b.bot_state = dev.bot_state
          /\ b.epOut = "none"
      BY <1>6, <2>1 DEF Changes, Fields
    <3> QED BY <1>4, <1>8, <2>1, <3>1, <3>2 DEF TransportMoved, IsCommand
  <2>3. Base(b, main) /\ RingOk(b, main)
    BY <1>1, <2>2, Transported
  <2>4. /\ ~b.ring.processing /\ b.epIn.what = "none" /\ b.epOut = "none" /\ ~b.stalledOut
    BY <1>2, <1>6, <1>8, <2>1 DEF Changes, Fields
  <2>5. TransferOk(dev', main, host', medium, content, known) /\ dev'.epIn.what # "csw"
    BY <1>4, <1>5, <2>1, <2>3, <2>4, StartsData
  <2>6. dev'.bot_state # "SEND_DATA"
    BY <2>5 DEF TransferOk, OrderOk
  <2>7. DoneOk(dev', host', medium', known')
    BY <2>5, <2>6 DEF DoneOk, PassedNow
  <2> QED BY <1>3, <1>11, <2>5, <2>7 DEF Exact, DataOk
<1> QED BY <1>10, <1>12, <1>13

------------------------------------------------------------------------------
(* ReadsTrue and WritesStick. *)

LEMMA DataSteps ==
    ASSUME [Next]_vars
    PROVE  /\ content' = content \/ ReadEnds \/ CryptEnds \/ SendData
           /\ DOMAIN medium' = DOMAIN medium /\ (known' = known \/ ReceiveStatus)
<1>1. CASE Hardware
  BY <1>1 DEF Hardware, ReadEnds, WriteDmaEnds, WriteEnds, CryptEnds, data
<1>2. CASE MainLoop
  BY <1>2 DEF MainLoop, ReadComplete, WriteDmaComplete, WriteComplete, DbComplete,
              CryptComplete, emmc_user_done, TestNone, PickDb, PickStorage, Assign,
              ClearReady, Start, RingAfter, DbAfter, MainOnly, data
<1>3. CASE HostExchange \/ SendCommand \/ ResetRecovery
  <2>1. CASE SendData
    <3>1. medium' = medium /\ known' = known
      BY <2>1 DEF SendData, HostOnly
    <3> QED BY <2>1, <3>1
  <2>2. CASE ~SendData
    BY <1>3, <2>2 DEF HostExchange, SendUnwantedData, ReceiveData, ReceiveStatus, ClearHalt,
                      SendCommand, ResetRecovery, HostOnly, data
  <2> QED BY <2>1, <2>2
<1>4. CASE DbFromMain \/ DbFromInterrupt \/ usbd_scsi_device_state_change \/ UNCHANGED vars
  BY <1>4 DEF DbFromMain, DbFromInterrupt, usbd_scsi_device_state_change, MainOnly, data, vars
<1> QED BY <1>1, <1>2, <1>3, <1>4 DEF Next

LEMMA ContentDomains ==
    ASSUME Domains, [Next]_vars
    PROVE  DOMAIN content' = Buffers /\ \A b \in Buffers : DOMAIN content'[b] = 1 .. BufSectors
<1>1. CASE content' = content
  BY <1>1 DEF Domains
<1>2. ASSUME NEW w, NEW f, DOMAIN f = 1 .. BufSectors, content' = [content EXCEPT ![w] = f]
      PROVE  DOMAIN content' = Buffers /\ \A b \in Buffers : DOMAIN content'[b] = 1 .. BufSectors
  BY <1>2 DEF Domains
<1>3. CASE ReadEnds
  <2>1. CASE dev.op.buf = -1
    BY <1>1, <1>3, <2>1 DEF ReadEnds
  <2>2. CASE dev.op.buf # -1
    <3> DEFINE f == [i \in 1 .. BufSectors |->
                       IF i <= dev.op.len THEN medium[dev.op.addr + i - 1]
                       ELSE content[dev.op.buf][i]]
    <3>1. DOMAIN f = 1 .. BufSectors /\ content' = [content EXCEPT ![dev.op.buf] = f]
      BY <1>3, <2>2 DEF ReadEnds
    <3> HIDE DEF f
    <3> QED BY <1>2, <3>1
  <2> QED BY <2>1, <2>2
<1>4. CASE CryptEnds
  <2>1. PICK w, i, x : content' = [content EXCEPT ![w][i] = x]
    BY <1>4 DEF CryptEnds
  <2> QED BY <2>1 DEF Domains
<1>5. CASE SendData
  <2> DEFINE f == [i \in 1 .. BufSectors |->
                     IF i <= dev.writeLen THEN Outgoing(i) ELSE content[dev.writeBuffer][i]]
  <2>1. DOMAIN f = 1 .. BufSectors /\ content' = [content EXCEPT ![dev.writeBuffer] = f]
    BY <1>5 DEF SendData
  <2> HIDE DEF f
  <2> QED BY <1>2, <2>1
<1> QED BY <1>1, <1>3, <1>4, <1>5, DataSteps

LEMMA DomainsStep ==
    ASSUME StatusInv, Domains, [Next]_vars
    PROVE  Domains'
<1>1. DOMAIN content' = Buffers /\ \A b \in Buffers : DOMAIN content'[b] = 1 .. BufSectors
  BY ContentDomains
<1>2. DOMAIN medium' = DOMAIN medium /\ (known' = known \/ ReceiveStatus)
  BY DataSteps
<1>3. known' = [lun \in Luns |-> [a \in 0 .. Capacity(lun) - 1 |-> known'[lun][a]]]
  <2>1. CASE known' = known
    BY <2>1 DEF Domains
  <2>2. CASE ReceiveStatus
    <3>1. \A lun \in Luns : DOMAIN known[lun] = 0 .. Capacity(lun) - 1
      BY DEF Domains
    <3> QED BY <2>2, <3>1 DEF ReceiveStatus
  <2> QED BY <1>2, <2>1, <2>2
<1>4. IsCommand(host'.cmd)
  <2>1. CASE SendCommand
    <3>1. PICK c \in Commands, cmd \in {[x EXCEPT !.tag = host.cmd.tag + 1] : x \in Commands} :
             /\ cmd = [c EXCEPT !.tag = host.cmd.tag + 1]
             /\ host' = [waiting |-> TRUE, cmd |-> cmd, sent |-> 0, got |-> <<>>]
      BY <2>1 DEF SendCommand
    <3> QED BY <3>1, CommandsOk
  <2>2. CASE host' = host \/ HostExchange \/ ResetRecovery
    <3>1. IsHost(host)
      BY DEF StatusInv
    <3>2. host'.cmd = host.cmd
      BY <2>2, <3>1
      DEF HostExchange, SendData, SendUnwantedData, ReceiveData, ReceiveStatus, ClearHalt,
          ResetRecovery, IsHost, HostFields
    <3> QED BY <3>2 DEF Domains
  <2> QED BY <2>1, <2>2, OnlyHostSteps
<1> QED BY <1>1, <1>2, <1>3, <1>4 DEF Domains

LEMMA ExactStep ==
    ASSUME Sound, Exact, Sound', [Next]_vars
    PROVE  Exact'
<1>1. CASE Hardware
  BY <1>1, ReadEndsData, WriteDmaEndsData, CryptEndsData, SchedulerStepsData DEF Hardware
<1>2. CASE MainLoop
  BY <1>2, ReadCompleteData, WriteDmaCompleteData, WriteCompleteData, CryptCompleteData,
     RingAfterData, SchedulerStepsData DEF MainLoop
<1>3. CASE HostExchange
  BY <1>3, SendDataData, SendUnwantedDataData, ReceiveDataData, ReceiveStatusData,
     ClearHaltData DEF HostExchange
<1>4. CASE SendCommand \/ ResetRecovery
  BY <1>4, SendCommandData, ResetRecoveryData
<1>5. CASE DbFromMain \/ DbFromInterrupt \/ usbd_scsi_device_state_change \/ UNCHANGED vars
  BY <1>5, SchedulerStepsData
<1> QED BY <1>1, <1>2, <1>3, <1>4, <1>5 DEF Next

LEMMA DataInitially == Init => Domains /\ Exact
<1> SUFFICES ASSUME Init
             PROVE  Domains /\ Exact
  OBVIOUS
<1>1. /\ medium = [a \in 0 .. CardSectors - 1 |->
                      IF a \in Of(0) THEN Stored(0, a - region_start(0), 0)
                      ELSE IF a \in Of(1) THEN Stored(1, a - region_start(1), 0)
                      ELSE Garbage]
      /\ content = [b \in Buffers |-> [i \in 1 .. BufSectors |-> Garbage]]
      /\ known = [lun \in Luns |-> [a \in 0 .. Capacity(lun) - 1 |-> 0]]
  BY DEF Init
<1>2. /\ dev.bot_state = "IDLE" /\ dev.ring = ZeroedFifo
      /\ dev.cbw = Command("other", 0, 0, 0, FALSE, 0)
      /\ host = [waiting |-> FALSE, cmd |-> dev.cbw, sent |-> 0, got |-> <<>>]
  BY DEF Init
<1>3. ~host.waiting /\ IsCommand(host.cmd)
  <2>1. host.cmd = Command("other", 0, 0, 0, FALSE, 0) /\ ~host.waiting
    BY <1>2
  <2> QED BY <2>1 DEF IsCommand, Command, Luns
<1>4. Domains
  BY <1>1, <1>3 DEF Domains
<1>5. ~Moving(dev)
  BY <1>2 DEF Moving, ZeroedFifo
<1>6. ASSUME NEW lun \in Luns, NEW a \in 0 .. Capacity(lun) - 1
      PROVE  medium[region_start(lun) + a] = Stored(lun, a, known[lun][a])
  <2>1. /\ region_start(lun) \in Nat /\ Capacity(lun) \in Nat
        /\ region_start(lun) + a \in 0 .. CardSectors - 1
        /\ (region_start(lun) + a) - region_start(lun) = a
    BY VolumeArithmetic
  <2>2. known[lun][a] = 0
    BY <1>1
  <2>3. CASE lun = 0
    <3>1. region_start(lun) + a \in Of(0)
      BY <2>1, <2>3 DEF Of
    <3> QED BY <1>1, <2>1, <2>2, <2>3, <3>1
  <2>4. CASE lun = 1
    <3>1. region_start(lun) + a \in Of(1) /\ region_start(lun) + a \notin Of(0)
      BY <2>1, <2>4, MassStorageAssumption
      DEF Of, region_start, Capacity, EMMC_STORAGE_FIRST_BLOCK
    <3> QED BY <1>1, <2>1, <2>2, <2>4, <3>1
  <2> QED BY <2>3, <2>4 DEF Luns
<1>7. CardOf(dev, host, medium, known) /\ DoneOk(dev, host, medium, known)
  BY <1>2, <1>3, <1>6 DEF CardOf, DoneOk
<1> QED BY <1>4, <1>5, <1>7 DEF Exact, DataOk

(* The fourth layer of the invariant: what the sectors are, unless the race is   *)
(* lost, an address let through, or a command cut short by a reset.             *)
DataInv == Domains /\ (Spared({"race", "range", "reset"}) => Exact)

LEMMA SoundIf ==
    ASSUME StorageInv, Domains, Spared({"race", "range", "reset"})
    PROVE  Sound
<1>1. Spared({"race"}) /\ Spared({"race", "range"})
  BY DEF Spared
<1> QED BY <1>1 DEF Sound, StorageInv, VolumeInv

(* What the sectors hold, in the buffers, on the card and at the host, is kept by*)
(* every step of the firmware, its peripherals and the host.                    *)
THEOREM DataInvariant == Spec => []DataInv
<1>1. Init => DataInv
  BY DataInitially DEF DataInv
<1>2. StorageInv /\ StorageInv' /\ DataInv /\ [Next]_vars => DataInv'
  <2> SUFFICES ASSUME StorageInv, StorageInv', DataInv, [Next]_vars
               PROVE  DataInv'
    OBVIOUS
  <2>1. StatusInv /\ dev.disturbed \subseteq dev'.disturbed
    BY StatusStep DEF StorageInv
  <2>2. Domains /\ Domains'
    BY <2>1, DomainsStep DEF DataInv
  <2>3. ASSUME Spared({"race", "range", "reset"})'
        PROVE  Exact'
    <3>1. Spared({"race", "range", "reset"})
      BY <2>1, <2>3 DEF Spared
    <3>2. Sound /\ Exact
      BY <2>2, <3>1, SoundIf DEF DataInv
    <3>3. Sound'
      <4>1. Spared({"race"})' /\ Spared({"race", "range"})'
        BY <2>3 DEF Spared
      <4> QED BY <2>2, <2>3, <4>1 DEF Sound, StorageInv, VolumeInv
    <3> QED BY <3>2, <3>3, ExactStep
  <2> QED BY <2>2, <2>3 DEF DataInv
<1> QED BY <1>1, <1>2, StorageInvariant, PTL DEF Spec

(* A READ that the device says has passed gave the host every sector it asked   *)
(* for, in order, decrypted, as last written: through the buffers the card and  *)
(* the AES unit fill while USB empties them, the database taking the card in    *)
(* between (SCSI_Read10, readProcessingComplete, usbd_scsi_idle,                *)
(* processDecryptReadComplete), unless the race is lost or an address beyond the*)
(* volume let through.                                                          *)
THEOREM ReadsAreTrue == Spec => []ReadsTrue
<1>1. ASSUME StorageInv, DataInv
      PROVE  ReadsTrue
  <2> SUFFICES ASSUME Spared({"race", "range"}), StatusPending, host.cmd.kind = "read",
                      dev.epIn.passed
               PROVE  host.got = [i \in 1 .. host.cmd.len |->
                         Sector(host.cmd.lun, host.cmd.lba + i - 1,
                                known[host.cmd.lun][host.cmd.lba + i - 1], Plain)]
    BY DEF ReadsTrue
  <2>1. "reset" \notin dev.disturbed
    BY <1>1 DEF StorageInv, StatusInv, StatusOk, StatusPending
  <2>2. Exact
    BY <1>1, <2>1 DEF DataInv, Spared
  <2> QED BY <2>2 DEF Exact, DataOk, DoneOk, PassedNow, StatusPending
<1> QED BY <1>1, StorageInvariant, DataInvariant, PTL

(* A WRITE that the device says has passed is on the card, every sector at its  *)
(* address and encrypted with the vector of that address, and whatever it does  *)
(* not cover is as it was: at every moment, while the pieces move from USB over *)
(* the AES unit to the card (SCSI_Write10, usbd_scsi_idle, emmc_user_storage_   *)
(* start), unless one of the three events has happened.                         *)
THEOREM WritesAreKept == Spec => []WritesStick
<1>1. ASSUME DataInv
      PROVE  WritesStick
  <2> SUFFICES ASSUME Spared({"race", "range", "reset"}),
                      NEW lun \in Luns, NEW a \in 0 .. Capacity(lun) - 1
               PROVE  IF Written(lun, a)
                        THEN Passed => medium[region_start(lun) + a]
                                          = Stored(lun, a, host.cmd.tag)
                        ELSE medium[region_start(lun) + a] = Stored(lun, a, known[lun][a])
    BY DEF WritesStick
  <2>1. /\ CardOf(dev, host, medium, known) /\ DoneOk(dev, host, medium, known)
        /\ IsCommand(host.cmd)
    BY <1>1 DEF DataInv, Exact, DataOk, Domains
  <2>2. CASE ~Written(lun, a)
    BY <2>1, <2>2 DEF CardOf, Replacing, Written
  <2>3. ASSUME Written(lun, a), Passed
        PROVE  medium[region_start(lun) + a] = Stored(lun, a, host.cmd.tag)
    <3>1. WrittenUpTo(medium, host.cmd, host.cmd.len)
      BY <2>1, <2>3 DEF DoneOk, PassedNow, Passed, StatusPending
    <3>2. /\ a - host.cmd.lba \in 0 .. host.cmd.len - 1 /\ host.cmd.lun = lun
          /\ host.cmd.lba + (a - host.cmd.lba) = a
      <4>1. host.cmd.lba \in Nat /\ host.cmd.len \in Nat /\ Capacity(lun) \in Nat
        BY <2>1, VolumeArithmetic DEF IsCommand
      <4>2. a \in host.cmd.lba .. host.cmd.lba + host.cmd.len - 1 /\ host.cmd.lun = lun
        BY <2>3 DEF Written, Covers
      <4> QED BY <4>1, <4>2
    <3> QED BY <3>1, <3>2 DEF WrittenUpTo
  <2> QED BY <2>2, <2>3
<1> QED BY <1>1, DataInvariant, PTL
==============================================================================
