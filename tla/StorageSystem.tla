---------------------------- MODULE StorageSystem ----------------------------
(* The mass storage function at work: the host and its commands, the interrupts *)
(* of USB, the main loop that attends to the eMMC, the database that shares the *)
(* eMMC, and what the sectors hold. An interrupt may come between any two steps *)
(* of the main loop; emmc_user_schedule called from it is several steps.        *)
EXTENDS MassStorage, Sequences

CONSTANTS LBAs, Lens,   \* addresses and lengths the host asks for
          MaxCommands,  \* bound: commands of the host
          MaxDb,        \* bound: operations of the database
          MaxResets     \* bound: BOT_RESET requests

ASSUME StorageSystemAssumption ==
    /\ LBAs \subseteq 0 .. AddrMod - 1
    /\ Lens \subseteq Nat
    /\ MaxCommands \in Nat /\ MaxDb \in Nat /\ MaxResets \in Nat

VARIABLES
    dev,      \* the variables of the firmware and the state of its peripherals
    main,     \* where the main loop is
    medium,   \* what the sectors of the eMMC hold
    content,  \* what the buffers of the ring hold
    host,     \* the host: its command, the data sent and received
    known,    \* what the host wrote last, sector by sector
    dbOps, resets   \* counters for the bounds

vars == <<dev, main, medium, content, host, known, dbOps, resets>>

(* A sector: of which volume and address, which command wrote it (0: none), and *)
(* the initialization vector it is encrypted with.                              *)
Plain == -1
Sector(lun, at, ver, iv) == [lun |-> lun, at |-> at, ver |-> ver, iv |-> iv]
Stored(lun, at, ver) == Sector(lun, at, ver, IF Encrypted(lun) THEN at ELSE Plain)
Garbage == Sector(-1, -1, -1, Plain)

Decrypt(x, iv) == IF x.iv = iv THEN [x EXCEPT !.iv = Plain] ELSE Garbage
Encrypt(x, iv) == IF x.iv = Plain THEN [x EXCEPT !.iv = iv] ELSE Garbage

Command(kind, lun, lba, len, in, data) ==
    [kind |-> kind, lun |-> lun, lba |-> lba, len |-> len, in |-> in,
     data |-> data, tag |-> 0]

(* READ and WRITE; the same with a header that disagrees; the other commands.   *)
Commands ==
    {Command(kind, lun, lba, len, kind = "read", len) :
        kind \in {"read", "write"}, lun \in Luns, lba \in LBAs, len \in Lens}
    \cup {Command(kind, 0, 0, 1, kind # "read", 1) : kind \in {"read", "write"}}
    \cup {Command("read_capacity", lun, 0, 0, TRUE, 1) : lun \in Luns}
    \cup {Command("test_unit_ready", lun, 0, 0, FALSE, n) : lun \in Luns, n \in {0, 1}}
    \cup {Command("inquiry", 0, 0, 0, TRUE, 1), Command("other", 0, 0, 0, FALSE, 0)}

Idle == [pc |-> "loop", user |-> "NONE", after |-> "none"]

Init ==
    /\ dev = [g_emmc_user |-> "NONE", ready |-> {}, op |-> NoOp, cplt |-> {},
              g_db_action |-> "none",
              bot_state |-> "IDLE", bot_status |-> "NORMAL", tag |-> 0,
              cbw |-> Command("other", 0, 0, 0, FALSE, 0),
              epIn |-> [what |-> "none"], epOut |-> "cbw",
              stalledIn |-> FALSE, stalledOut |-> FALSE,
              visible |-> [lun \in Luns |-> lun = 0],
              scsi_blk_nbr |-> 0, scsi_blk_len |-> 0, writeLen |-> 0,
              stageIdx |-> 0, writeBuffer |-> 0, g_usb_transmitting |-> FALSE,
              reading |-> TRUE, mmcStageIdx |-> 0, mmcReadLen |-> 0,
              mmcBuffer |-> 0, mmcBlockAddr |-> 0, mmcDataToTransfer |-> 0,
              crypt |-> [stageIdx |-> 0, txLen |-> 0, left |-> 0, from |-> 0,
                         to |-> 0, running |-> FALSE, toTransfer |-> 0, sector |-> 0],
              g_cryptOutInt |-> FALSE,
              ring |-> ZeroedFifo, disturbed |-> {}, fault |-> {}]
    /\ main = Idle
    /\ medium = [a \in 0 .. CardSectors - 1 |->
                    IF a \in Of(0) THEN Stored(0, a - region_start(0), 0)
                    ELSE IF a \in Of(1) THEN Stored(1, a - region_start(1), 0)
                    ELSE Garbage]
    /\ content = [b \in Buffers |-> [i \in 1 .. BufSectors |-> Garbage]]
    /\ host = [waiting |-> FALSE, cmd |-> dev.cbw, sent |-> 0, got |-> <<>>]
    /\ known = [lun \in Luns |-> [a \in 0 .. Capacity(lun) - 1 |-> 0]]
    /\ dbOps = 0 /\ resets = 0

Running == "assert" \notin dev.fault       \* a failed assertion stops the device
data == <<medium, content>>
bounds == <<dbOps, resets>>

------------------------------------------------------------------------------
(* The eMMC and the AES unit.                                                   *)

Sectors(x) == x.addr .. x.addr + x.len - 1
Flag(f) == dev' = [dev EXCEPT !.op = NoOp, !.cplt = @ \cup {f}]

(* MMC_DMAReceiveCplt, HAL_MMC_RxCpltCallback. *)
ReadEnds ==
    /\ dev.op.kind = "read" /\ dev.op.len > 0
    /\ content' = IF dev.op.buf = -1 THEN content
                  ELSE [content EXCEPT ![dev.op.buf] =
                          [i \in 1 .. BufSectors |->
                             IF i <= dev.op.len THEN medium[dev.op.addr + i - 1]
                             ELSE @[i]]]
    /\ Flag("rx")
    /\ UNCHANGED <<main, medium, host, known, bounds>>

(* MMC_DMATXTransmitComplete: the card has the data. *)
WriteDmaEnds ==
    /\ dev.op.kind = "write" /\ dev.op.len > 0
    /\ dev' = [dev EXCEPT !.op.kind = "write_wait", !.cplt = @ \cup {"tx_dma"}]
    /\ medium' = IF dev.op.buf = -1 THEN medium
                 ELSE [a \in DOMAIN medium |->
                         IF a \in Sectors(dev.op)
                           THEN content[dev.op.buf][a - dev.op.addr + 1] ELSE medium[a]]
    /\ UNCHANGED <<main, content, host, known, bounds>>

(* HAL_MMC_IRQHandler, HAL_MMC_TxCpltCallback. *)
WriteEnds ==
    /\ dev.op.kind = "write_data"
    /\ Flag("tx")
    /\ UNCHANGED <<main, data, host, known, bounds>>

(* HAL_CRYP_OutCpltCallback: one sector is through the AES unit.                *)
CryptEnds ==
    LET c == dev.crypt
        i == c.txLen - c.left + 1
        x == content[c.from][i]
    IN /\ c.running /\ i \in 1 .. BufSectors
       /\ content' = [content EXCEPT ![c.to][i] =
                        IF dev.reading THEN Decrypt(x, c.sector) ELSE Encrypt(x, c.sector)]
       /\ dev' = [dev EXCEPT !.crypt.running = FALSE, !.g_cryptOutInt = TRUE]
       /\ UNCHANGED <<main, medium, host, known, bounds>>

------------------------------------------------------------------------------
(* The main loop: command_idle, and emmc_user_done and emmc_user_queue step by  *)
(* step. `after' is what the caller does when emmc_user_schedule returns.       *)

At(pc) == Running /\ main.pc = pc
Return == main' = IF main.after = "none" THEN Idle ELSE [main EXCEPT !.pc = "after"]
Goto(pc) == main' = [main EXCEPT !.pc = pc]
MainOnly == UNCHANGED <<data, host, known, bounds>>

Taken(f) == [dev EXCEPT !.cplt = @ \ {f}]

(* The user of the eMMC takes a completion; there must be one. *)
Owned(f) == IF dev.g_emmc_user = "NONE" THEN Fault(Taken(f), "assert") ELSE Taken(f)

ReadComplete ==
    /\ At("loop") /\ "rx" \in dev.cplt
    /\ CASE dev.g_emmc_user = "STORAGE" ->
              /\ dev' = emmc_user_read_storage_rx_complete(Owned("rx"))
              /\ main' = [main EXCEPT !.pc = "done", !.after = "ring"]
         [] dev.g_emmc_user = "DB" ->
              /\ dev' = [Owned("rx") EXCEPT !.cplt = @ \cup {"read_db"}]
              /\ UNCHANGED main
         [] OTHER -> dev' = Owned("rx") /\ UNCHANGED main
    /\ MainOnly

WriteDmaComplete ==
    /\ At("loop") /\ "tx_dma" \in dev.cplt
    /\ dev' = CASE dev.g_emmc_user = "STORAGE" ->
                     emmc_user_write_storage_tx_dma_complete(Owned("tx_dma"))
                [] dev.g_emmc_user = "DB" -> HAL_MMC_WriteBlocks_DMA_Cont(Owned("tx_dma"))
                [] OTHER -> Owned("tx_dma")
    /\ UNCHANGED main /\ MainOnly

WriteComplete ==
    /\ At("loop") /\ "tx" \in dev.cplt
    /\ CASE dev.g_emmc_user = "STORAGE" ->
              /\ dev' = emmc_user_write_storage_tx_complete(Owned("tx"))
              /\ main' = [main EXCEPT !.pc = "done", !.after = "ring"]
         [] dev.g_emmc_user = "DB" ->
              /\ dev' = [Owned("tx") EXCEPT !.cplt = @ \cup {"write_db"}]
              /\ UNCHANGED main
         [] OTHER -> dev' = Owned("tx") /\ UNCHANGED main
    /\ MainOnly

DbComplete ==
    \E f \in {"read_db", "write_db"} :
        /\ At("loop") /\ f \in dev.cplt
        /\ dev' = Taken(f)
        /\ main' = [main EXCEPT !.pc = "done", !.after = "db"]
        /\ MainOnly

CryptComplete ==
    /\ At("loop") /\ dev.g_cryptOutInt
    /\ dev' = usbd_scsi_idle(dev)
    /\ UNCHANGED main /\ MainOnly

(* Mutant: the next user is not started. *)
MutantDone ==
    /\ At("done")
    /\ dev' = [dev EXCEPT !.g_emmc_user = "NONE"]
    /\ Return /\ MainOnly

emmc_user_done ==
    /\ At("done")
    /\ dev' = [dev EXCEPT !.g_emmc_user = "NONE"]
    /\ Goto("test") /\ MainOnly

TestNone ==
    /\ At("test")
    /\ IF dev.g_emmc_user = "NONE" THEN Goto("pick_db") ELSE Return
    /\ UNCHANGED dev /\ MainOnly

PickDb ==
    /\ At("pick_db")
    /\ main' = IF "DB" \in dev.ready THEN [main EXCEPT !.pc = "assign", !.user = "DB"]
               ELSE [main EXCEPT !.pc = "pick_storage"]
    /\ UNCHANGED dev /\ MainOnly

PickStorage ==
    /\ At("pick_storage")
    /\ IF "STORAGE" \in dev.ready
         THEN main' = [main EXCEPT !.pc = "assign", !.user = "STORAGE"]
         ELSE Return
    /\ UNCHANGED dev /\ MainOnly

(* A race is lost when an interrupt has given the eMMC away since the test.     *)
Assign ==
    /\ At("assign")
    /\ dev' = [dev EXCEPT !.g_emmc_user = main.user,
                          !.disturbed = IF dev.g_emmc_user = "NONE" THEN @
                                        ELSE @ \cup {"race"}]
    /\ Goto("clear") /\ MainOnly

ClearReady ==
    /\ At("clear")
    /\ dev' = [dev EXCEPT !.ready = @ \ {main.user}]
    /\ Goto("start") /\ MainOnly

(* emmc_user_db_start and emmc_user_storage_start wait for the card. *)
Start ==
    /\ At("start")
    /\ \/ dev.op = NoOp
       \/ main.user = "STORAGE" /\ dev.bot_state \notin {"DATA_IN", "DATA_OUT"}
    /\ dev' = emmc_user_start(dev, main.user)
    /\ Return /\ MainOnly

RingAfter ==
    /\ At("after") /\ main.after = "ring"
    /\ dev' = Complete(dev, dev.mmcStageIdx, dev.mmcReadLen)
    /\ main' = Idle /\ MainOnly

(* read_block_complete, write_block_complete: the command ends, or goes on with *)
(* a write (UPDATE_UID writes the block it has read).                           *)
DbAfter ==
    /\ At("after") /\ main.after = "db"
    /\ \/ /\ dev' = [dev EXCEPT !.g_db_action = "none"]
          /\ main' = Idle /\ UNCHANGED dbOps
       \/ /\ dbOps < MaxDb
          /\ dbOps' = dbOps + 1
          /\ dev' = MarkReady([dev EXCEPT !.g_db_action = "write"], "DB")
          /\ main' = [Idle EXCEPT !.pc = "test"]
    /\ UNCHANGED <<data, host, known, resets>>

(* read_data_block, write_data_block called from the main loop (the button was  *)
(* pressed) and from an interrupt (a command has arrived).                      *)
DbFromMain ==
    /\ At("loop") /\ dev.g_db_action = "none" /\ dbOps < MaxDb
    /\ \E action \in {"read", "write"} :
          dev' = MarkReady([dev EXCEPT !.g_db_action = action], "DB")
    /\ Goto("test")
    /\ dbOps' = dbOps + 1
    /\ UNCHANGED <<data, host, known, resets>>

DbFromInterrupt ==
    /\ Running /\ dev.g_db_action = "none" /\ dbOps < MaxDb
    /\ \E action \in {"read", "write"} :
          dev' = emmc_user_queue([dev EXCEPT !.g_db_action = action], "DB")
    /\ dbOps' = dbOps + 1
    /\ UNCHANGED <<main, data, host, known, resets>>

(* Logging in and out, from the main loop or an interrupt. *)
usbd_scsi_device_state_change ==
    /\ Running
    /\ dev' = [dev EXCEPT !.visible[1] = ~@]
    /\ UNCHANGED main /\ MainOnly

MainLoop ==
    \/ ReadComplete \/ WriteDmaComplete \/ WriteComplete \/ DbComplete \/ CryptComplete
    \/ emmc_user_done \/ TestNone \/ PickDb \/ PickStorage
    \/ Assign \/ ClearReady \/ Start \/ RingAfter \/ DbAfter

------------------------------------------------------------------------------
(* The host: one command at a time, its data, its status; interrupts of USB.    *)

HostOnly == UNCHANGED <<main, medium, bounds>>

(* Bound: after a reset in the middle of a command no further one is sent.       *)
SendCommand ==
    \E c \in Commands :
        LET cmd == [c EXCEPT !.tag = host.cmd.tag + 1]
        IN /\ Running /\ ~host.waiting /\ host.cmd.tag < MaxCommands
           /\ dev.epOut = "cbw" /\ ~dev.stalledOut /\ "reset" \notin dev.disturbed
           /\ dev' = MSC_BOT_CBW_Decode([dev EXCEPT !.epOut = "none"], cmd)
           /\ host' = [waiting |-> TRUE, cmd |-> cmd, sent |-> 0, got |-> <<>>]
           /\ HostOnly /\ UNCHANGED <<content, known>>

(* More of the data of a WRITE, if the host has more. *)
Sending == host.waiting /\ ~host.cmd.in /\ host.sent < host.cmd.data

Outgoing(i) == Sector(host.cmd.lun, host.cmd.lba + host.sent + i - 1, host.cmd.tag, Plain)

SendData ==
    /\ Running /\ Sending /\ dev.epOut = "data" /\ ~dev.stalledOut
    /\ content' = [content EXCEPT ![dev.writeBuffer] =
                     [i \in 1 .. BufSectors |->
                         IF i <= dev.writeLen THEN Outgoing(i) ELSE @[i]]]
    /\ dev' = MSC_BOT_DataOut([dev EXCEPT !.epOut = "none"])
    /\ host' = [host EXCEPT !.sent = Smaller(@ + dev.writeLen, host.cmd.data)]
    /\ HostOnly /\ UNCHANGED known

(* The device has refused the WRITE and waits for the next command: it takes    *)
(* the data for one.                                                            *)
SendUnwantedData ==
    LET c == [Command("invalid", 0, 0, 0, FALSE, 0) EXCEPT !.tag = 0]
    IN /\ Running /\ Sending /\ dev.epOut = "cbw" /\ ~dev.stalledOut
       /\ dev' = MSC_BOT_CBW_Decode([dev EXCEPT !.epOut = "none"], c)
       /\ host' = [host EXCEPT !.sent = @ + 1]
       /\ HostOnly /\ UNCHANGED <<content, known>>

Polling == Running /\ host.waiting /\ ~dev.stalledIn
Sent == [dev EXCEPT !.epIn = [what |-> "none"]]

ReceiveData ==
    /\ Polling /\ dev.epIn.what \in {"data", "response"}
    /\ dev' = MSC_BOT_DataIn(Sent)
    /\ host' = IF dev.epIn.what = "response" THEN host
               ELSE [host EXCEPT !.got =
                       @ \o [i \in 1 .. dev.epIn.len |-> content[dev.epIn.buf][i]]]
    /\ HostOnly /\ UNCHANGED <<content, known>>

Covers(c, lun, a) == c.lun = lun /\ a \in c.lba .. c.lba + c.len - 1

ReceiveStatus ==
    /\ Polling /\ ~Sending /\ dev.epIn.what = "csw"
    /\ dev' = MSC_BOT_DataIn(Sent)
    /\ host' = [host EXCEPT !.waiting = FALSE, !.sent = 0, !.got = <<>>]
    /\ known' = [lun \in Luns |-> [a \in DOMAIN known[lun] |->
                    IF /\ dev.epIn.passed /\ host.cmd.kind = "write"
                       /\ Covers(host.cmd, lun, a)
                      THEN host.cmd.tag ELSE known[lun][a]]]
    /\ HostOnly /\ UNCHANGED content

(* Clear Feature (ENDPOINT_HALT): USBD_StdEPReq clears the endpoint; it does    *)
(* not call the class, so MSC_BOT_CplClrFeature never runs.                     *)
ClearHalt ==
    /\ Running /\ host.waiting /\ (dev.stalledIn \/ dev.stalledOut)
    /\ dev' = [dev EXCEPT !.stalledIn = FALSE, !.stalledOut = FALSE]
    /\ host' = IF dev.stalledOut THEN [host EXCEPT !.sent = host.cmd.data] ELSE host
    /\ HostOnly /\ UNCHANGED <<content, known>>

(* Reset recovery: BOT_RESET and the clearing of both endpoints.                *)
ResetRecovery ==
    /\ Running /\ resets < MaxResets
    /\ dev' = [MSC_BOT_Reset(dev) EXCEPT
                  !.stalledIn = FALSE, !.stalledOut = FALSE,
                  !.disturbed = IF host.waiting THEN @ \cup {"reset"} ELSE @]
    /\ host' = [host EXCEPT !.waiting = FALSE, !.sent = 0, !.got = <<>>]
    /\ resets' = resets + 1
    /\ UNCHANGED <<main, data, known, dbOps>>

HostExchange == SendData \/ SendUnwantedData \/ ReceiveData \/ ReceiveStatus \/ ClearHalt
Hardware == ReadEnds \/ WriteDmaEnds \/ WriteEnds \/ CryptEnds

Next ==
    \/ Hardware \/ MainLoop \/ HostExchange
    \/ SendCommand \/ ResetRecovery
    \/ DbFromMain \/ DbFromInterrupt \/ usbd_scsi_device_state_change

(* When the main loop, and the host in the command it has begun, have a step to *)
(* take: MainReady is ENABLED MainLoop and HostReady is ENABLED HostExchange.   *)
MainReady ==
    /\ Running
    /\ main.pc = "loop" => dev.cplt # {} \/ dev.g_cryptOutInt
    /\ main.pc = "start" =>
          \/ dev.op = NoOp
          \/ main.user = "STORAGE" /\ dev.bot_state \notin {"DATA_IN", "DATA_OUT"}

HostReady ==
    /\ Running /\ host.waiting
    /\ \/ dev.stalledIn \/ dev.stalledOut
       \/ Sending /\ dev.epOut \in {"data", "cbw"}
       \/ dev.epIn.what \in {"data", "response"}
       \/ dev.epIn.what = "csw" /\ ~Sending

(* The card, the AES unit and the main loop go on; the host goes on with the    *)
(* command it has begun. The last two are WF_vars(MainLoop) and                 *)
(* WF_vars(HostExchange), written out.                                          *)
Fairness ==
    /\ WF_vars(ReadEnds) /\ WF_vars(WriteDmaEnds) /\ WF_vars(WriteEnds)
    /\ WF_vars(CryptEnds)
    /\ []<>(~MainReady) \/ []<><<MainLoop>>_vars
    /\ []<>(~HostReady) \/ []<><<HostExchange>>_vars

Spec == Init /\ [][Next]_vars /\ Fairness

------------------------------------------------------------------------------
(* Properties. dev.disturbed names what has happened that the code does not     *)
(* stand: "race" (emmc_user_queue of the main loop interrupted between the      *)
(* choice and the assignment), "range" (an address beyond the volume let        *)
(* through), "zero" (a transfer of no data), "abort" (a command refused with a  *)
(* stalled endpoint and no status), "reset" (BOT_RESET during a command).       *)

Spared(events) == dev.disturbed \cap events = {}

StatusPending == host.waiting /\ dev.epIn.what = "csw"

(* Unless the race is lost, no assertion fails (a completion has a user, a user *)
(* queues once, a transfer ends with all sectors moved) and nothing is sent on  *)
(* an endpoint that is still sending (USBD_LL_Transmit).                        *)
NoFault == Spared({"race"}) => dev.fault = {}

(* The status the device sends is that of the command the host waits for        *)
(* (csw.dTag), even when refused data was taken for commands.                   *)
StatusIsMine == StatusPending => dev.epIn.tag = host.cmd.tag

(* A READ whose status is "passed" has given the host every sector it asked     *)
(* for, in order, decrypted, as last written (SCSI_Read10, the three stages).   *)
ReadsTrue ==
    /\ Spared({"race", "range"}) /\ StatusPending
    /\ host.cmd.kind = "read" /\ dev.epIn.passed
    => host.got = [i \in 1 .. host.cmd.len |->
                     LET a == host.cmd.lba + i - 1
                     IN Sector(host.cmd.lun, a, known[host.cmd.lun][a], Plain)]

Passed == StatusPending /\ host.cmd.kind = "write" /\ dev.epIn.passed
Written(lun, a) == host.waiting /\ host.cmd.kind = "write" /\ Covers(host.cmd, lun, a)

(* A WRITE whose status is "passed" is on the card, encrypted with the vector   *)
(* of its own address; what the command does not cover is as it was             *)
(* (SCSI_Write10, the three stages, mmcBlockAddr).                              *)
WritesStick ==
    Spared({"race", "range", "reset"}) =>
        \A lun \in Luns : \A a \in 0 .. Capacity(lun) - 1 :
            LET now == medium[region_start(lun) + a]
            IN IF Written(lun, a)
                 THEN Passed => now = Stored(lun, a, host.cmd.tag)
                 ELSE now = Stored(lun, a, known[lun][a])

(* The sectors that go over the eMMC for a volume are sectors of the volume     *)
(* (SCSI_CheckAddressRange, emmc_user_storage_start).                           *)
WithinVolume ==
    /\ Spared({"race", "range"})
    /\ dev.op # NoOp /\ dev.op.buf # -1
    => Sectors(dev.op) \subseteq Of(dev.cbw.lun)

(* A command of the host gets its status, unless one of the events stops it.    *)
Answered ==
    host.waiting ~> ~host.waiting \/ ~Spared({"race", "range", "zero", "abort"})

(* The database gets the eMMC however long the transfers are: unless the race   *)
(* is lost, or a reset or a transfer of no data strands the eMMC, every         *)
(* operation of the database ends (emmc_user_schedule).                         *)
DbServed ==
    dev.g_db_action # "none" ~>
        dev.g_db_action = "none" \/ ~Spared({"race", "range", "zero", "reset"})
==============================================================================
