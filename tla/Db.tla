---------------------------------- MODULE Db ----------------------------------
(* The encrypted database of firmware-hc (db.c) with the commands that use it   *)
(* (commands.c): one entry to a block of the eMMC, a table of blocks and a map  *)
(* from ids to blocks in RAM, a cache of one block, and handlers that return    *)
(* and are entered again by the completions of the eMMC, by the button, by its  *)
(* timeout and by the transmission of an answer.                                *)
(*                                                                              *)
(* MAX_PART_SIZE is 1023 sub-blocks, so get_part_count is 1: a block holds one  *)
(* entry, and the code that moves entries between sizes is never reached.       *)
EXTENDS Integers, FiniteSets

CONSTANTS MaxDataBlock,   \* 1023
          MaxUid,         \* 4095
          Data, NoData,   \* what an entry can hold; a deletion (size 0)
          Events          \* what happens besides: "full", "overlap", "fido",
                          \* "storage"

ASSUME DbAssumption ==
    /\ MaxDataBlock \in Nat \ {0}
    /\ MaxUid \in Nat \ {0}
    /\ NoData \notin Data
    /\ Events \subseteq {"full", "overlap", "fido", "storage"}

Blocks        == 1 .. MaxDataBlock
Uids          == 1 .. MaxUid
INVALID_BLOCK == 0       \* also ROOT_DATA_BLOCK

VARIABLES
    disk,            \* the data blocks on the eMMC
    root,            \* the root sectors in flash: "whole" or "overwritten"
    g_device_state,
    active_cmd,
    more,            \* cmd_messages_remaining # 0
    iterated,        \* cmd_iter_count # 0
    waiting,         \* waiting_for_button_press, waiting_for_long_button_press
    cmd,             \* cmd_data: one of the records below
    info,            \* g_block_info_tbl
    uid_map,
    scan_num,        \* db3_startup_scan_blk_num
    cache,           \* block_read_cache, _idx and _updating
    io,              \* the operations of the eMMC and of the flash writer
    reply,           \* the host: the last answer, or that it waits for one
    storage,         \* the eMMC is mass storage's: "active", "ready" (it will
                     \* be), "idle"
    fido,            \* FIDO2, see below
    misled           \* history: the completion of FIDO2's root page was taken
                     \* for that of an update or of STARTUP

tables  == <<info, uid_map, scan_num>>
command == <<more, iterated>>
stored  == <<disk, root>>
beside  == <<storage, fido, misled>>
db      == <<stored, g_device_state, active_cmd, command, waiting, cmd, tables,
             cache, io, reply>>
vars    == <<db, beside>>

------------------------------------------------------------------------------
(* Blocks. `whole': the checksum is right. *)

Entry(u, d) == [uid |-> u, data |-> d]

EmptyBlock == [part_size |-> "MAX", whole |-> TRUE, uid_tbl |-> {}]
FreeBlock  == [part_size |-> "INVALID", whole |-> FALSE, uid_tbl |-> {}]
TornBlock  == [part_size |-> "MAX", whole |-> FALSE, uid_tbl |-> {}]
Holding(u, d) == [part_size |-> "MAX", whole |-> TRUE, uid_tbl |-> {Entry(u, d)}]

AnyBlock == {EmptyBlock, FreeBlock, TornBlock} \cup
                {Holding(u, d) : u \in Uids, d \in Data}

(* struct block_info; a block that is not occupied counts for no partitions. *)
Info(valid, occupied, n) ==
    [valid |-> valid, occupied |-> occupied, part_occupancy |-> n]

(* RAM at power-up. *)
NoInfo  == [b \in Blocks |-> Info(FALSE, FALSE, 0)]
NoMap   == [u \in Uids |-> INVALID_BLOCK]
NoCache == [idx |-> -1, updating |-> FALSE, data |-> EmptyBlock]

IsFree(b)  == info[b].valid /\ ~info[b].occupied
HasRoom(b) == info[b].valid /\ info[b].occupied /\ info[b].part_occupancy < 1

Least(S) == CHOOSE b \in S : \A b2 \in S : b <= b2

(* The ids held by whole blocks, and what they hold. *)
Holders(d, u) ==
    {b \in Blocks : d[b].whole /\ \E e \in d[b].uid_tbl : e.uid = u}

Contents(d) ==
    [u \in Uids |->
        IF Holders(d, u) = {} THEN NoData
        ELSE (CHOOSE e \in d[Least(Holders(d, u))].uid_tbl : e.uid = u).data]

(* The members of cmd_data in use. *)
NoCmd == [uid |-> 0]
ReadCmd(u, masked) == [uid |-> u, masked |-> masked, block_num |-> INVALID_BLOCK]
ReadAllCmd(u, remaining) == [uid |-> u, remaining |-> remaining]
UpdateCmd(u, d, press) ==
    [uid |-> u, entry |-> d, press_type |-> press, block_num |-> INVALID_BLOCK,
     block |-> FreeBlock, blk_info |-> Info(FALSE, FALSE, 0)]

Updates == {"UPDATE_UID", "UPDATE_UIDS"}

(* Answers, as the host understands them: the entry it now knows of. *)
Pending(name) ==
    [to |-> name, code |-> "WAITING", uid |-> 0, data |-> NoData, remaining |-> 0]
Said(name, code) ==
    [to |-> name, code |-> code, uid |-> 0, data |-> NoData, remaining |-> 0]
Told(name, code, u, d, remaining) ==
    [to |-> name, code |-> code, uid |-> u, data |-> d, remaining |-> remaining]

(* The packet has been received, but the device is FIDO2's. *)
Held(name) == Said(name, "HELD")

Unanswered == reply.code \in {"WAITING", "HELD"}

------------------------------------------------------------------------------
(* The eMMC. `now' is the operation the database began first: it is under way,  *)
(* or waits in g_db_action for mass storage to be done. `next' is one begun     *)
(* before that was completed. Two that wait trip the assertion of               *)
(* emmc_user_queue. A write of the root block goes to the flash writer.         *)

NoOp == [act |-> "NONE"]
Read(b, dest)  == [act |-> "READ", idx |-> b, dest |-> dest]
Write(b, data) == [act |-> "WRITE", idx |-> b, data |-> data]

IdleIo == [now |-> NoOp, next |-> NoOp, flash |-> NoOp, failed |-> FALSE]

Queued(i, op) ==
    IF i.now = NoOp THEN [i EXCEPT !.now = op]
    ELSE [i EXCEPT !.next = op,
                   !.failed = @ \/ storage = "active" \/ i.next # NoOp]

(* emmc_user_done: what waits is scheduled, the database first. *)
Done(i) == [i EXCEPT !.now = i.next, !.next = NoOp]
Scheduled == IF storage = "ready" /\ io.next = NoOp THEN "active" ELSE storage

Reading == io.now.act = "READ" /\ storage # "active"
Writing == {w \in {"now", "flash"} : io[w].act = "WRITE"}

------------------------------------------------------------------------------
(* What every handler leaves behind. `name' is the active command, `rest'       *)
(* whether messages remain of it or of its answer, k the cache and i the        *)
(* operations as the handler finds them, c what is in cmd_data.                 *)

(* What an answered command leaves in cmd_data is dead. *)
finish_command_multi(name, rest, answer, c, k, i) ==
    /\ reply' = answer
    /\ active_cmd' = IF rest THEN name ELSE "NONE"
    /\ cmd' = IF rest THEN c ELSE NoCmd
    /\ waiting' = "NONE"
    /\ cache' = k /\ io' = i

(* The handler returns, to be entered again by a completion or the button. *)
Return(name, press, c, k, i) ==
    /\ reply' = Pending(name)
    /\ active_cmd' = name
    /\ cmd' = c
    /\ waiting' = press
    /\ cache' = k /\ io' = i

(* get_cached_data_block on a miss. *)
Load(name, b, c, k, i) ==
    Return(name, "NONE", c, [k EXCEPT !.idx = b, !.updating = TRUE],
           Queued(i, Read(b, "CACHE")))

(* Mutant: whatever block is in the cache is taken for the one asked for. *)
MutantFindUid(u, k) ==
    CASE uid_map[u] = INVALID_BLOCK -> "INVALID"
      [] uid_map[u] # INVALID_BLOCK /\ k.idx = -1 -> "LOADING"
      [] OTHER -> IF \E e \in k.data.uid_tbl : e.uid = u THEN "SUCCESS" ELSE "INVALID"

find_uid(u, k) ==
    LET b == uid_map[u]
    IN CASE b = INVALID_BLOCK -> "INVALID"
         [] b # INVALID_BLOCK /\ k.idx # b -> "LOADING"
         [] OTHER -> IF info[b].part_occupancy > 0
                        /\ \E e \in k.data.uid_tbl : e.uid = u
                     THEN "SUCCESS" ELSE "INVALID"

DataOf(block, u) == (CHOOSE e \in block.uid_tbl : e.uid = u).data

------------------------------------------------------------------------------
(* Updates. *)

(* Mutant: write_data_block does not invalidate the cache. *)
MutantInvalidated(k, b) == k

Invalidated(k, b) == IF k.idx = b THEN [k EXCEPT !.idx = -1] ELSE k

(* Mutant: the update is answered when its write is handed to the eMMC. *)
MutantUpdateComplete(name, c, k, i) ==
    finish_command_multi(name, more, Told(name, "OKAY", c.uid, c.entry, 0), c,
        Invalidated(k, c.block_num), Queued(i, Write(c.block_num, c.block)))

(* The checksum is made here unless the block is freed. With block number 0     *)
(* write_data_block writes the block over the root sector.                      *)
update_uid_cmd_complete(name, c, k, i) ==
    LET op == Write(c.block_num, c.block)
    IN Return(name, "NONE", c, Invalidated(k, c.block_num),
              IF c.block_num = INVALID_BLOCK THEN [i EXCEPT !.flash = op]
                                             ELSE Queued(i, op))

Prepared(name, c, b, block, blk_info, k, i) ==
    LET d == [c EXCEPT !.block_num = b, !.block = block, !.blk_info = blk_info]
    IN CASE c.press_type = 0 -> update_uid_cmd_complete(name, d, k, i)
         [] c.press_type = 1 -> Return(name, "SHORT", d, k, i)
         [] OTHER            -> Return(name, "LONG", d, k, i)

(* A block with the entry added, or in place of the one it had. *)
With(block, u, d) ==
    [block EXCEPT !.whole = TRUE,
                  !.uid_tbl = {e \in @ : e.uid # u} \cup {Entry(u, d)}]

(* A block with room, else a free one. With neither the code goes on with block *)
(* number 0, since db.c:365 tests the pointer block_num for INVALID_BLOCK.      *)
allocate_uid(name, c, k, i) ==
    LET roomy == {b \in Blocks : HasRoom(b)}
        free  == {b \in Blocks : IsFree(b)}
        Put(b, block) == Prepared(name, c, b, With(block, c.uid, c.entry),
                                  Info(TRUE, TRUE, 1), k, i)
    IN \/ roomy # {} /\ k.idx # Least(roomy) /\ Load(name, Least(roomy), c, k, i)
       \/ roomy # {} /\ k.idx = Least(roomy) /\ Put(Least(roomy), k.data)
       \/ roomy = {} /\ free # {} /\ Put(Least(free), EmptyBlock)
       \/ roomy = {} /\ free = {} /\ Put(INVALID_BLOCK, EmptyBlock)

(* update_uid. The deletion of an entry that is not there is never answered. *)
update_uid_cmd_iter(name, c, k, i) ==
    LET rc == find_uid(c.uid, k)
        b  == uid_map[c.uid]
    IN \/ rc = "LOADING" /\ Load(name, b, c, k, i)
       \/ /\ rc = "SUCCESS" /\ c.entry = NoData
          /\ Prepared(name, c, b, FreeBlock, Info(TRUE, FALSE, 0), k, i)
       \/ /\ rc = "SUCCESS" /\ c.entry # NoData
          /\ Prepared(name, c, b, With(k.data, c.uid, c.entry),
                      Info(TRUE, TRUE, 1), k, i)
       \/ rc = "INVALID" /\ c.entry = NoData /\ Return(name, "NONE", c, k, i)
       \/ rc = "INVALID" /\ c.entry # NoData /\ allocate_uid(name, c, k, i)

(* Mutant: the id of a deleted entry keeps its block. *)
MutantMapped(c) == [uid_map EXCEPT ![c.uid] = c.block_num]

(* Mutant: only deletions change the map. *)
MutantUnmapped(c) ==
    IF c.entry = NoData THEN [uid_map EXCEPT ![c.uid] = INVALID_BLOCK] ELSE uid_map

Mapped(c) == [uid_map EXCEPT ![c.uid] = IF c.entry = NoData THEN INVALID_BLOCK
                                                            ELSE c.block_num]

update_uid_cmd_write_finished(i) ==
    /\ info' = [b \in Blocks |-> IF b = cmd.block_num THEN cmd.blk_info
                                                      ELSE info[b]]
    /\ uid_map' = Mapped(cmd)
    /\ finish_command_multi(active_cmd, more,
           Told(active_cmd, "OKAY", cmd.uid, cmd.entry, 0), cmd, cache, i)

------------------------------------------------------------------------------
(* Reads. *)

(* The block is in the cache, or is read again; then the button is asked for    *)
(* again.                                                                       *)
read_uid_cmd_complete(c, k, i) ==
    IF k.idx = c.block_num
      THEN finish_command_multi("READ_UID", FALSE,
               Told("READ_UID", "OKAY", c.uid, DataOf(k.data, c.uid), 0), c, k, i)
      ELSE Load("READ_UID", c.block_num, c, k, i)

read_uid_cmd_iter(c, k, i) ==
    LET rc == find_uid(c.uid, k)
        d  == [c EXCEPT !.block_num = uid_map[c.uid]]
    IN \/ rc = "LOADING" /\ Load("READ_UID", d.block_num, d, k, i)
       \/ rc = "SUCCESS" /\ c.masked /\ read_uid_cmd_complete(d, k, i)
       \/ rc = "SUCCESS" /\ ~c.masked /\ Return("READ_UID", "SHORT", d, k, i)
       \/ /\ rc = "INVALID"
          /\ finish_command_multi("READ_UID", FALSE,
                 Told("READ_UID", "ID_INVALID", c.uid, NoData, 0), c, k, i)

(* Mutant: the entries that remain are counted before the entry is taken off. *)
MutantReadAll(c, k, i) ==
    LET name == "READ_ALL_UIDS"
        left == {u \in Uids : u >= c.uid /\ uid_map[u] # INVALID_BLOCK}
        u    == Least(left)
        d    == [c EXCEPT !.uid = u]
    IN \/ /\ left = {}
          /\ finish_command_multi(name, FALSE, Said(name, "ID_INVALID"), c, k, i)
       \/ left # {} /\ find_uid(u, k) = "LOADING" /\ Load(name, uid_map[u], d, k, i)
       \/ /\ left # {} /\ find_uid(u, k) = "SUCCESS"
          /\ finish_command_multi(name, TRUE,
                 Told(name, "OKAY", u, DataOf(k.data, u), c.remaining), d, k, i)

(* The next entry from c.uid on. No entry at all is answered with ID_INVALID;   *)
(* the last one is the one sent with nothing remaining.                         *)
read_all_uids_cmd_iter(c, k, i) ==
    LET name == "READ_ALL_UIDS"
        left == {u \in Uids : u >= c.uid /\ uid_map[u] # INVALID_BLOCK}
        u    == Least(left)
        d    == [c EXCEPT !.uid = u]
        n    == c.remaining - 1
    IN \/ /\ left = {}
          /\ finish_command_multi(name, FALSE, Said(name, "ID_INVALID"), c, k, i)
       \/ left # {} /\ find_uid(u, k) = "LOADING" /\ Load(name, uid_map[u], d, k, i)
       \/ left # {} /\ find_uid(u, k) = "INVALID" /\ Return(name, "NONE", d, k, i)
       \/ /\ left # {} /\ find_uid(u, k) = "SUCCESS"
          /\ finish_command_multi(name, n # 0,
                 Told(name, "OKAY", u, DataOf(k.data, u), n),
                 [d EXCEPT !.remaining = n], k, i)

------------------------------------------------------------------------------
(* The startup scan. *)

(* Mutant: the scan reads a block ahead. *)
MutantScanRead(i, b) == Queued(Queued(i, Read(b, "SCAN")), Read(b + 1, "SCAN"))

ScanRead(i, b) == Queued(i, Read(b, "SCAN"))

ScanStart(i) ==
    /\ uid_map' = NoMap
    /\ scan_num' = 1
    /\ UNCHANGED info
    /\ Return("STARTUP", "NONE", NoCmd, cache, ScanRead(i, 1))

(* What the scan makes of a block it has read. *)
ScanInfo(block) ==
    LET occupied == block.part_size # "INVALID"
    IN Info(block.whole \/ ~occupied, occupied,
            IF block.whole /\ occupied THEN Cardinality(block.uid_tbl) ELSE 0)

db3_startup_scan_resume(block, k, i) ==
    /\ info' = [info EXCEPT ![scan_num] = ScanInfo(block)]
    /\ uid_map' = [u \in Uids |->
                     IF block.whole /\ \E e \in block.uid_tbl : e.uid = u
                       THEN scan_num ELSE uid_map[u]]
    /\ scan_num' = scan_num + 1
    /\ IF scan_num = MaxDataBlock
         THEN /\ g_device_state' = "LOGGED_OUT"
              /\ finish_command_multi("STARTUP", FALSE, Said("STARTUP", "OKAY"),
                                      NoCmd, k, i)
         ELSE /\ UNCHANGED g_device_state
              /\ Return("STARTUP", "NONE", NoCmd, k,
                        ScanRead(i, scan_num + 1))

------------------------------------------------------------------------------
(* Nothing comes between the two parts of FIDO2's completion (RootFinished),    *)
(* and the model ends where it has misled the database.                         *)
Goes == fido.page # "WRITTEN" /\ ~misled

(* Completions of the hardware, handled in the main loop. A completion is       *)
(* attributed to whatever command is active by then.                            *)

(* What is in the buffer of the scan: the block just read or, if the completion *)
(* was another's, what the union cmd_data held before.                          *)
Scanned == IF io.now.dest = "SCAN" THEN {disk[io.now.idx]} ELSE AnyBlock

read_block_complete ==
    /\ Goes
    /\ Reading
    /\ LET i == Done(io)
           k == [cache EXCEPT !.updating = FALSE,
                              !.data = IF io.now.dest = "CACHE"
                                         THEN disk[io.now.idx] ELSE @]
           Iteration ==
               \/ /\ active_cmd \in Updates
                  /\ update_uid_cmd_iter(active_cmd, cmd, k, i)
               \/ active_cmd = "READ_UID" /\ read_uid_cmd_iter(cmd, k, i)
               \/ active_cmd = "READ_ALL_UIDS" /\ read_all_uids_cmd_iter(cmd, k, i)
       IN \/ cache.updating /\ Iteration /\ UNCHANGED <<tables, g_device_state>>
          \/ /\ active_cmd = "STARTUP"
             /\ \E block \in Scanned : db3_startup_scan_resume(block, k, i)
          \/ /\ active_cmd # "STARTUP"
             /\ ~(cache.updating /\ active_cmd \in
                      Updates \cup {"READ_UID", "READ_ALL_UIDS"})
             /\ cache' = k /\ io' = i
             /\ UNCHANGED <<tables, g_device_state, active_cmd, waiting, cmd, reply>>
    /\ storage' = Scheduled
    /\ UNCHANGED <<stored, command, fido, misled>>

(* The rest of write_block_complete, after the state of the root page.          *)
WriteFinished(i) ==
    CASE active_cmd \in Updates ->
           update_uid_cmd_write_finished(i) /\ UNCHANGED scan_num
      [] active_cmd = "STARTUP" -> ScanStart(i)
      [] OTHER ->
           io' = i /\ UNCHANGED <<tables, active_cmd, waiting, cmd, cache, reply>>

(* The root page counts as synced, and the release that was put off is carried  *)
(* out.                                                                         *)
Synced(f, page) ==
    IF f.page = "WRITING"
      THEN [holds |-> f.holds /\ ~f.asked, asked |-> FALSE, page |-> page]
      ELSE f

write_block_complete ==
    /\ Goes
    /\ \E w \in Writing :
          LET op == io[w]
              i  == IF w = "now" THEN Done(io) ELSE [io EXCEPT !.flash = NoOp]
          IN /\ IF w = "now"
                  THEN /\ storage # "active" /\ storage' = Scheduled
                       /\ disk' = [disk EXCEPT ![op.idx] = op.data]
                       /\ UNCHANGED root
                  ELSE root' = "overwritten" /\ UNCHANGED <<disk, storage>>
             /\ WriteFinished(i)
    /\ fido' = Synced(fido, "EARLY")
    /\ UNCHANGED <<g_device_state, command, misled>>

(* An answer of READ_ALL_UIDS with entries remaining has been sent.             *)
cmd_packet_sent ==
    /\ Goes
    /\ active_cmd = "READ_ALL_UIDS" /\ reply.code = "OKAY"
    /\ read_all_uids_cmd_iter([cmd EXCEPT !.uid = @ + 1], cache, io)
    /\ UNCHANGED <<stored, g_device_state, command, tables, beside>>

------------------------------------------------------------------------------
(* The button, in the main loop. *)

button_press ==
    /\ Goes
    /\ waiting = "SHORT"
    /\ \/ /\ active_cmd = "LOGIN"
          /\ \E ok \in BOOLEAN :
                /\ g_device_state' = IF ok THEN "LOGGED_IN" ELSE g_device_state
                /\ finish_command_multi("LOGIN", FALSE,
                       Said("LOGIN", IF ok THEN "OKAY" ELSE "BAD_PASSWORD"),
                       cmd, cache, io)
       \/ /\ active_cmd = "UPDATE_UID"
          /\ update_uid_cmd_complete("UPDATE_UID", cmd, cache, io)
          /\ UNCHANGED g_device_state
       \/ /\ active_cmd = "READ_UID"
          /\ read_uid_cmd_complete(cmd, cache, io)
          /\ UNCHANGED g_device_state
    /\ UNCHANGED <<stored, command, tables, beside>>

long_button_press ==
    /\ Goes
    /\ waiting = "LONG"
    /\ \/ /\ active_cmd = "UPDATE_UIDS"
          /\ update_uid_cmd_complete("UPDATE_UIDS", cmd, cache, io)
       \/ /\ active_cmd = "READ_ALL_UIDS"
          /\ read_all_uids_cmd_iter(cmd, cache, io)
    /\ UNCHANGED <<stored, g_device_state, command, tables, beside>>

(* Mutant: the timeout ends the wait without an answer. *)
MutantBlinkTimeout ==
    /\ Goes
    /\ waiting # "NONE"
    /\ waiting' = "NONE"
    /\ UNCHANGED <<active_cmd, cmd, reply, cache, io>>
    /\ UNCHANGED <<stored, g_device_state, command, tables, beside>>

blink_timeout ==
    /\ Goes
    /\ waiting # "NONE"
    /\ finish_command_multi(active_cmd, more,
           Said(active_cmd, "BUTTON_PRESS_TIMEOUT"), cmd, cache, io)
    /\ UNCHANGED <<stored, g_device_state, command, tables, beside>>

------------------------------------------------------------------------------
(* Packets of the host, in the USB interrupt. A host sends a command when the   *)
(* last one is answered; only DISCONNECT, CANCEL_BUTTON_PRESS and, from a host  *)
(* program started anew, STARTUP come at other times. A packet that had to wait *)
(* for FIDO2 has become the active command already; its content is only looked  *)
(* at now, so it is chosen now.                                                 *)

Receive(name, remaining) ==
    /\ \/ ~Unanswered /\ active_cmd # "READ_ALL_UIDS"
       \/ reply.code = "HELD" /\ active_cmd = name
    /\ more' = remaining
    /\ iterated' = (remaining \/ (active_cmd = name /\ iterated))
    /\ UNCHANGED <<stored, tables>>

(* "overlap": STARTUP while an operation is under way. It clears a part of      *)
(* cmd_data that a write may still be reading from.                             *)
STARTUP ==
    /\ "overlap" \in Events \/ io = IdleIo
    /\ reply.code = "HELD" => active_cmd = "STARTUP"
    /\ more' = FALSE
    /\ iterated' = FALSE
    /\ IF root = "overwritten"
         THEN /\ g_device_state' = "UNINITIALIZED"
              /\ finish_command_multi("STARTUP", FALSE,
                     Said("STARTUP", "UNKNOWN_DB_FORMAT"), NoCmd, cache, io)
              /\ UNCHANGED tables
         ELSE /\ \E i \in {io} \cup (IF io.now.act = "WRITE"
                                       THEN {[io EXCEPT !.now.data = TornBlock]}
                                       ELSE {}) : ScanStart(i)
              /\ UNCHANGED g_device_state
    /\ UNCHANGED stored

LOGIN ==
    /\ g_device_state = "LOGGED_OUT"
    /\ Receive("LOGIN", FALSE)
    /\ Return("LOGIN", "SHORT", NoCmd, cache, io)
    /\ UNCHANGED g_device_state

LOGOUT ==
    /\ g_device_state = "LOGGED_IN"
    /\ Receive("LOGOUT", FALSE)
    /\ g_device_state' = "LOGGED_OUT"
    /\ finish_command_multi("LOGOUT", FALSE, Said("LOGOUT", "OKAY"), NoCmd, cache, io)

(* "full": a new entry when no block has room for it. *)
Fits(u, d) ==
    \/ "full" \in Events
    \/ d = NoData
    \/ uid_map[u] # INVALID_BLOCK
    \/ \E b \in Blocks : HasRoom(b) \/ IsFree(b)

UPDATE_UID(u, d) ==
    /\ g_device_state = "LOGGED_IN" /\ Fits(u, d)
    /\ Receive("UPDATE_UID", FALSE)
    /\ update_uid_cmd_iter("UPDATE_UID", UpdateCmd(u, d, 1), cache, io)
    /\ UNCHANGED g_device_state

(* Several updates for one long press, asked for by the first of them. *)
UPDATE_UIDS(u, d, remaining) ==
    /\ g_device_state = "LOGGED_IN" /\ Fits(u, d)
    /\ Receive("UPDATE_UIDS", remaining)
    /\ LET press == IF active_cmd = "UPDATE_UIDS" /\ iterated THEN 0 ELSE 2
       IN update_uid_cmd_iter("UPDATE_UIDS", UpdateCmd(u, d, press), cache, io)
    /\ UNCHANGED g_device_state

READ_UID(u, masked) ==
    /\ g_device_state = "LOGGED_IN"
    /\ Receive("READ_UID", FALSE)
    /\ read_uid_cmd_iter(ReadCmd(u, masked), cache, io)
    /\ UNCHANGED g_device_state

READ_ALL_UIDS(masked) ==
    LET c == ReadAllCmd(0, Cardinality({u \in Uids : uid_map[u] # INVALID_BLOCK}))
    IN /\ g_device_state = "LOGGED_IN"
       /\ Receive("READ_ALL_UIDS", FALSE)
       /\ IF masked THEN read_all_uids_cmd_iter(c, cache, io)
                    ELSE Return("READ_ALL_UIDS", "LONG", c, cache, io)
       /\ UNCHANGED g_device_state

(* restart_signet_command, once the device is Signet's. *)
Command ==
    \/ STARTUP \/ LOGIN \/ LOGOUT
    \/ \E u \in Uids, d \in Data \cup {NoData} :
          \/ UPDATE_UID(u, d)
          \/ \E remaining \in BOOLEAN : UPDATE_UIDS(u, d, remaining)
    \/ \E u \in Uids, masked \in BOOLEAN : READ_UID(u, masked)
    \/ \E masked \in BOOLEAN : READ_ALL_UIDS(masked)

cmd_packet_recv == Goes /\ ~fido.holds /\ Command /\ UNCHANGED beside

Commands ==
    CASE g_device_state = "LOGGED_IN" ->
           Updates \cup {"STARTUP", "LOGOUT", "READ_UID", "READ_ALL_UIDS"}
      [] g_device_state = "LOGGED_OUT" -> {"STARTUP", "LOGIN"}
      [] OTHER -> {"STARTUP"}

(* It is FIDO2's: the packet waits, and nothing else is received.               *)
cmd_packet_waits ==
    /\ Goes
    /\ fido.holds /\ ~Unanswered
    /\ \E name \in Commands :
          /\ name = "STARTUP" => io = IdleIo
          /\ active_cmd' = name
          /\ reply' = Held(name)
    /\ iterated' = FALSE
    /\ UNCHANGED <<stored, g_device_state, more, waiting, cmd, tables, cache, io,
                   beside>>

DropReply ==
    reply' = IF Unanswered THEN Said("NONE", "NONE") ELSE reply

(* cmd_disconnect; nothing under way is stopped. *)
DISCONNECT ==
    /\ Goes
    /\ reply.code # "HELD"
    /\ waiting' = "NONE"
    /\ active_cmd' = "NONE"
    /\ g_device_state' = "DISCONNECTED"
    /\ DropReply
    /\ UNCHANGED <<stored, command, cmd, tables, cache, io, beside>>

(* Only a wait for a short press is cancelled here: end_button_press_wait does  *)
(* not end the other one, see the README.                                       *)
CANCEL_BUTTON_PRESS ==
    /\ Goes
    /\ waiting = "SHORT"
    /\ finish_command_multi(active_cmd, more,
           Said(active_cmd, "BUTTON_PRESS_CANCELED"), cmd, cache, io)
    /\ UNCHANGED <<stored, g_device_state, command, tables, beside>>

------------------------------------------------------------------------------
(* FIDO2 (see DeviceArbiter). `holds': the device is its own. `asked':          *)
(* s_subsystem_release_requested. `page': its root page is in the flash; is     *)
(* being written, and counts as such ("WRITING") or as synced ("EARLY"); has    *)
(* just been written. Bounds: it is not modified again while it is written, nor *)
(* by a message whose turn a release has ended, and FIDO2 does not take the     *)
(* device before it is written.                                                 *)

NoFido == [holds |-> FALSE, asked |-> TRUE, page |-> "SYNCED"]

FidoTakes ==
    /\ Goes
    /\ "fido" \in Events
    /\ ~fido.holds /\ fido.page = "SYNCED" /\ active_cmd = "NONE"
    /\ fido' = [fido EXCEPT !.holds = TRUE]
    /\ UNCHANGED <<db, storage, misled>>

(* A message modifies the root block, and the main loop starts to write it.     *)
FidoWrites ==
    /\ Goes
    /\ fido.holds /\ fido.page = "SYNCED"
    /\ fido' = [fido EXCEPT !.page = "WRITING"]
    /\ UNCHANGED <<db, storage, misled>>

(* release_device restarts the packet that waits, within whoever calls it.      *)
Restarted == IF reply.code = "HELD" THEN Command ELSE UNCHANGED db

(* release_device_request, at the end of the message.                           *)
FidoEnds ==
    /\ Goes
    /\ fido.holds
    /\ IF fido.page = "WRITING"
         THEN fido' = [fido EXCEPT !.asked = TRUE] /\ UNCHANGED db
         ELSE fido' = [fido EXCEPT !.holds = FALSE] /\ Restarted
    /\ UNCHANGED <<storage, misled>>

(* The flash writer is done: write_block_complete, up to the release ...        *)
RootWritten ==
    /\ Goes
    /\ fido.page \in {"WRITING", "EARLY"}
    /\ fido' = [Synced(fido, "WRITTEN") EXCEPT !.page = "WRITTEN"]
    /\ IF fido.holds /\ ~fido'.holds THEN Restarted ELSE UNCHANGED db
    /\ UNCHANGED <<storage, misled>>

(* ... and, in the same call, from there on. What it makes of the cmd_data of a *)
(* packet that still waits is not followed.                                     *)
RootFinished ==
    /\ fido.page = "WRITTEN" /\ ~misled
    /\ fido' = [fido EXCEPT !.page = "SYNCED"]
    /\ misled' = (active_cmd \in Updates \cup {"STARTUP"})
    /\ IF reply.code = "HELD"
         THEN UNCHANGED db
         ELSE WriteFinished(io) /\ UNCHANGED <<stored, g_device_state, command>>
    /\ UNCHANGED storage

------------------------------------------------------------------------------
(* Mass storage takes the eMMC, or gets it after the database, and gives it     *)
(* back.                                                                        *)

StorageTakes ==
    /\ Goes
    /\ "storage" \in Events
    /\ storage = "idle"
    /\ storage' = IF io.now = NoOp THEN "active" ELSE "ready"
    /\ UNCHANGED <<db, fido, misled>>

StorageEnds ==
    /\ Goes
    /\ storage = "active"
    /\ storage' = "idle"
    /\ UNCHANGED <<db, fido, misled>>

------------------------------------------------------------------------------
(* After INITIALIZE every block is occupied and empty. *)
Init ==
    /\ disk = [b \in Blocks |-> EmptyBlock]
    /\ root = "whole"
    /\ reply = Said("NONE", "NONE")
    /\ g_device_state = "DISCONNECTED"
    /\ active_cmd = "NONE"
    /\ more = FALSE /\ iterated = FALSE
    /\ waiting = "NONE"
    /\ cmd = NoCmd
    /\ info = NoInfo
    /\ uid_map = NoMap
    /\ scan_num = -1
    /\ cache = NoCache
    /\ io = IdleIo
    /\ storage = "idle" /\ fido = NoFido /\ misled = FALSE

(* Power fails and comes back: a block being written is old, new or torn.       *)
Restart ==
    /\ Goes
    /\ disk' \in {disk} \cup
           (IF io.now.act # "WRITE" \/ storage = "active" THEN {}
            ELSE {[disk EXCEPT ![io.now.idx] = b] : b \in {io.now.data, TornBlock}})
    /\ root' \in {root} \cup (IF io.flash = NoOp THEN {} ELSE {"overwritten"})
    /\ DropReply
    /\ g_device_state' = "DISCONNECTED"
    /\ active_cmd' = "NONE"
    /\ more' = FALSE /\ iterated' = FALSE
    /\ waiting' = "NONE"
    /\ cmd' = NoCmd
    /\ info' = NoInfo
    /\ uid_map' = NoMap
    /\ scan_num' = -1
    /\ cache' = NoCache
    /\ io' = IdleIo
    /\ storage' = "idle" /\ fido' = NoFido /\ UNCHANGED misled

Next ==
    \/ cmd_packet_recv \/ cmd_packet_waits \/ DISCONNECT \/ CANCEL_BUTTON_PRESS
    \/ read_block_complete \/ write_block_complete \/ cmd_packet_sent
    \/ button_press \/ long_button_press \/ blink_timeout
    \/ FidoTakes \/ FidoWrites \/ FidoEnds \/ RootWritten \/ RootFinished
    \/ StorageTakes \/ StorageEnds
    \/ Restart

(* The hardware completes what it is given, the host takes the answers, the     *)
(* main loop goes round. Messages of FIDO2 end, and mass storage gives the eMMC *)
(* back (StorageSystem says when).                                              *)
Fairness ==
    /\ WF_vars(read_block_complete) /\ WF_vars(write_block_complete)
    /\ WF_vars(cmd_packet_sent) /\ WF_vars(blink_timeout)
    /\ SF_vars(FidoEnds) /\ WF_vars(RootWritten) /\ WF_vars(RootFinished)
    /\ WF_vars(StorageEnds)

Spec == Init /\ [][Next]_vars /\ Fairness

------------------------------------------------------------------------------
Cmds ==
    {NoCmd} \cup [uid : Uids, masked : BOOLEAN, block_num : Blocks \cup {0}]
            \cup [uid : 0 .. MaxUid, remaining : 0 .. MaxUid]
            \cup [uid : Uids, entry : Data \cup {NoData}, press_type : 0 .. 2,
                  block_num : Blocks \cup {0}, block : AnyBlock,
                  blk_info : [valid : BOOLEAN, occupied : BOOLEAN,
                              part_occupancy : 0 .. 1]]

(* The types of the variables: in particular a block never holds two entries    *)
(* and the ids and block numbers stay in their ranges.                          *)
TypeOK ==
    /\ disk \in [Blocks -> AnyBlock]
    /\ root \in {"whole", "overwritten"}
    /\ g_device_state \in {"DISCONNECTED", "LOGGED_OUT", "LOGGED_IN", "UNINITIALIZED"}
    /\ active_cmd \in {"NONE", "STARTUP", "LOGIN", "LOGOUT", "READ_UID",
                       "READ_ALL_UIDS"} \cup Updates
    /\ more \in BOOLEAN /\ iterated \in BOOLEAN
    /\ waiting \in {"NONE", "SHORT", "LONG"}
    /\ cmd \in Cmds
    /\ info \in [Blocks -> [valid : BOOLEAN, occupied : BOOLEAN,
                            part_occupancy : 0 .. 1]]
    /\ uid_map \in [Uids -> Blocks \cup {INVALID_BLOCK}]
    /\ scan_num \in {-1} \cup 1 .. MaxDataBlock + 1
    /\ cache \in [idx : Blocks \cup {-1}, updating : BOOLEAN, data : AnyBlock]
    /\ reply.uid \in 0 .. MaxUid /\ reply.data \in Data \cup {NoData}
    /\ reply.remaining \in 0 .. MaxUid
    /\ storage \in {"idle", "ready", "active"}
    /\ fido \in [holds : BOOLEAN, asked : BOOLEAN,
                 page : {"SYNCED", "WRITING", "EARLY", "WRITTEN"}]
    /\ misled \in BOOLEAN

Open == g_device_state \in {"LOGGED_OUT", "LOGGED_IN"} /\ active_cmd # "STARTUP"

(* db.c: "Scans blocks on startup to initialize 'g_block_info_tbl' and          *)
(* 'uid_map'". From then on, between writes, both say what a new scan would     *)
(* say, whatever updates, timeouts, disconnections and torn blocks came before, *)
(* until the completion of FIDO2's root page is taken for that of an update.    *)
MapMatchesDisk ==
    Open /\ Writing = {} /\ ~misled =>
        /\ \A b \in Blocks : info[b] = ScanInfo(disk[b])
        /\ \A u \in Uids : uid_map[u] = IF Holders(disk, u) = {} THEN INVALID_BLOCK
                                        ELSE Least(Holders(disk, u))

(* An id is never in two blocks: the scan would pick the later one, which need  *)
(* not be the newer (the recovery in db3_startup_scan_resume is disabled). Not  *)
(* so once the map has been misled: a deletion that was not written is forgotten *)
(* by the map, and the id goes to a second block when it is added again.        *)
OneBlockPerUid == ~misled => \A u \in Uids : Cardinality(Holders(disk, u)) <= 1

(* The cached block is the block on disk, however long the handler that loaded  *)
(* it waits for the button; what follows a misled update is not claimed.        *)
CacheCoherent ==
    cache.idx \in Blocks /\ ~cache.updating /\ ~misled =>
        cache.data = disk[cache.idx]

(* What an answer said of an entry stays true until the next command: a read    *)
(* gives what is stored, an acknowledged update survives a power failure or a   *)
(* disconnection right after it, and ID_INVALID means there is no such entry.   *)
(* Not so once a completion of FIDO2's has been taken for an update's.          *)
AnswersAreTrue ==
    reply.code \in {"OKAY", "ID_INVALID"} /\ reply.uid # 0 /\ ~misled =>
        Contents(disk)[reply.uid] = reply.data

(* db.c, where an update is answered: "This is the first write completed". An   *)
(* update is acknowledged when its own write is done.                           *)
AcknowledgedIsWritten ==
    reply.code = "OKAY" /\ reply.to \in Updates =>
        Contents(disk)[reply.uid] = reply.data

(* The entries still to come, as an answer of READ_ALL_UIDS counts them.        *)
RemainingExact ==
    reply.to = "READ_ALL_UIDS" /\ reply.code \in {"OKAY", "ID_INVALID"} =>
        reply.remaining =
            Cardinality({u \in Uids : u > reply.uid /\ Contents(disk)[u] # NoData})

(* Every answer of READ_ALL_UIDS counts exactly the entries still to come, so   *)
(* the host ends up with all of them and each once, as long as the tables have  *)
(* not been misled.                                                             *)
ReadAllExact == ~misled => RemainingExact

(* emmc_user_queue asserts that no operation of the database waits already. A   *)
(* handler never starts one while another has not been completed, be it under   *)
(* way or waiting for mass storage; so the assertion holds.                     *)
NoAssertion == ~misled => io.next = NoOp /\ ~io.failed

(* docs/hc/flash_memory_managment.md: "Instead of storing the database in the   *)
(* MCU flash memory, it will be stored in the first 16MB of it's eMMC memory":  *)
(* no entry is written over the root sectors.                                   *)
EntriesOnEmmcOnly == root = "whole" /\ io.flash = NoOp

(* The deletion of an entry that is not there, which is never answered. *)
NothingToDelete ==
    /\ active_cmd \in Updates /\ reply.code # "HELD" /\ cmd.entry = NoData
    /\ io = IdleIo /\ waiting = "NONE"

Busy == Unanswered \/ active_cmd = "READ_ALL_UIDS"

(* Every command is answered, with all the answers it has, whether or not the   *)
(* button is pressed, and although it waits for FIDO2 and for mass storage,     *)
(* unless it deletes an entry that is not there or the database is misled.      *)
Answered == Busy ~> ~Busy \/ NothingToDelete \/ misled

(* Seen from outside, through every power failure, an update happens at once or *)
(* not at all, except that its entry may be lost if the power fails during the  *)
(* write (entries are rewritten in place). It is so up to the completion that   *)
(* misleads the database, where the model ends.                                 *)
Store == INSTANCE EntryStore WITH
            content <- Contents(disk),
            asked <- IF /\ ~misled
                        /\ \/ active_cmd \in Updates /\ reply.code = "WAITING"
                           \/ Writing # {}
                     THEN {<<cmd.uid, cmd.entry>>} ELSE {}
EntriesAtomic == Store!Spec
==============================================================================
