----------------------------- MODULE Initialize -----------------------------
(* INITIALIZE, WIPE and their GET_PROGRESS (commands.c): operations that go on  *)
(* after their answer. Each is a chain of completions: of the eMMC and of the   *)
(* flash, in the main loop, and of the random number generator, in an           *)
(* interrupt. They share one counter and one buffer, and nothing says which     *)
(* write a completion belongs to. FIDO2 messages write the root block as well,  *)
(* mass storage uses the eMMC, the host may disconnect, power may fail.         *)
EXTENDS Integers

CONSTANTS N,             \* NUM_DATA_BLOCKS
          RingSize,      \* words a random pool holds
          SignetWords,   \* INIT_RAND_DATA_SZ / 4
          CtapWords,     \* words ctap_reset asks for
          Checks,        \* progress the host says it knows
          Events,        \* which of "fido", "storage", "disconnect" and "power"
                         \* (a failure) may happen
          MaxWritten     \* bound: FIDO2 messages come during INITIALIZE while it
                         \* has counted fewer writes than this

ASSUME InitializeAssumption ==
    /\ N \in Nat \ {0} /\ RingSize \in Nat
    /\ SignetWords \in 1 .. RingSize /\ CtapWords \in 1 .. RingSize
    /\ Checks \subseteq Nat /\ MaxWritten \in Nat

VARIABLES
    dev,         \* the variables of the firmware and what its peripherals do
    disk,        \* the blocks of the database: "old" (not written since the
                 \* latest INITIALIZE), "empty", "torn", "zero"
    root,        \* the sector of the root block in use
    disturbed    \* history, since the latest button press: "kept": INITIALIZE
                 \* came to an uninitialized device; "retried": ctap_reset was
                 \* called twice; "fido": a FIDO2 message modified the root page

vars == <<dev, disk, root, disturbed>>

(* struct hc_device_data: whose device identity and keys it has, and whose      *)
(* FIDO2 state. "zero" is the page WIPE writes.                                 *)
Page(key, fido) == [key |-> key, fido |-> fido]
NoPage == Page("none", "none")
NoOp == [kind |-> "none", idx |-> 0, data |-> "none", mixed |-> FALSE]

InitData(d) ==
    [blocks_written |-> 0, rand_avail_init |-> d.rand_avail, needed |-> SignetWords,
     ctap_needed |-> 0, signet_updated |-> FALSE,
     ctap_updated |-> d.state = "UNINITIALIZED", finalized |-> FALSE]
WipeData(idx) == [block_idx |-> idx]
NoData == [started |-> FALSE]

(* The firmware after a reset; cmd_init has adopted page p.                     *)
Boot(p) ==
    [state |-> "DISCONNECTED", active_cmd |-> "none", long |-> "no",
     owner |-> "none", release_requested |-> TRUE,
     sync |-> "SYNCED", root_page |-> p,
     writing |-> NoPage,                 \* the page in the flash writer
     n |-> 0, level |-> <<0, 0>>,        \* the progress
     g_progress_check |-> 0, target |-> "none",
     data |-> NoData,                    \* cmd_data: a union
     uninitialized_wiped |-> FALSE,
     g_emmc_user |-> "NONE", ready |-> {}, g_db_action |-> NoOp, op |-> NoOp,
     scan |-> 0, rand_avail |-> 0, failed |-> FALSE]

Init ==
    /\ \E key \in {"old", "zero"} : root = Page(key, key)
    /\ dev = Boot(root)
    /\ disk = [i \in 1 .. N |-> "old"]
    /\ disturbed = {}

------------------------------------------------------------------------------
(* Every operator below takes the state of the firmware and returns the state   *)
(* the C function leaves.                                                       *)

release_device_request(d, system) ==
    IF d.owner # system THEN d
    ELSE IF d.sync # "SYNCED" THEN [d EXCEPT !.release_requested = TRUE]
    ELSE [d EXCEPT !.owner = "none"]

(* Mutant: the device is given back in the middle of an operation. *)
MutantIdleCheck(d) ==
    IF d.active_cmd = "none" THEN release_device_request(d, "SIGNET") ELSE d

subsystem_idle_check(d) ==
    IF d.active_cmd = "none" /\ d.n = 0 THEN release_device_request(d, "SIGNET") ELSE d

finish_command(d) ==
    subsystem_idle_check([d EXCEPT !.active_cmd = "none", !.target = "none",
                                   !.g_progress_check = 0])

get_total_progress(d) ==
    CASE d.n = 0 -> 0 [] d.n = 1 -> d.level[1] [] OTHER -> d.level[1] + d.level[2]

(* GET_PROGRESS is answered when there is more progress than the host knew, or  *)
(* the state is not the one it asked about.                                     *)
get_progress_check(d) ==
    IF d.active_cmd = "GET_PROGRESS" /\
       (d.target # d.state \/ get_total_progress(d) > d.g_progress_check)
      THEN finish_command(d) ELSE d

(* Mutant: whoever waits for progress is not told of the new state. *)
MutantEnter(d, state, n) ==
    subsystem_idle_check([d EXCEPT !.state = state, !.n = n, !.level = <<0, 0>>,
                                   !.g_progress_check = 0])

enter_progressing_state(d, state, n) ==
    subsystem_idle_check(get_progress_check(
        [d EXCEPT !.state = state, !.n = n, !.level = <<0, 0>>,
                  !.g_progress_check = 0]))

enter_state(d, state) == enter_progressing_state([d EXCEPT !.data = NoData], state, 0)

(* The database comes before mass storage. *)
emmc_user_schedule(d) ==
    IF d.g_emmc_user # "NONE" THEN d
    ELSE IF "DB" \in d.ready
      THEN [d EXCEPT !.g_emmc_user = "DB", !.ready = @ \ {"DB"}, !.op = d.g_db_action,
                     !.g_db_action = NoOp]
    ELSE IF "STORAGE" \in d.ready
      THEN [d EXCEPT !.g_emmc_user = "STORAGE", !.ready = @ \ {"STORAGE"}]
    ELSE d

emmc_user_done(d) == emmc_user_schedule([d EXCEPT !.g_emmc_user = "NONE", !.op = NoOp])

emmc_user_queue(d, user) ==
    IF user \in d.ready THEN [d EXCEPT !.failed = TRUE]
    ELSE emmc_user_schedule([d EXCEPT !.ready = @ \cup {user}])

Db(d, kind, idx, data) ==
    emmc_user_queue([d EXCEPT !.g_db_action =
                       [kind |-> kind, idx |-> idx, data |-> data, mixed |-> FALSE]], "DB")

(* write_root_block: the flash writer asserts that it is idle. *)
write_root_block(d, page) ==
    IF d.writing # NoPage THEN [d EXCEPT !.failed = TRUE] ELSE [d EXCEPT !.writing = page]

(* Block 0 is the root block, and only WIPE writes it this way. *)
write_data_block(d, idx, data) ==
    IF idx = 0 THEN write_root_block(d, Page(data, data)) ELSE Db(d, "write", idx, data)

(* The next block is made up in the buffer of the last; if that is still being  *)
(* written, what reaches the card is mixed.                                     *)
WriteEmpty(d, idx) ==
    write_data_block([d EXCEPT !.op.mixed = @ \/ d.op.data = "empty"], idx, "empty")

------------------------------------------------------------------------------
(* INITIALIZE.                                                                  *)

(* The device identity and the keys. *)
UpdateSignet(d) ==
    IF d.data.signet_updated \/ d.rand_avail < SignetWords THEN d
    ELSE [d EXCEPT !.rand_avail = @ - SignetWords, !.root_page.key = "new",
                   !.data.signet_updated = TRUE]

(* Mutant: a FIDO2 state for which the numbers ran out counts as one. *)
MutantUpdateCtap(d) ==
    IF d.data.ctap_updated \/ ~d.data.signet_updated THEN d
    ELSE [d EXCEPT !.data.ctap_updated = TRUE]

(* The FIDO2 state. When ctap_reset runs out of random numbers it is called     *)
(* again with enough of them; but crypto_random_init is not, so it finds fewer  *)
(* served than requested and returns without writing the state.                 *)
UpdateCtap(d) ==
    IF d.data.ctap_updated \/ ~d.data.signet_updated \/ d.rand_avail < d.data.ctap_needed
      THEN d
    ELSE IF d.data.ctap_needed = 0 /\ d.rand_avail < CtapWords
      THEN [d EXCEPT !.data.rand_avail_init = d.rand_avail,
                     !.data.ctap_needed = CtapWords, !.data.needed = CtapWords]
    ELSE [d EXCEPT !.rand_avail = @ - CtapWords, !.data.ctap_updated = TRUE,
                   !.root_page.fido = IF d.data.ctap_needed = 0 THEN "new" ELSE @]

(* Mutant: the page is finalized again with every word. *)
MutantFinalize(d) ==
    IF d.data.signet_updated /\ d.data.ctap_updated
      THEN [d EXCEPT !.sync = "MODIFIED"] ELSE d

(* sync_root_block, when both are done. *)
Finalize(d) ==
    IF d.data.signet_updated /\ d.data.ctap_updated
      THEN [d EXCEPT !.sync = "MODIFIED", !.data.finalized = TRUE] ELSE d

finalize_root_page_check(d) ==
    IF d.data.finalized THEN d ELSE Finalize(UpdateCtap(UpdateSignet(d)))

db3_startup_scan(d) == Db([d EXCEPT !.scan = 1], "read", 1, "none")

BlockWritten(d) ==
    LET w == d.data.blocks_written + 1
    IN get_progress_check([d EXCEPT !.data.blocks_written = w,
                                    !.level[1] = IF w > N THEN N ELSE w])

(* Mutant: the scan does not wait for the root block. *)
MutantIter(d) ==
    LET p == BlockWritten(d)
        w == p.data.blocks_written
    IN IF w < N THEN WriteEmpty(p, w + 1) ELSE db3_startup_scan(finalize_root_page_check(p))

(* A write has completed, of a block or of the root block: after N of them the  *)
(* root page is due, after one more the blocks are scanned.                     *)
initializing_iter(d) ==
    LET p == BlockWritten(d)
        w == p.data.blocks_written
    IN CASE w < N -> WriteEmpty(p, w + 1)
         [] w = N -> finalize_root_page_check(p)
         [] OTHER -> db3_startup_scan(p)

(* cmd_rand_update, from rand_push: the progress counts the words that are left *)
(* after the page has taken its own, and one more.                              *)
cmd_rand_update(d) ==
    LET f == finalize_root_page_check(d)
    IN IF d.state # "INITIALIZING" THEN d
       ELSE IF f.rand_avail > f.data.needed THEN f
       ELSE get_progress_check(
              [f EXCEPT !.level[2] = f.rand_avail - f.data.rand_avail_init + 1])

initialize_cmd_complete(d) ==
    enter_progressing_state(
        [finish_command(WriteEmpty(d, 1)) EXCEPT !.data = InitData(d)], "INITIALIZING", 3)

------------------------------------------------------------------------------
(* WIPE, and the completions.                                                   *)

wipe_cmd_complete(d) ==
    enter_progressing_state(
        write_data_block([finish_command(d) EXCEPT !.data = WipeData(0)], 0, "zero"),
        "WIPING", 1)

BlockWiped(d) ==
    LET i == d.data.block_idx + 1
    IN get_progress_check([d EXCEPT !.data = WipeData(i), !.level[1] = i])

(* Mutant: the last block is left as it was. *)
MutantWipeIter(d) ==
    LET w == BlockWiped(d)
    IN IF w.data.block_idx = N
         THEN enter_state([w EXCEPT !.uninitialized_wiped = TRUE], "UNINITIALIZED")
         ELSE write_data_block(w, w.data.block_idx, "zero")

WipeIter(d) ==
    LET w == BlockWiped(d)
    IN IF w.data.block_idx = N + 1
         THEN enter_state([w EXCEPT !.uninitialized_wiped = TRUE], "UNINITIALIZED")
         ELSE write_data_block(w, w.data.block_idx, "zero")

(* The first completion while the root block is being written, of whatever, is  *)
(* taken for its own.                                                           *)
RootWritten(d) ==
    IF d.sync # "WRITING" THEN d
    ELSE IF d.release_requested
      THEN [d EXCEPT !.sync = "SYNCED", !.release_requested = FALSE, !.owner = "none"]
      ELSE [d EXCEPT !.sync = "SYNCED"]

write_block_complete(d) ==
    LET r == RootWritten(d)
    IN CASE d.state = "INITIALIZING" -> initializing_iter(r)
         [] d.state = "WIPING" -> WipeIter(r)
         [] OTHER -> r

(* db3_startup_scan_resume, at the end of the scan. *)
ScanDone(d) ==
    LET out == enter_state([d EXCEPT !.scan = 0], "LOGGED_OUT")
    IN IF d.active_cmd = "STARTUP" THEN finish_command(out) ELSE out

db3_read_block_complete(d) ==
    IF d.state # "INITIALIZING" /\ d.active_cmd # "STARTUP" THEN d
    ELSE IF d.scan < N THEN Db([d EXCEPT !.scan = @ + 1], "read", d.scan + 1, "none")
    ELSE ScanDone(d)

------------------------------------------------------------------------------
(* The main loop.                                                               *)

Running == ~dev.failed                 \* a failed assertion stops the device

(* disturbed, when there are too few words for the first ctap_reset. *)
Retried(d) == disturbed \cup
    IF d.state = "INITIALIZING" /\ d.data.ctap_needed # 0 THEN {"retried"} ELSE {}

Becomes(d) == dev' = d /\ disturbed' = Retried(d)

(* command_idle: a read or write of the database has ended; the eMMC goes to    *)
(* the next user before the completion is attended to.                          *)
EmmcDone ==
    /\ Running /\ dev.g_emmc_user = "DB"
    /\ LET o == dev.op
           d == emmc_user_done(dev)
       IN IF o.kind = "read"
            THEN Becomes(db3_read_block_complete(d)) /\ UNCHANGED disk
            ELSE /\ \E x \in {o.data} \cup (IF o.mixed THEN {"torn"} ELSE {}) :
                      disk' = [disk EXCEPT ![o.idx] = x]
                 /\ Becomes(write_block_complete(d))
    /\ UNCHANGED root

(* The main loop starts the write of the root page. *)
sync_root_block_immediate ==
    /\ Running /\ dev.sync = "MODIFIED" /\ dev.writing = NoPage
    /\ dev' = write_root_block([dev EXCEPT !.sync = "WRITING"], dev.root_page)
    /\ UNCHANGED <<disk, root, disturbed>>

(* flash_write_complete. A page modified while it was written may have a wrong  *)
(* checksum, and the other sector stays the valid one.                          *)
FlashDone ==
    /\ Running /\ dev.writing # NoPage
    /\ root' \in {dev.writing} \cup
                  IF dev.writing = dev.root_page \/ dev.writing.key = "zero" THEN {} ELSE {root}
    /\ Becomes(write_block_complete([dev EXCEPT !.writing = NoPage]))
    /\ UNCHANGED disk

(* What INITIALIZE finds is old. *)
Old(x) == IF x \in {"zero", "none"} THEN x ELSE "old"
OldPage(p) == Page(Old(p.key), Old(p.fido))

(* A long press, while the host's side has the device. It takes two seconds: a  *)
(* write of the root block or of one block of the database ends before, unless  *)
(* it waits for mass storage.                                                   *)
long_button_press ==
    /\ Running /\ dev.long # "no" /\ dev.owner = "SIGNET"
    /\ dev.sync # "MODIFIED" /\ dev.writing = NoPage /\ dev.g_emmc_user # "DB"
    /\ LET d == [dev EXCEPT !.long = "no"]
           left == IF dev.ready = {} THEN {} ELSE disturbed
       IN IF dev.active_cmd = "INITIALIZE"
            THEN /\ dev' = initialize_cmd_complete(
                              [d EXCEPT !.root_page = OldPage(@), !.writing = OldPage(@)])
                 /\ disk' = [i \in 1 .. N |-> Old(disk[i])]
                 /\ root' = OldPage(root)
                 /\ disturbed' = left \cup (IF dev.state = "UNINITIALIZED" THEN {"kept"} ELSE {})
            ELSE /\ dev' = IF dev.active_cmd = "WIPE" THEN wipe_cmd_complete(d) ELSE d
                 /\ disturbed' = IF dev.active_cmd = "WIPE" THEN left ELSE disturbed
                 /\ UNCHANGED <<disk, root>>

blink_timeout ==
    /\ Running /\ dev.long = "blinking"
    /\ dev' = finish_command([dev EXCEPT !.long = "no"])
    /\ UNCHANGED <<disk, root, disturbed>>

------------------------------------------------------------------------------
(* Interrupts: a random word, and the commands of the host. The host library    *)
(* sends a command when the last is answered; only CANCEL and DISCONNECT come   *)
(* before. A command that finds the device with FIDO2 waits (DeviceArbiter).    *)

RandPush ==
    /\ Running /\ dev.rand_avail < RingSize
    /\ LET d == [dev EXCEPT !.rand_avail = @ + 1]
       IN Becomes(IF dev.owner = "SIGNET" THEN cmd_rand_update(d) ELSE d)
    /\ UNCHANGED <<disk, root>>

Recv ==
    /\ Running /\ dev.active_cmd = "none" /\ dev.owner # "CTAP"
    /\ UNCHANGED <<disk, root, disturbed>>

Taken(cmd) == [dev EXCEPT !.active_cmd = cmd, !.owner = "SIGNET"]

(* initialize_cmd, wipe_cmd. *)
BeginLongWait(cmd) ==
    /\ Recv
    /\ dev' = IF dev.state \in {"UNINITIALIZED", "LOGGED_OUT"}
                THEN [Taken(cmd) EXCEPT !.long = "blinking"]
                ELSE finish_command(Taken(cmd))

get_progress_cmd(check, target) ==
    /\ Recv
    /\ dev' = get_progress_check(
                [Taken("GET_PROGRESS") EXCEPT !.g_progress_check = check, !.target = target])

(* STARTUP, of a host program that begins when nothing is under way. *)
startup_cmd ==
    /\ Recv
    /\ dev.state \in {"DISCONNECTED", "UNINITIALIZED", "LOGGED_OUT"}
    /\ dev.sync = "SYNCED" /\ dev.writing = NoPage
    /\ dev.g_emmc_user # "DB" /\ "DB" \notin dev.ready
    /\ LET d == [Taken("STARTUP") EXCEPT !.root_page = root, !.long = "no"]
       IN dev' = IF root.key = "zero"
                   THEN finish_command(enter_state(
                          [d EXCEPT !.uninitialized_wiped = FALSE], "UNINITIALIZED"))
                   ELSE db3_startup_scan(d)

(* CANCEL_BUTTON_PRESS stops the blinking and ends the short wait only. *)
cancel_button_press ==
    /\ Running /\ dev.active_cmd # "none" /\ dev.long # "no"
    /\ dev' = finish_command([dev EXCEPT !.long = "stale"])
    /\ UNCHANGED <<disk, root, disturbed>>

cmd_disconnect ==
    /\ Running /\ "disconnect" \in Events
    /\ dev' = enter_state([dev EXCEPT !.long = "no", !.active_cmd = "none"], "DISCONNECTED")
    /\ UNCHANGED <<disk, root, disturbed>>

(* A FIDO2 message has its turn, modifies the root page and asks for the        *)
(* release, which waits for the write.                                          *)
CtapMessage ==
    /\ Running /\ "fido" \in Events /\ dev.owner = "none"
    /\ dev.state = "INITIALIZING" => dev.data.blocks_written < MaxWritten
    /\ dev' = [dev EXCEPT !.owner = "CTAP", !.sync = "MODIFIED", !.release_requested = TRUE]
    /\ disturbed' = disturbed \cup {"fido"}
    /\ UNCHANGED <<disk, root>>

(* A transfer of mass storage. *)
StorageBegin ==
    /\ Running /\ "storage" \in Events
    /\ dev' = emmc_user_queue(dev, "STORAGE")
    /\ dev.g_emmc_user # "STORAGE" /\ "STORAGE" \notin dev.ready
    /\ UNCHANGED <<disk, root, disturbed>>

StorageEnd ==
    /\ Running /\ dev.g_emmc_user = "STORAGE"
    /\ dev' = emmc_user_done(dev)
    /\ UNCHANGED <<disk, root, disturbed>>

(* Power is lost and comes back: the sector being written is not valid, the     *)
(* block being written is neither the old one nor the new one.                  *)
PowerCycle ==
    /\ "power" \in Events
    /\ dev' = Boot(root)
    /\ \E x \in {"old", "torn"} :
          disk' = IF dev.op.kind = "write" THEN [disk EXCEPT ![dev.op.idx] = x] ELSE disk
    /\ UNCHANGED <<root, disturbed>>

MainLoop == EmmcDone \/ sync_root_block_immediate \/ FlashDone
Button == long_button_press \/ blink_timeout
Host == \/ \E cmd \in {"INITIALIZE", "WIPE"} : BeginLongWait(cmd)
        \/ \E check \in Checks, target \in {"INITIALIZING", "WIPING"} :
              get_progress_cmd(check, target)
        \/ startup_cmd \/ cancel_button_press \/ cmd_disconnect
Next == MainLoop \/ Button \/ RandPush \/ Host \/ CtapMessage
        \/ StorageBegin \/ StorageEnd \/ PowerCycle

(* The main loop goes round, random words keep coming while there is room, and  *)
(* transfers of mass storage end. The first three lines are WF_vars(EmmcDone),  *)
(* WF_vars(FlashDone) and WF_vars(RandPush), written out.                       *)
Fairness ==
    /\ []<>(~Running \/ dev.g_emmc_user # "DB") \/ []<><<EmmcDone>>_vars
    /\ []<>(~Running \/ dev.writing = NoPage) \/ []<><<FlashDone>>_vars
    /\ []<>(~Running \/ dev.rand_avail = RingSize) \/ []<><<RandPush>>_vars
    /\ WF_vars(sync_root_block_immediate) /\ WF_vars(StorageEnd)

Spec == Init /\ [][Next]_vars /\ Fairness

------------------------------------------------------------------------------
(* Properties.                                                                  *)

(* INITIALIZE ends when no block of before is left. If no FIDO2 message wrote   *)
(* the root block meanwhile, the new keys are in the flash; if the FIDO2 state  *)
(* was to be replaced and the random numbers sufficed at once, it is as well.   *)
InitializedWhole ==
    [][dev.state = "INITIALIZING" /\ dev'.state = "LOGGED_OUT" =>
          /\ \A i \in 1 .. N : disk'[i] \in {"empty", "torn"}
          /\ "fido" \notin disturbed' => root'.key = "new"
          /\ disturbed' = {} => root'.fido = "new"]_vars

(* A device that says it is wiped, and takes a new firmware for that, has       *)
(* nothing of before in its blocks and in the root sector it uses: unless a     *)
(* FIDO2 message has written the page that is still in RAM.                     *)
WipedWhole ==
    dev.uninitialized_wiped /\ dev.state = "UNINITIALIZED" /\ "fido" \notin disturbed =>
        root.key = "zero" /\ \A i \in 1 .. N : disk[i] = "zero"

(* Without mass storage and without FIDO2 messages, the database is not queued  *)
(* twice for the eMMC, nor the flash writer started twice.                      *)
NoAssertion == dev.failed => dev.g_emmc_user = "STORAGE" \/ "fido" \in disturbed

(* The random numbers are full before the page is made and the host has not     *)
(* asked for the progress meanwhile: nothing calls finalize_root_page_check.    *)
Starved == dev.state = "INITIALIZING" /\ ~dev.data.finalized
           /\ dev.data.blocks_written >= N
           /\ (dev.rand_avail = RingSize \/ dev.owner # "SIGNET")

(* A host that asks for the progress is answered. *)
Answered == dev.active_cmd = "GET_PROGRESS" ~> dev.active_cmd # "GET_PROGRESS" \/ Starved \/ dev.failed

=============================================================================
