------------------------------ MODULE RootBlock ------------------------------
(* The root block of firmware-hc: device identity, authentication data and      *)
(* FIDO state. Handlers modify the copy in RAM (root_page); the main loop       *)
(* writes it to the flash sector that is not in use (write_root_block), one     *)
(* piece per call of flash_idle, reading RAM as it goes; at power-up cmd_init   *)
(* adopts the newer of the sectors whose checksum is right.                     *)
EXTENDS Integers, FiniteSets

CONSTANTS NFields,      \* pieces of payload, programmed in this order
          IterMod,      \* range of data_iteration (u16 in the code)
          MaxVersion    \* bound: how many modifications and raw writes

ASSUME RootBlockAssumption ==
    /\ NFields \in Nat \ {0}
    /\ IterMod \in Nat \ {0, 1}
    /\ MaxVersion \in Nat

Fields  == 1 .. NFields
Sectors == {1, 2}       \* _crypt_data1, _crypt_data2

(* The sector write_root_block switches to. *)
Other(s) == 3 - s

VARIABLES
    root_page,         \* the copy in RAM
    flash,             \* the two sectors
    _root_page,        \* the sector in use, or being written
    g_root_page_valid,
    g_root_block_sync_state,
    flash_state,
    writing,           \* [dest, src, pos]: flash_write_dest, flash_write_src
    block,             \* cmd_data: the block WIPE or WRITE_BLOCK_HC writes
    version,           \* history: number of the latest modification
    disturbed          \* history: what came in between: "overlap", a modifica-
                       \* tion while the page was being written; "early", the
                       \* completion of another write meanwhile; "startup",
                       \* STARTUP during a write; "raw", WIPE or a restore

vars == <<root_page, flash, _root_page, g_root_page_valid,
          g_root_block_sync_state, flash_state, writing, block, version, disturbed>>

(* struct hc_device_data. The checksum is taken to be perfect: it is the data   *)
(* it was computed from.                                                        *)
Sum(d) == [data_iteration |-> d.data_iteration, data |-> d.data]

Blank == -1
ErasedSector ==
    [crc            |-> [data_iteration |-> Blank, data |-> [f \in Fields |-> 0]],
     data_iteration |-> Blank,
     data           |-> [f \in Fields |-> Blank]]

Sealed(iteration, data) ==
    [crc            |-> [data_iteration |-> iteration, data |-> data],
     data_iteration |-> iteration,
     data           |-> data]

Valid(d) == d.crc = Sum(d)

(* Mutant: the older of two valid sectors is adopted. *)
MutantAdoptOlder(fl) ==
    IF Valid(fl[1]) /\ (Valid(fl[2]) =>
                          fl[1].data_iteration < fl[2].data_iteration) THEN 1
    ELSE IF Valid(fl[2]) THEN 2 ELSE 1

(* The sector cmd_init adopts; with no valid one, the first. *)
Adopted(fl) ==
    IF Valid(fl[1]) /\ (Valid(fl[2]) =>
                          fl[1].data_iteration > fl[2].data_iteration) THEN 1
    ELSE IF Valid(fl[2]) THEN 2 ELSE 1

(* cmd_init: `_root_page' is never NULL here, so the page counts as valid even  *)
(* if neither checksum is right.                                                *)
cmd_init(fl) ==
    /\ _root_page' = Adopted(fl)
    /\ root_page' = fl[Adopted(fl)]
    /\ g_root_page_valid' = TRUE

NotWriting == [dest |-> 1, src |-> "root_page", pos |-> 0]

(* A device out of production: one sector written, the other still erased.      *)
Init ==
    /\ flash = [s \in Sectors |->
                  IF s = 2 THEN Sealed(0, [f \in Fields |-> 0]) ELSE ErasedSector]
    /\ _root_page = 2
    /\ root_page = flash[2]
    /\ g_root_page_valid = TRUE
    /\ g_root_block_sync_state = "SYNCED"
    /\ flash_state = "IDLE"
    /\ writing = NotWriting
    /\ block = Sealed(0, [f \in Fields |-> 0])
    /\ version = 0 /\ disturbed = {}

PageIsRead == flash_state # "IDLE" /\ writing.src = "root_page"

(* A handler changes fields of root_page and calls sync_root_block, be it while *)
(* the flash writer reads the page.                                             *)
Modify(changed) ==
    /\ version < MaxVersion
    /\ version' = version + 1
    /\ disturbed' = disturbed \cup
           (IF PageIsRead THEN {"overlap"} ELSE {})
    /\ root_page' = [root_page EXCEPT !.data =
                       [f \in Fields |-> IF f \in changed THEN version' ELSE @[f]]]
    /\ g_root_block_sync_state' = "MODIFIED"
    /\ UNCHANGED <<flash, _root_page, g_root_page_valid, flash_state, writing,
                   block>>

NextIteration ==
    IF g_root_page_valid THEN (flash[_root_page].data_iteration + 1) % IterMod
                         ELSE 0

(* The data with its new iteration and checksum, as write_root_block leaves it  *)
(* in the caller's buffer.                                                      *)
Stamped(d) == Sealed(NextIteration, d.data)

(* Mutant: the sector in use is written in place. *)
MutantFlashWritePage(src) ==
    /\ flash_state = "IDLE"
    /\ flash_state' = "ERASING"
    /\ writing' = [dest |-> _root_page, src |-> src, pos |-> 0]
    /\ UNCHANGED <<flash, _root_page, g_root_page_valid>>

(* write_root_block switches sectors and starts flash_write_page, which asserts *)
(* that the writer is idle.                                                     *)
flash_write_page(src) ==
    /\ flash_state = "IDLE"
    /\ flash_state' = "ERASING"
    /\ _root_page' = Other(_root_page)
    /\ writing' = [dest |-> _root_page', src |-> src, pos |-> 0]
    /\ UNCHANGED <<flash, g_root_page_valid>>

(* Mutant: the main loop never finds the page in need of a write again. *)
MutantSyncImmediate ==
    /\ g_root_block_sync_state = "MODIFIED"
    /\ _root_page = 2
    /\ g_root_block_sync_state' = "WRITING"
    /\ root_page' = Stamped(root_page)
    /\ flash_write_page("root_page")
    /\ UNCHANGED <<block, version, disturbed>>

(* The main loop: pending, the flash idle, and not already writing. *)
sync_root_block_immediate ==
    /\ g_root_block_sync_state = "MODIFIED"
    /\ g_root_block_sync_state' = "WRITING"
    /\ root_page' = Stamped(root_page)
    /\ flash_write_page("root_page")
    /\ UNCHANGED <<block, version, disturbed>>

(* WIPE writes zeros as the root block, WRITE_BLOCK_HC restores one; the *)
(* copy in RAM is not touched.                                                  *)
WriteRaw(data) ==
    /\ version < MaxVersion /\ version' = version + 1
    /\ disturbed' = disturbed \cup {"raw"}
    /\ block' = Stamped([data |-> data])
    /\ flash_write_page("block")
    /\ UNCHANGED <<root_page, g_root_block_sync_state>>

(* flash_idle, erasing. *)
Erase ==
    /\ flash_state = "ERASING"
    /\ flash' = [flash EXCEPT ![writing.dest] = ErasedSector]
    /\ flash_state' = "WRITING"
    /\ UNCHANGED <<root_page, _root_page, g_root_page_valid, writing, block,
                   g_root_block_sync_state, version, disturbed>>

Source == IF writing.src = "root_page" THEN root_page ELSE block

(* Piece 0 holds the checksum and the iteration, piece f field f. *)
Programmed(d, from, pos) ==
    IF pos = 0 THEN [d EXCEPT !.crc = from.crc,
                              !.data_iteration = from.data_iteration]
               ELSE [d EXCEPT !.data[pos] = from.data[pos]]

(* Mutant: a modification made during the write is forgotten. *)
MutantSyncStateAfterWrite(state) == "SYNCED"

(* write_block_complete: the page is in sync unless it was modified meanwhile.  *)
(* The completion of any write comes here, the database's on the eMMC as well.  *)
SyncStateAfterWrite(state) == IF state = "WRITING" THEN "SYNCED" ELSE state

(* command_idle: the eMMC has written a block, for INITIALIZE or an update.     *)
EmmcWriteComplete ==
    /\ g_root_block_sync_state' = SyncStateAfterWrite(g_root_block_sync_state)
    /\ disturbed' = disturbed \cup
           (IF g_root_block_sync_state = "WRITING" THEN {"early"} ELSE {})
    /\ UNCHANGED <<root_page, flash, _root_page, g_root_page_valid, flash_state,
                   writing, block, version>>

(* flash_idle, writing: one piece, read from the source now; after the last one *)
(* flash_write_complete.                                                        *)
Program ==
    /\ flash_state = "WRITING"
    /\ flash' = [flash EXCEPT ![writing.dest] =
                                 Programmed(@, Source, writing.pos)]
    /\ IF writing.pos = NFields
         THEN /\ flash_state' = "IDLE"
              /\ g_root_block_sync_state' =
                     SyncStateAfterWrite(g_root_block_sync_state)
              /\ writing' = NotWriting
         ELSE /\ writing' = [writing EXCEPT !.pos = @ + 1]
              /\ UNCHANGED <<flash_state, g_root_block_sync_state>>
    /\ UNCHANGED <<root_page, _root_page, g_root_page_valid, block, version,
                   disturbed>>

(* The STARTUP command runs cmd_init whatever is under way. *)
Startup ==
    /\ cmd_init(flash)
    /\ disturbed' = disturbed \cup
           (IF flash_state # "IDLE" THEN {"startup"} ELSE {})
    /\ UNCHANGED <<flash, g_root_block_sync_state, flash_state, writing, block,
                   version>>

(* Power fails, at worst in the middle of the erase, and comes back. *)
Restart ==
    /\ flash' \in {flash} \cup
          (IF flash_state = "ERASING"
             THEN {[flash EXCEPT ![writing.dest] = ErasedSector]} ELSE {})
    /\ cmd_init(flash')
    /\ g_root_block_sync_state' = "SYNCED"
    /\ flash_state' = "IDLE"
    /\ writing' = NotWriting
    /\ UNCHANGED <<block, version, disturbed>>

RawData == {[f \in Fields |-> 0]}

Next ==
    \/ \E changed \in (SUBSET Fields) \ {{}} : Modify(changed)
    \/ sync_root_block_immediate
    \/ \E data \in RawData : WriteRaw(data)
    \/ Erase
    \/ Program
    \/ EmmcWriteComplete
    \/ Startup
    \/ Restart

(* The main loop goes round for as long as the device has power. *)
Fairness ==
    /\ WF_vars(sync_root_block_immediate)
    /\ WF_vars(Erase)
    /\ WF_vars(Program)

Spec == Init /\ [][Next]_vars /\ Fairness

------------------------------------------------------------------------------

Image == [crc            : [data_iteration : Int, data : [Fields -> Int]],
          data_iteration : Int,
          data           : [Fields -> Int]]

(* Every variable has the type the C declarations give it. *)
TypeOK ==
    /\ root_page \in Image
    /\ block \in Image
    /\ flash \in [Sectors -> Image]
    /\ _root_page \in Sectors
    /\ g_root_page_valid \in BOOLEAN
    /\ g_root_block_sync_state \in {"SYNCED", "MODIFIED", "WRITING"}
    /\ flash_state \in {"IDLE", "ERASING", "WRITING"}
    /\ writing \in [dest : Sectors, src : {"root_page", "block"}, pos : 0 .. NFields]
    /\ version \in 0 .. MaxVersion
    /\ disturbed \subseteq {"overlap", "early", "startup", "raw"}

(* Whenever the power fails, a whole root block is left to boot from            *)
(* (docs/hc/flash_memory_managment.md: "This ensures that there is always a     *)
(* valid root sector if the device power is interrupted").                      *)
AlwaysValid == \E s \in Sectors : Valid(flash[s])

(* It is so as long as no modification has overlapped a write, in spite of      *)
(* STARTUP in the middle of one, WIPE and restores past the copy in RAM.        *)
AlwaysRecoverable == "overlap" \notin disturbed => AlwaysValid

(* Then, while nothing is being written, the sector in use is whole: the        *)
(* iteration of the next write is taken from it, and what follows it is the     *)
(* other sector.                                                                *)
InUseIsWhole ==
    "overlap" \notin disturbed /\ flash_state = "IDLE" => Valid(flash[_root_page])

(* Once the page counts as synced, a restart would find exactly what is in RAM: *)
(* the answer to the host, and the release of the device, rest on it. It is so  *)
(* even if modifications have overlapped the write. After another write has     *)
(* been completed in the middle of one, it is so as soon as the flash is idle:  *)
(* until then "Wait until the root block is synchronized to release the device" *)
(* (commands.c) lets go too early.                                              *)
SyncedIsDurable ==
    /\ disturbed \subseteq {"overlap", "early"}
    /\ g_root_block_sync_state = "SYNCED"
    /\ "early" \in disturbed => flash_state = "IDLE"
    => flash[Adopted(flash)].data = root_page.data

(* Every modification comes to count as synced, even if others interrupt its    *)
(* write, as long as they stop and the power stays.                             *)
EventuallySynced ==
    g_root_block_sync_state # "SYNCED" ~> g_root_block_sync_state = "SYNCED"

(* Erasing and programming piece by piece look, to anyone who restarts the      *)
(* device at any moment, like one indivisible update of the durable copy: what  *)
(* is adopted is the latest write that was completed, never a mixture and never *)
(* an older one (memory_layout.h: "u16 data_iteration; //larger is newer").     *)
(* This needs fewer than IterMod writes.                                        *)
Store == INSTANCE RootStore WITH
            Raw <- RawData,
            mem <- root_page.data, disk <- flash[Adopted(flash)].data
AtomicUpdate ==
    Store!Init /\ [][disturbed' \subseteq {"raw", "early"} => Store!Next]_(Store!store)

------------------------------------------------------------------------------
(* The invariant behind AlwaysRecoverable and InUseIsWhole: it lasts until a    *)
(* modification overlaps a write.                                               *)

(* The writer never touches the one whole sector there is. *)
WriterSparesOther == flash_state # "IDLE" => Valid(flash[Other(writing.dest)])

(* The writer reads root_page only while no modification of it is pending, and  *)
(* what it writes from the command's block is whole.                            *)
WhatIsWritten ==
    /\ PageIsRead => g_root_block_sync_state # "MODIFIED"
    /\ flash_state # "IDLE" /\ writing.src = "block" => Valid(block)

(* The fields not programmed yet are erased. *)
RestIsBlank ==
    /\ flash_state = "ERASING" => writing.pos = 0
    /\ flash_state = "WRITING" =>
          \A f \in Fields : writing.pos <= f => flash[writing.dest].data[f] = Blank

(* If the sector being written is the one in use, it will end up whole: the     *)
(* source is, and what has been programmed agrees with it.                      *)
InUseWillBeWhole ==
    flash_state # "IDLE" /\ writing.dest = _root_page =>
        /\ Valid(Source)
        /\ flash_state = "WRITING" =>
              /\ writing.pos > 0 =>
                    /\ flash[writing.dest].crc = Source.crc
                    /\ flash[writing.dest].data_iteration = Source.data_iteration
              /\ \A f \in Fields : f < writing.pos =>
                    flash[writing.dest].data[f] = Source.data[f]

(* No checksum is one of erased fields, and RAM never holds erased fields. *)
NothingBlank ==
    /\ root_page.data \in [Fields -> Nat]
    /\ root_page.crc.data \in [Fields -> Nat]
    /\ block.crc.data \in [Fields -> Nat]
    /\ \A s \in Sectors : flash[s].crc.data \in [Fields -> Nat]

IInv ==
    /\ "overlap" \notin disturbed
    /\ TypeOK
    /\ InUseIsWhole
    /\ WriterSparesOther
    /\ WhatIsWritten
    /\ RestIsBlank
    /\ InUseWillBeWhole
    /\ NothingBlank

Protected == "overlap" \notin disturbed => IInv

------------------------------------------------------------------------------
(* The invariants behind SyncedIsDurable and AtomicUpdate, which compare the    *)
(* iterations of the sectors and so need fewer than IterMod writes.             *)

(* A modification that has not been written has its iteration still to come. *)
Pending == IF g_root_block_sync_state = "MODIFIED" THEN 1 ELSE 0

(* Every iteration there is was given to a modification or a raw write. *)
IterationsCounted ==
    /\ g_root_page_valid
    /\ root_page.data_iteration \in -1 .. (version - Pending)
    /\ block.data_iteration \in -1 .. (version - Pending)
    /\ \A s \in Sectors : flash[s].data_iteration \in -1 .. (version - Pending)

(* Without STARTUP and raw writes the writer writes root_page, to the sector in *)
(* use, with the iteration that follows the other sector's.                     *)
WriterWritesPage ==
    flash_state # "IDLE" =>
        /\ writing.dest = _root_page /\ writing.src = "root_page"
        /\ "early" \in disturbed \/ g_root_block_sync_state # "SYNCED"
        /\ root_page.data_iteration = flash[Other(_root_page)].data_iteration + 1

(* Until it is modified again, what has been written of the page is what it is. *)
WrittenSoFar ==
    flash_state # "IDLE" /\ g_root_block_sync_state # "MODIFIED" =>
        /\ Valid(root_page)
        /\ flash_state = "ERASING" => writing.pos = 0
        /\ writing.pos > 0 =>
              /\ flash[writing.dest].crc = root_page.crc
              /\ flash[writing.dest].data_iteration = root_page.data_iteration
        /\ \A f \in Fields : f < writing.pos =>
              flash[writing.dest].data[f] = root_page.data[f]

(* The page is not in the state WRITING once the writer is done. *)
WritingIsBusy == g_root_block_sync_state = "WRITING" => flash_state # "IDLE"

Durable == WriterWritesPage /\ WrittenSoFar /\ WritingIsBusy /\ SyncedIsDurable

DurableInv == disturbed \subseteq {"overlap", "early"} => Durable

(* Sector s would lose to the other one, whole or not. *)
Older(s) ==
    Valid(flash[s]) => flash[s].data_iteration < flash[Other(s)].data_iteration

(* Without STARTUP during a write the sector in use is the newest, and so is    *)
(* the one being written going to be.                                           *)
InUseIsNewest ==
    disturbed \subseteq {"raw", "early"} =>
        /\ block.data \in RawData
        /\ flash_state = "IDLE" => Older(Other(_root_page))
        /\ flash_state # "IDLE" =>
              /\ writing.dest = _root_page
              /\ Older(writing.dest)
              /\ flash[Other(writing.dest)].data_iteration < Source.data_iteration
==============================================================================
