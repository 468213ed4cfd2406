# Signet HC firmware: TLA+ models, checks and proofs

This directory holds TLA+ specifications of the firmware of the Signet HC
password manager (`src/firmware-hc`), TLC configurations that model-check them,
and TLAPS proofs of their main safety properties. Paths below are relative to
the repository (`src/` here); `commands.c` and other bare names are in
`firmware-hc/`.

1. [The system](#1-the-system)
2. [What is hard about it](#2-what-is-hard-about-it)
3. [The modules and the code](#3-the-modules-and-the-code)
4. [The runs](#4-the-runs)
5. [Fairness](#5-fairness)
6. [What is proved](#6-what-is-proved)
7. [Where code and documentation part](#7-where-code-and-documentation-part)
8. [What is not modelled](#8-what-is-not-modelled)
9. [Plan](#9-plan)

## 1. The system

The device is a USB composite device: a password database and a set of commands
over raw HID, a FIDO2/U2F authenticator over a second HID interface, a keyboard
that types passwords, and a mass storage disk. It has one processor. There are
no threads: USB, eMMC, crypto unit, clock and random number generator raise
interrupts, and a main loop (`main.c:660-710`) polls everything else: the
button, the flash writer, the eMMC scheduler, FIDO2, typing. A handler never
waits. It starts an operation, leaves the command in `cmd_data` and
`active_cmd`, and returns; a completion, a button press, a timeout or a
transmitted packet enters it again.

| Component | State it keeps | Operations | Correct when |
|---|---|---|---|
| Bulk buffer ring (`buffer_manager.c`) and the transfers of `usbd_msc_scsi.c` | indices, stall and processing flags per stage, sizes per buffer | start, execStage, stallStage, processingComplete, called from eMMC, AES and USB interrupts | no two stages use a buffer in conflict, every chunk passes every stage once and in order, a transfer ends exactly when all is moved, no stage is left asleep |
| Root block store (`commands.c`, `memory_layout.h`) | `root_page` in RAM, two flash sectors, the one in use, `g_root_block_sync_state` | modify, write, completion, `cmd_init` at boot and on STARTUP, WIPE, WRITE_BLOCK_HC | a whole block survives any power failure; what counts as synced is in flash |
| Flash writer (`flash.c`) | state, destination, source pointer, position | `flash_write_page`, one step per round of the main loop | writes what it was given, one write at a time |
| Device arbiter (`commands.c:1800-1860`) | owner, two waiting flags, a release put off | `request_device`, `release_device`, `release_device_request` | the two host interfaces take turns; nobody waits for ever; nobody holds on to the device |
| Random pools (`rand.c`) | two rings with level and rewind point | `rand_push` (interrupts), `rand_get`, rewind points | nobody gets an unset word; a repeated FIDO2 message sees the same words; nobody waits for ever |
| Database (`db.c`) | block table, id map, block cache, `cmd_data` | scan, update, read, read all | RAM tables and disk agree; an answer is true; an update is atomic |
| eMMC scheduler (`commands.c:300-420`) | current user, queue per user | `emmc_user_queue`, `emmc_user_done`, schedule | one user at a time; whoever queued gets its turn |
| Mass storage (`usbd_msc_*.c`) | transport state, volumes, transfer state | SCSI commands, BOT_RESET | data stays in its volume; the eMMC is given back |
| Command state machine (`commands.c`) | device state, active command, button waits | about forty commands, wrong-state rejections, timeouts | each packet is answered once; states change only as commands say |
| FIDO2 (`fido2/*.c`, `fido_device.c`) | channels, message buffer, processing flag | CTAPHID packets, CTAP2/U2F commands | one message at a time per device |
| Firmware update, bootloader (`firmware_update_state.c`, `bootloader_state.c`) | two programs with checksums, boot mode in the option bytes | erase, write, switch | there is always a program that boots |
| Raw HID (`usb_raw_hid.c`), keyboard (`usb_keyboard.c`) | reassembly sequence, one transmit buffer | packets in and out | no packet lost or mixed with another |
| Host library (`signetdev/host`) | queue of messages, the one sent, the one answered | send, receive, device gone | each call returns once |
| Legacy firmware (`firmware/`) | its own database and commands | | |

How they meet:

- **Commands and FIDO2** share the device through the arbiter; both modify the
  root block, and a release waits for the root block to reach flash.
- **Commands and database** share `cmd_data`, `active_cmd` and the block cache.
  Completions of the eMMC carry no identity: whatever command is active when one
  arrives takes it for its own.
- **One completion for all writes.** `write_block_complete` (`commands.c:726-775`)
  serves the blocks of the database on the eMMC (`:198-203`), the root page, and
  the sectors of a firmware update (`:777`). It acts on three globals: the sync
  state of the root page, which it takes from WRITING to SYNCED whatever was
  written; a release that was put off, which it carries out, restarting a packet
  that waits before it goes on; and `active_cmd`, which is the waiting packet's
  from the moment it was received (`:1893`).
- **Database and mass storage** share the eMMC through the scheduler.
- **Random pools** are filled in interrupts and emptied both in interrupts and
  in the main loop.
- **Flash writer** reads `root_page` through a pointer while handlers may change
  it.

## 2. What is hard about it

The list under `hazards` in `PROJECT.json` names each place. In short:

- *Handlers in several interrupts and the main loop.* Stages of a transfer
  complete in any order; `level--` in the main loop is interrupted by
  `level++`; the second half of a handler runs after another handler.
- *State read before a wait and used after it.* READ_UID keeps pointers into the
  block cache across a button press; the writer of the flash keeps a pointer to
  a page that changes; a completion is attributed by `active_cmd`, and a packet
  that waits for FIDO2 is `active_cmd` before it has begun.
- *Power loss* in the erase or in the middle of programming a root sector, or
  in the middle of a database block.
- *Deferred release.* A release asked for while the root block is not in flash
  must be remembered, and must not hit the next command.
- *Everybody waiting.* A stage, a host program or a FIDO2 message that is woken
  only by somebody else's completion.
- *Limits.* The ring of buffers full, the random rings full against a rewind
  point, the database full, block number 0.

## 3. The modules and the code

```
BufferManager  <- BufferFifo  <- BufferFifoProofs
               <- MassStorage <- StorageSystem <- StorageSystemProofs
RootStore (abstract) ... RootBlock <- RootBlockProofs
DeviceArbiter  <- CommandProofs
RandPool       <- RandPoolProofs
EntryStore (abstract) ... Db <- DbProofs
FirmwareUpdate <- FirmwareUpdateProofs
Initialize     <- InitializeProofs
UsbHid         <- CommandProofs
```

`<-` is EXTENDS, `...` a refinement by INSTANCE. `StorageSystemProofs` also
instantiates `BufferFifoProofs` with the counters of the device. The `map` of `PROJECT.json`
gives the source lines of every definition. `CommandProofs` holds the proofs about
`DeviceArbiter` and, in sections of their own, those about `UsbHid`; so that it
can extend both, the names of `UsbHid` that `DeviceArbiter` has too are others
there (`HidSpec`, `FinishAndSend` for `finish_command`, `HostDisconnects` for
`cmd_disconnect`). A definition named `Mutant...` is a
plausible bug in the definition that follows it; no specification uses it. It
is there to show that a property notices.

Several modules keep a history variable `disturbed`: the names of the overlaps
the code does not stand. A property excepts by name the overlaps that break it,
and holds in all other behaviours; section 7 says what each of them does.

### BufferManager, BufferFifo: mass storage transfers

`BufferManager` has one operator per function of `buffer_manager.c`, each from
`struct bufferFIFO` to `struct bufferFIFO`; every function runs with interrupts
disabled, so each is one step. `BufferFifo` is a transfer: `Start(n, size)` is
`SCSI_Read10` or `SCSI_Write10` starting a plain (two stages: eMMC and USB) or
encrypted (three, AES in between) transfer; `Account(s)` and `PassOn(s)` are the
two critical sections of a completion handler: it first subtracts what was moved
and stalls the stage when nothing is left (`bufferFIFO_stallStage`), then calls
`bufferFIFO_processingComplete`. Handlers of other stages run between the two.
`content` is a history variable: the chunk each buffer holds and the stage it
comes from. Data are sector counts; a bulk transfer's payload is the number of
its chunk.

### RootStore, RootBlock: the root block and the flash writer

`RootBlock` has both sectors, the copy in RAM and the writer. An erase, and each
piece that `flash_idle` programs, is a step; the writer reads the piece *then*
from the page it was pointed to. `cmd_init` adopts the sector whose checksum is
right and whose `data_iteration` is larger. A checksum is modelled by the data it was computed
from, so a torn or mixed sector is exactly one whose checksum is wrong.
`Restart` is power loss between or in the middle of steps. Everything else that
touches the root block comes in any order, and `disturbed` remembers it:

- `"overlap"`: a handler modified `root_page` while a write was under way;
- `"startup"`: STARTUP read the sectors again during a write;
- `"raw"`: WIPE or WRITE_BLOCK_HC wrote a block of the command's buffer over a
  root sector without touching `root_page`;
- `"early"`: a write of the eMMC was completed while the root page was being
  written (`EmmcWriteComplete`, at any time: an UPDATE_UID sent while a write
  FIDO2 left is going on, the blocks of INITIALIZE beside its page), and the page
  counted as synced although the flash writer was not done. From then on a
  modification overlaps the write although the state does not say so, and is
  noted as an overlap (`PageIsRead`).

`SyncedIsDurable` says that a synced page is what a restart would adopt; after an
early completion, as soon as the flash is idle. Until then the code does not keep
it (7.4).

`RootStore` is what the pair of sectors promises: a copy in memory, one on disk,
an atomic update of the second, and a crash that reverts the first.

### DeviceArbiter: whose turn it is

The variables are the arbiter's four, the root block's state (as in
`RootBlock`, reduced to SYNCED, MODIFIED, WRITING), and for each side whether it
has something to do: `activeCmd` and `progressing` (`n_progress_components`) for
commands, `ctapProcessing` for FIDO2. A command is received, runs and is
answered (`finish_command`); INITIALIZE and WIPE are answered first and go on
after it (`FinishAndProgress`, `commands.c:1133`, `829`). A handler that modifies
the root block is `SignetModify`, or part of `restart_command`. The completion of the write carries
out a release that was put off; a completion of the eMMC that does so early
(`RootBlock`) is the same step, since how far the page has got is not here. Nor
is what a command does in between, or what the rest of the completion does: see
`Db` and `FirmwareUpdate`.

### RandPool: random words

Two rings with head, tail, level, rewind tail and rewind level. `rand_push(s)`
is the interrupt of a source; `TakeRtc`, `TakeTrng`, `TakeDone` are `rand_get`,
cut at the two places where an interrupt matters: the load and the store of each
`level--`. With `Preempt`, `rand_push` may come in between: it may when
`rand_get` runs in the main loop (LOGIN after a button press, a FIDO2 message
after a touch) and not when it runs in an interrupt that those of the sources do
not preempt. A Signet command waits until all its words are there; a FIDO2
message takes what is there, goes on with filler, and is carried through again
from its rewind point (`CtapRestart`). `BootRewind` starts with the rewind point
that `main` leaves when FIDO2 could not be initialized at boot (`main.c:580`).
The run has both. A slot's contents is a bit that every push flips, enough to
tell the word before a push from the one after it.

### EntryStore, Db: the encrypted database

`Db` has the blocks on the eMMC, the two tables in RAM, the cache of one block,
the operations under way, `cmd_data` and the host's last answer. Each handler of
`db.c` is an operator over what the handler finds; the three ways out of a
handler are `finish_command_multi` (answered), `Return` (wait for the button or
a completion) and `Load` (wait for a block). The actions are the packets of the
host, the two completions, the transmission of an answer, the button, its
timeout and `Restart`. A power failure during a write leaves the block old, new
or torn. `EntryStore` is what a host may rely on: an entry changes to what was
asked, at once, or is lost if power fails while it is written. `Events` adds what
else may happen: `"full"` (a new entry with no room; the run `db_full`),
`"overlap"` (STARTUP while an operation is under way, 7.6; in no run),
`"storage"` and `"fido"`.

With `"storage"` the eMMC is also mass storage's. `io.now` is the operation the
database began first, under way or waiting in `g_db_action`; `io.next` is one
begun before that was completed. Two that wait fail the assertion of
`emmc_user_queue` (`failed`): at once when mass storage holds the eMMC.
`NoAssertion` is stronger than the assertion: `next` is never used.

With `"fido"` the device is also FIDO2's, and FIDO2 has a root page to write. A
packet that comes meanwhile is received and waits (`cmd_packet_waits`, `HELD`);
`active_cmd` is its own already, and its content, which is looked at when it is
restarted, is chosen then. The completion of the root page is two actions with
nothing in between: `RootWritten` carries out the release and restarts the
packet, `RootFinished` is the rest of `write_block_complete`, which takes the
write for that of an update or of STARTUP if one is active: one just restarted,
or one that waits for the button or for its own block. `misled` says that this
has happened. The model shows that step, its answer and what it does to the
tables, and ends there: what is in `cmd_data` is the rest of some earlier
command, and every property about the tables is false for reasons that have
nothing to do with `db.c` any more. The properties say `~misled`, and the run
`db_fido` shows the step. A completion of an eMMC write while the root page is
being written makes it count as synced (`Synced`, `EARLY`), and carries out the
release.

What is abstracted: `MAX_PART_SIZE` is such that a block holds one entry
(`get_part_count` is 1), so the code that moves an entry to a block of another
part size, and the third loop of the allocation, cannot be reached and is not
there.
Encryption is the identity on the contents of an entry, and masked and unmasked
reads differ only in the button press. Handlers are atomic in the model. In the
code a packet (USB interrupt, priority 2) can interrupt a completion of the eMMC
(priority 3) or a button handler (main loop) half way; the host's discipline
leaves DISCONNECT, CANCEL_BUTTON_PRESS and STARTUP as the packets that could,
and those interleavings are not in the model. Commands refused because of the
device state are not sent. INITIALIZE is the initial state: every block written
empty (its own module is `Initialize`).

### MassStorage, StorageSystem: the disk of the device

`MassStorage` has one operator per function of `usbd_msc_bot.c`,
`usbd_msc_scsi.c` and of the eMMC scheduler in `commands.c`, each from the state
of the device, a record, to the state it leaves. `StorageSystem` makes actions
of them: the host sends a command, data or a request; the interrupts of USB, the
card and the AES unit; and the main loop, whose call of `emmc_user_schedule` is
cut between the choice of the next user and its start (`main.pc`), because it
runs with interrupts enabled. Sectors carry the volume, the address and the
command they were written by, and the initialization vector they are encrypted
with, so a sector at the wrong place, of the wrong command, or decrypted with
the wrong vector is not what the host expects. The host remembers what it wrote
(`known`). Commands are READ, WRITE, both with a header that disagrees with the
direction or length, READ CAPACITY, TEST UNIT READY, INQUIRY and one the device
does not know; BOT_RESET may come at any time. The database is a user of the
eMMC that queues itself from the main loop and from interrupts.

### FirmwareUpdate: two programs

The program that runs erases and writes the other one: `erase_flash_pages_cmd`
and `ErasingNext` sector by sector, `write_flash_cmd`, `switch_boot_mode_cmd`
with the option bytes, resets and losses of power at any step, and GET_PROGRESS
meanwhile. The root block uses the same flash writer, and one completion serves
all: `flash_write_complete` goes by `active_cmd` and the device state. A sector
of a program holds the version it belongs to; a checksum is right when all
sectors are of the version announced.

The application shares the device with FIDO2 (`owner`, `asked`, `waits`: the
variables of the arbiter; `ctap`: a message is under way). A packet that comes
while FIDO2 has the device becomes `active_cmd` and waits (`PacketWaits`). A
release restarts it inside whatever carried the release out: `call` says that a
release request or a completion has called `restart_signet_command` and nothing
else can happen until that has run (`Turn`) and, for a completion, the rest of
`flash_write_complete` as well (`CompletionGoesOn`). What the command does on its
turn, and what it holds, is chosen when it is restarted. `Aside` is
`subsystem_idle_check` after what is not a packet.

`promised` is any one write that the host was told is done when its own write was
complete. `disturbed` has `"overlap"` (STARTUP or DISCONNECT while the flash is
written, or FIDO2 modifies the root block although a release put off has ended
its turn, 7.2) and `"foreign"` (a completion was taken for another's: for
WRITE_FLASH's, the erase's or STARTUP's). The model goes on after both,
except after a failed assertion, where the device stops.

### Initialize: INITIALIZE, WIPE and their progress

Commands that go on after their answer, as a chain of completions: of blocks on
the eMMC, of the flash (the root page), and of random numbers, in an interrupt.
The three share `n_progress_components`, `g_progress_level` and the buffer of
`cmd_data`. `EmmcDone` and `FlashDone` are completions in the main loop,
`RandPush` is the interrupt; GET_PROGRESS waits until there is more to tell.
FIDO2 messages, mass storage holding the eMMC, DISCONNECT and power failures
come in between.

### UsbHid: packets, events, typing

An answer of several packets, and the events "button pressed" and "seconds
left", go over one endpoint; the text of TYPE goes over another. `dev.out` is
what the endpoint holds and `dev.tx_report` the one packet that waits behind it.
The interrupts call `usb_raw_hid_tx` and `usb_tx_keyboard` whole; the main loop
calls the same functions and is interrupted between their steps (`main.pc`). An
endpoint is given an address, not a packet: `dev.seen` is the set of contents
its buffer has had since, and the host gets any one of them. The host puts
packets together as `signetdev_priv_process_rx_packet` does and waits for its
answer by number.

## 4. The runs

Sizes are distinct states; times are for two cores.

| Run | Module, constants | States | Shows |
|---|---|---|---|
| `buffer_fifo` | BufferFifo: 4 buffers of 2 sectors, transfers of 1 to 13 sectors, 2 or 3 stages | 13 932 | `NoConflict`, `ReadsNextChunk`, `CompleteMeansMoved`; every transfer completes |
| `root_block` | RootBlock: 2 fields, iteration modulo 16, 4 modifications, everything else at any time | 666 522, 46 s | power loss anywhere leaves a whole block unless a modification overlapped a write; what counts as synced is durable (after an early completion: once the flash is idle), and is reached, even then; the pair of sectors refines `RootStore` |
| `arbiter` | DeviceArbiter: 5 commands, 3 modifications, all kinds of work | 2 729 | `TurnsRespected`, `HeldOnlyInUse`; both sides are served |
| `arbiter_overlap` | the same, only `modify` | | the violation of section 7.2 |
| `rand_pool` | RandPool: rings of 4, up to 2 words, preemption, the rewind point of the boot | 229 310 | lost updates never overstate a ring; a repeated message sees the same words; everyone is served but for two named causes |
| `db` | Db: 2 blocks, 2 ids, 2 contents, `fido` and `storage` | 560 810, 1 m 30 s | until the database is misled: tables match the disk, one block to an id, cache coherent, answers true, READ_ALL_UIDS exact, no operation is begun while another is under way or waits, `Db` refines `EntryStore`; every command is answered |
| `db_fido` | 2 blocks, 1 id, `fido` | | the violation of section 7.5 |
| `db_full` | 2 blocks, 3 ids, `full` | | the violation of section 7.3 |
| `storage` | StorageSystem: 2 buffers of 2 sectors, volumes of 5 and 6 sectors, addresses 1 and 14 modulo 16, lengths 0 and 5, 3 commands, 1 operation of the database, 1 BOT_RESET | 784 608, 1 m 50 s | what is read and written is right and stays in its volume, each command gets its own status, the database is served |
| `firmware_update` | FirmwareUpdate: programs of 2 sectors, 2 versions | 1 827 840, 2 m | a whole program boots; what WRITE_FLASH confirmed stays; every command is answered, also one that waits for FIDO2 |
| `initialize` | Initialize: 2 blocks, pools of 3 words, 2 words for each part, all disturbances | 580 488, 40 s | INITIALIZE and WIPE replace everything before they end, and whoever polls is answered |
| `usb_hid` | UsbHid: answers of up to 2 packets, 2 entries, texts of 2 and 3 characters counted modulo 3, 2 events | 476 848, 40 s | the host gets whole answers, TYPE types its text, every command is answered |

Why the bounds are enough:

- *BufferFifo.* Thirteen sectors are seven chunks through four buffers, the last
  one short: every index goes once round the ring, the writer of the first stage
  meets the full ring, and the indices' arithmetic has no other period. The
  proofs of section 6 remove the bounds for safety.
- *RootBlock.* Two fields make a sector that is half programmed; a modification
  may hit the field before or after the writer's position. Four modifications
  use each sector twice. The iteration is kept below its wrap (`IterMod`): "the
  larger is newer" is false across it, after 65 536 writes.
- *DeviceArbiter.* Five commands and three modifications cover a command of each
  side, a waiter, a release put off and a second command of the owner; the state
  has no counter otherwise.
- *RandPool.* A ring of four holds three words, more than a command needs (two)
  and less than two commands need, so empty, full and full-against-the-rewind-
  point all happen. A level falls further below what its ring holds with every
  lost update, but nobody takes from a ring whose level is 0, so the space is
  finite without a bound on the level.
- *Db.* Two ids and two blocks: an entry in the block with the lower or with the
  higher number, with the other one occupied, empty or torn, an id that comes back
  in another block than before, a scan that goes on after its first read. Two
  contents distinguish an update from what it replaces. The proofs of section 6
  remove the bounds for all safety properties. The database of 1 023 blocks and
  4 095 ids becomes full in `db_full` with two blocks and three ids. FIDO2 takes the device, modifies its page and gives it back any
  number of times, but does not modify the page again while it is being written
  (`RootBlock` does).
- *StorageSystem.* Five sectors are two full buffers and a short one through a
  ring of two, so the ring wraps and fills. Address 1 with length 5 is within the second
  volume and beyond the first; 14 wraps. Three commands: one that leaves
  something behind, one that meets it, one after both.
- *FirmwareUpdate.* Two sectors make a program half erased or half written; the
  number of commands, FIDO2 messages, resets and failures is not bounded. The
  proofs remove the bound on sectors and versions. FIDO2 does not modify the root block while it is being written in its own turn (`RootBlock` does):
  that only repeats the write, whose completion then finds it modified.
- *Initialize.* Two blocks: the second write begins in the completion of the
  first. Pools of three words hold the words of one part and not of both.
  `MaxWritten` stops FIDO2 messages once the count of writes is two past the
  end.
- *UsbHid.* Two packets: a first that is not the last. Answers are numbered
  modulo 3, more than are ever in flight. A text of three characters counted
  modulo 3 is one of 256 in a `u8`, and types nothing; one of two has a first
  and a later character. What follows a disturbance that excuses every property
  is not explored.

Deadlock is checked except where the system really stops: in `arbiter` and
`arbiter_overlap` when the commands of the bound are used up, in `rand_pool` when
lost updates have made a ring look empty for good (see 7.11), in the `db` runs
because the model ends where the database is misled, in `storage` when the commands are used up or a
command is never answered, in `usb_hid` after a failed assertion or such a
disturbance.

`TurnsRespected` and `HeldOnlyInUse` are the parts of mutual exclusion that hold
of the code; `OneAtATime` as such does not, which is what `arbiter_overlap`
shows.

## 5. Fairness

All fairness is weak, but for one action of `Db`.

- *BufferFifo*: the eMMC, the AES unit and the USB host finish what they are
  given, and the handlers run. Nothing makes a host start a transfer.
- *RootBlock*: the main loop goes round (`sync_root_block_immediate`, the steps
  of `flash_idle`). `EventuallySynced` needs modifications to stop, which the
  bound on them gives.
- *DeviceArbiter*: a command ends, at the latest by the ten second timeout of
  its button wait; the main loop starts writes and the FIDO2 initialization.
  Nothing makes anyone send a command.
- *RandPool*: a source whose interrupt is enabled goes on producing words, and
  whoever has the device goes on. For `SignetDone` only the case in which all
  words were taken is fair: a command may also be given up, and need not be.
- *Db*: the eMMC and the flash complete an operation, the host takes an answer,
  the main loop counts the button's timeout. The button is never pressed by
  fairness. Mass storage gives the eMMC back, which `StorageSystem` shows of it,
  and a FIDO2 message comes to its end (strong fairness: the action is disabled
  between the two halves of a completion, which may come again and again).
- *StorageSystem*: the card and the AES unit complete, the main loop goes round,
  and the host carries on with a command it has begun. The last two are written
  out as `[]<>~Ready \/ []<><<Action>>`, which is weak fairness with the enabling
  condition stated instead of computed.
- *FirmwareUpdate*: the main loop goes round, the scan at start-up ends, the
  button's timeout runs out, the reset comes, a FIDO2 message ends (at the
  latest by its own timeout), and a function that was called runs (`CalledRuns`:
  the packet a release restarts, and the rest of the completion).
- *Initialize*: the eMMC and the flash complete, the generator produces words
  while its interrupt is enabled, the main loop starts the write of a modified
  root page, mass storage gives the eMMC back. Nothing makes the host poll.
- *UsbHid*: the host polls its endpoints, a wait for the button or for a block
  ends, the main loop goes round. `Answered` assumes in addition that events do
  not come faster than they are polled for ever; there is one for each second of a wait.

## 6. What is proved

Eight modules prove safety for every value of the constants that the modules'
assumptions admit; a theorem that needs more of them says so in its `ASSUME`.
Each has the same shape: an inductive invariant, `Spec => []Inv`, from
`Init => Inv` and one lemma per action, and the properties are consequences.
Two refinements are proved besides: the first state maps to a first state of the
abstract specification, and under the invariant every step to a step or a
stutter. Every inductive invariant was checked by TLC on a small instance before
it was proved.

**BufferFifoProofs** (`BufferCountAssumption`, `BufferFifoAssumption`: a positive
number of buffers larger than the number of middle stages, which is the case of
a ring at least as long as the pipeline). For all numbers of buffers, buffer
sizes, lengths and two to four stages: `TypeCorrect`, `BuffersNotShared`
(`NoConflict`), `ChunksInOrder` (`ReadsNextChunk`), `CompleteOnlyWhenMoved`
(`CompleteMeansMoved`), `StagesAreWoken` (`NoLostWakeup`). `NoConflict` alone is not inductive: two
buffers are distinct because their indices differ by less than the ring is long,
and that is because stages pass chunks on in order (`InOrder`), read only what
is there (`InputReady`) and the first one stops a ring's length ahead of the
last. `ChunksInPlace` says what the buffers in between hold, `SizesInPlace` how
much; `Accounts` ties the number of chunks passed on to the sectors left;
`DrainedUpTo` is the meaning of `_stall_index`. All but `ChunksInPlace` is
`RingInv`, stated and proved of any ring and any counters, for the mass storage
function to use. So are the lemmas on where a chunk is: which buffer it is in
between two stages (`ChunkOfStage`, `AtChunk`), that a stage that writes never
writes over one (`WritesNoChunk`), and what passing a buffer on does to those
that wait (`BufferPassed`).

**StorageSystemProofs** (`MassStorageAssumption`, which asks for more than one
buffer, and `StorageSystemAssumption`): `Statuses` (`StatusIsMine`), `NoFaults`
(`NoFault`), `StaysWithinVolume` (`WithinVolume`), `ReadsAreTrue` (`ReadsTrue`)
and `WritesAreKept` (`WritesStick`), for volumes, buffers, addresses and numbers
of commands of any size, with every interrupt between any two steps of the main
loop. The invariant (`StorageInv`, and `DataInv` beside it) has four layers, each
excepting more events than the one before.

- `StatusInv` excepts nothing: while a transfer or an answer goes on, nothing can
  arrive that is taken for a command, so the tag noted with the command is the one
  the status gets. After that refused data may overwrite `tag`, but not the status
  that waits at the endpoint.
- `Undisturbed` needs that the race of `emmc_user_queue` is not lost. An assertion
  fails if a completion comes to the wrong user or a stage is started twice, so
  it says what everybody is doing: the card works for its user and for nobody
  else (`CardOk`), the main loop in the middle of `emmc_user_schedule` holds what
  it has picked (`MainOk`), and the card, the AES unit and the endpoint are busy
  exactly when the stage of the ring they serve is in flight (`MmcOk`, `CryptOk`,
  `UsbOk`). That is true only if a peripheral never starts without the ring, and
  the ring never passes on without the peripheral: hence `RingOk`, which is
  `RingInv` of BufferFifo with the counters of the device put for its variables
  (`StageLeft` is `mmcDataToTransfer`, `scsi_blk_len` and `g_cryptDataToTransfer`,
  each at its stage). The writer of the card counts a piece before the card is
  done with it, the others after (`CountedAhead`).
- `VolumeInv` needs also that no address beyond the volume was let through: as
  long as the transfer lasts, the address of the next piece and what is left add
  up to the end of what the command asked for (`VolumeOk`).
- `DataInv` needs also that no reset cut a command short, and says what the
  sectors are (`DataOk`). Every chunk that one stage has passed on and the next
  has not is in the buffer the counters of the ring name, as the first of the two
  left it, in the clear or encrypted with the vector of its own address
  (`ChunksOk`). A peripheral at work writes a buffer no such chunk is in
  (`WritesNoChunk`) and reads the one it was given (`PlacesOk`); what the card has
  read and what the AES unit has done of its chunk is there already (`PiecesOk`,
  and `CryptPlace` for the sector it is at). At the two ends, the host has exactly
  what went over USB (`HostHas`) and the card what went over to it (`OnCard`,
  which counts a piece when the card is done, not when `CountedAhead` does).
  Every sector no WRITE is at holds what was written last (`CardOf`): from this a
  READ is true, and since a status that says "passed" is sent only when nothing is
  left, a WRITE is whole (`DoneOk`). `ReadsTrue` excepts no reset, though `DataOk`
  does: a status that waits for the host is of a command that no reset has cut
  short (`StatusInv`).

**RootBlockProofs** (`RootBlockAssumption`): `TypeCorrect`, and as long as no
modification has overlapped a write, `Recoverable` (`AlwaysRecoverable`) and
`InUseWhole` (`InUseIsWhole`), with STARTUP and raw writes. The condition is
necessary (7.1), and since `disturbed` only grows, `Protected`, the invariant
under that condition, is inductive. While the writer works, the other sector is
whole (`WriterSparesOther`) *and* the one being written will be
(`InUseWillBeWhole`), because its source is whole and does not change
(`WhatIsWritten`). STARTUP in the middle of a write can make the other sector
the one in use, and the next write the same again: that is why `InUseIsWhole`
must be carried along.

Two more theorems compare iterations, and assume `MaxVersion < IterMod`: fewer
writes than `data_iteration` (a `u16`) has values. Without that they are false,
because "larger is newer" is. `SyncedDurable` (`SyncedIsDurable`) holds even when
modifications overlap writes: `DurableInv` says that without STARTUP and raw
writes the writer writes `root_page` itself, into the sector in use, with the
iteration that follows the other's, and that the fields behind its position are
those of `root_page` as long as nobody has modified it since (`WrittenSoFar`).
An early completion (`"early"`) changes only what the state says of the write,
so the same facts about the writer give the page when the flash is idle.
`UpdatesAreAtomic` (`AtomicUpdate`): as long as nothing but raw writes and early completions disturbs,
every step is one of `RootStore` or a stutter. The update happens at the step
that makes the sector being written whole; that the steps before it change nothing to whoever
restarts is because the sector being written is torn, or older than the other
(`InUseIsNewest`). `IterationsCounted` keeps all iterations there are below the
number of writes asked for.

**CommandProofs**, about `DeviceArbiter`: `TypeCorrect`, `NobodyHolds` (`HeldOnlyInUse`),
`WaitersWaitForOthers` (`NobodyForgotten`), `TurnsKept` (`TurnsRespected`), for
any number of commands and modifications. `HeldOnlyInUse` is about a root block
in flash; the invariant `HeldOrPutOff` says of every state that whoever holds the
device works on it or has a release put off and a write to come. A release is
given to a waiter, so a waiter must have work (`WaitersHaveWork`), or the device
would be held by nobody's command. `RunnersOwn` holds up to the first
modification: after that a release put off can hit a later command (7.2).

**CommandProofs**, about `UsbHid` (`UsbHidAssumption`): `AnswersAreWhole`
(`AnswersWhole`), for answers of any number of packets, and `TextIsTyped`
(`TypedTrue`), for texts of any length and any width of `n_chars`. Neither
property is inductive. `HidInv` says that, without a fatal overlap, the state is
`Sound`:

- `EndpointOk`: what the endpoint has sent of its one buffer is what is in it
  now, and only a packet waits, only behind an event.
- `LoopOk`: an event is left over with a free endpoint only while the main loop
  is on its way to take it, and then it is the only one; so if an interrupt takes
  it first, the loop finds none.
- `Answering`: exactly how far the answer has come. Nothing is on its way
  (`Between`), the next packet has to be made up or handed over (`Unsent`), one
  packet is on its way (`OnItsWay`), the last one is although the answer counts
  as sent (`CountedSent`: it waited behind an event), or the main loop has begun
  the next answer of READ_ALL_UIDS in that state (`Overtaking`). In each of them
  the host has just the packets before that one, of the answer it waits for. From
  `Overtaking` the only way on is to overwrite the packet in the endpoint, the
  overlap "shared"; the proof finds it in `MainFillsPacketKeeps`, and in
  `QueuedSent` for an interrupt.

The interrupts call the functions whole, so their lemmas (`MaybeSends`, `RawTx`,
`FinishesAndSends`) are about the functions; the main loop calls the same
functions in steps, with a lemma for each step. `NewAnswer` says that what
answers a command changes the number of the answer, which is how the model
notices that it came inside a call of the main loop. `KeysInv` follows the text: the next
character is in the endpoint, or there and still to be counted by
`usb_keyboard_idle`, or waits for 25 ms to pass (`TypingText`). All that the
endpoint of commands does leaves it as it is (`KeysAlone`).

**RandPoolProofs** (`RandPoolAssumption`): `TypeCorrect`, `LevelsNotOverstated`
(`NeverOverstated`) and `NoZeroGiven` (`NoZero`), with or without preemption, and
`LevelExact` (each level counts what its ring holds) when `Preempt` is false.
`LevelBounded` bounds the level by what the ring holds, plus one while `level--`
is under way; `InTurn` keeps rewind point, tail and head in their order round
the ring; `Promised` says that the words a command was promised by `rand_avail`
are still there. `SameWordsAgain` (`Replayed`) is about a FIDO2 message carried
through again. Its invariant `ReplayInv` remembers for each word the message was
given the slot it came from, as many places from the rewind point as it is in
the order (`AllHeld`): `rand_push` never comes round to the rewind point, so the
slot still has that word when `rand_rewind` goes back. Filler breaks the
sequence, and nothing is claimed behind it.

**DbProofs** (`"overlap" \notin Events`: no STARTUP while an operation is under
way, which is necessary, 7.6; mass storage and FIDO2 beside it, up to the
completion that misleads the database, which is necessary too, 7.5: the
invariants are proved as `misled \/ Inv` and `misled \/ DataInv`).
`NeverQueuedTwice` (`NoAssertion`) and
`CacheIsDisk` (`CacheCoherent`), for any number of blocks, ids and contents, and
with a full disk. `NoAssertion` says that no second operation is ever begun, not
only that the assertion holds: the one that was begun may be waiting for mass
storage, and then a second is the one that asserts. No handler asks whether an operation is under way; that none
starts a second one follows from who can be called: an operation under way has a
command that waits for it and not for the button, or was left by a DISCONNECT
(`Attended`), and a device that is not started takes no command that would start
one (`NothingBeforeStartup`). The cache stays the disk because it is loading
exactly while a read into it is under way and never holds the block being
written (`Follows`).

`DataInv`, inductive beside `Inv`, is about the contents: no id in two blocks
(`Single`), the tables match the disk whenever no scan is under way (`Matches`),
and match it up to the block the scan is at (`Scanning`). The tables change when
a write has completed and the disk with it, so what a handler found before must
still be true then: a prepared update, waiting for the button or for its write,
names the one block its id is in or may go to (`Ready`), and what is written is
that update even if nobody waits for it any longer (`Writes`). READ_ALL_UIDS has
exactly as many entries to come as it says (`Carries`, `Sending`). Hence
`TablesFollowDisk` (`MapMatchesDisk`), `OneBlockEach` (`OneBlockPerUid`) and
`AllEntriesRead` (`ReadAllExact`), also with a full disk, and `AnswersHold`
(`AnswersAreTrue`) and `RootUntouched` (`EntriesOnEmmcOnly`) with
`"full" \notin Events`, which both need: with no room an update goes to the
root block (7.3). `UpdatesAtomic` is the refinement `Db => EntryStore`
(`EntriesAtomic`), also with a full disk: a write that completes is the abstract
`Commit`, one torn by the loss of power is `Lose`, a table that was wrong would
make an update commit to a second block. That a nonempty set of blocks has a
least one (`LeastOf`, for the allocation) comes from the well-foundedness of
finite sets.

**FirmwareUpdateProofs** (`FirmwareUpdateAssumption`): `AlwaysBoots`
(`BootsWhole`) and `Confirmed` (`ConfirmedIsWritten`), for programs of any number
of sectors and any versions. `WriterInv` keeps the flash writer within the
program that does not run, over the change of the boot mode; `PromiseInv` says
that while WRITE_FLASH is active and has begun (`Begun`: it does not wait for
FIDO2 and need not be restarted) the write under way is its own, so that a
completion that finds it so confirms what is in the flash, and that no confirmed
sector is being written or is yet to be erased. A completion that has just
restarted WRITE_FLASH, or finds it waiting, promises nothing, and the invariant
says that it does not spoil what was promised before.

**InitializeProofs** (`InitializeAssumption`): `NothingQueuedTwice`
(`NoAssertion`), `WipeLeavesNothing` (`WipedWhole`) and `InitializeReplacesAll`
(`InitializedWhole`), for any number of blocks, any pool and any number of words
for each part, with all disturbances. `initializing_iter` counts completions and
does not ask of what, so the invariant (`Sound`) has two parts.

- What survives FIDO2 messages: every block up to the one after the counter is
  replaced, or a write that replaces it is under way or waits (`Covered`). That
  is enough for the first line of `InitializedWhole`: however many writes of the
  root block are counted as blocks, the scan cannot end before the last write,
  because the eMMC carries out the database's operations one after the other.
- What holds until a FIDO2 message writes the root block (`Clean`): exactly one
  operation is under way or waits, and which one is a function of the counter
  and of whether the page is written (`Counted`); the page in the flash writer
  is the final one, and is in the flash once its completion is counted
  (`RootProgress`); WIPE writes block `block_idx` and has zeroed those before it
  (`Wiping`); between operations nothing is under way (`Settled`).

The number of random words does not appear in it: whatever `UpdateSignet` and
`UpdateCtap` find, a page counts as final only with both parts. A failed
assertion stops the device, so the invariant says of such a state only that it
is one of WIPE or INITIALIZE, behind mass storage or after a FIDO2 message. Two
lemmas keep the proof short: most operators change only fields the invariant is
silent about (`Free`, `Frame`), and mass storage only hands the eMMC on
(`Moves`).

**Only model-checked**: all liveness (the prover has no ENABLED and no
fairness): `EveryTransferCompletes`, `EventuallySynced`, the `Served` properties
and `Answered`.
`NobodyForgotten`, `NoLostWakeup`, `InUseIsWhole`, `NoZero`, `LevelIsCount` and
the type invariants are proved and not checked again. No recursive definition is
used, and nothing rests on induction over data. The conditions on overlapping
modifications, a full disk, early completions, completions taken for another's
and STARTUP in the middle of an operation are needed: see 7.1 and 7.3 to 7.7.

## 7. Where code and documentation part

2, 3 and 5 are runs whose property is violated. The rest is what the models show
by a name in `disturbed`, by a member of `Events` or by an exception in a property:
removing the exception gives TLC's trace.

1. **No valid root sector** (`AlwaysRecoverable` without `"overlap"`).
   `docs/hc/flash_memory_managment.md:51` says the scheme "ensures that there is
   always a valid root sector". The writer reads `root_page` as it goes
   (`flash.c:151`); CTAP still owns the device while its release is put off, so
   its next message is accepted and modifies the page. The new sector fails its
   checksum, the page is MODIFIED, and the next write erases the other sector.
2. **Two commands at once** (`arbiter_overlap`). `fido2/ctaphid.c:795-796`: "we
   can't process overlapping commands safely". `s_subsystem_release_requested`
   is not cleared when the owner begins another command, so the completion of
   the write releases the device under it.
3. **Entry over the root block** (`db_full`). `db.c:365` compares the pointer
   `block_num` with `INVALID_BLOCK`, so UPDATE_UID_NO_SPACE is never returned:
   with no room, the entry goes to block number 0, the root block, and the host
   is answered OKAY.
4. **Released before it is written** (`SyncedIsDurable` without `"early"`).
   `commands.c:1826-1827` says of a release that is put off "Wait until the root
   block is synchronized to release the device". `write_block_complete` marks the page synced on the
   completion of any write, and the eMMC has its own (`commands.c:198-203`): with
   a root page being written, a block of the database releases the device, or
   lets INITIALIZE end, before the page is in the flash.
5. **An update answered and not written** (`db_fido`). `db.c:553`, where an update
   is answered, says "This is the first write completed". UPDATE_UID waits for
   FIDO2; the completion of FIDO2's root page releases the device, restarts the
   packet, and in the same call finishes it (`commands.c:732-737`). The tables
   change and the host is answered OKAY, with no press and nothing written. After
   a deletion finished like that the map has forgotten an id that is still on the
   disk, and adding it again puts it in two blocks. STARTUP is finished or begun
   again in the same way (`commands.c:769`).
6. **STARTUP queues a second operation** (`NoAssertion` with `"overlap"` in
   `Events`). `commands.c:315` asserts that none of the user waits. STARTUP does not wait for the operation under way:
   with mass storage holding the eMMC the assertion fails at once; otherwise the
   completion of the operation is taken for that of block 1, and the tables do not
   describe the disk (`MapMatchesDisk` with `"overlap"` in the `Events` of `Db`).
7. **The next write finds the flash busy** (`Answered` without `"foreign"`). `flash.c:179`
   and `:195` assert that it is idle. ERASE_FLASH_PAGES waits for FIDO2; the
   completion of FIDO2's root page restarts it, which begins the first sector, and
   goes on to `firmware_update_write_block_complete`, which begins the second.
   With WRITE_FLASH the same call answers OKAY (`commands.c:766-767`) for a sector
   that is not yet programmed, and lost if power fails; the host sends the next
   one, which asserts.

*Database, root block, turns and random words*

8. `write_root_block` writes one sector; `docs/hc/flash_memory_managment.md:55-57`
   describes two copies kept up to date, and a start-up that repairs an invalid
   one (`:63-65`). WIPE therefore zeroes one sector and leaves the data in the
   other and in RAM (`commands.c:832`). STARTUP in the middle of a write moves
   `_root_page` back to the older sector, and the next write erases the newer
   whole one.
9. `cmd_init` treats the page as valid when neither checksum is right
   (`commands.c:1757-1764`), since `_root_page` is never NULL there.
10. INITIALIZE and WIPE answer before the progressing state is entered
   (`commands.c:1133`, `829`): the answer releases the device, with the root
   block not in flash for WIPE (the comment at `commands.c:1827` says it waits), and
   a FIDO2 message can run beside the rest of the command. `TurnsRespected`
   excepts this.
11. With preemption every lost `level++` makes a ring look one word emptier for
   good, so after enough of them nobody is served; and a rewind point left at boot
   keeps a ring full. `Served` names both.
12. CANCEL_BUTTON_PRESS ends only the short wait (`commands.c:1885`); a cancelled
   UPDATE_UIDS with messages remaining keeps its long wait. The host of `Db`
   cancels short waits only.
13. After BUTTON_PRESS_TIMEOUT on the first of several UPDATE_UIDS the retry is
    carried out without a press, since `cmd_iter_count` stays. `Db` has this.
14. The deletion of an entry that is not there is never answered (`db.c:535`).
    `Answered` excepts exactly this case (`NothingToDelete`).
15. A block is rewritten in place: a power failure may lose the entry (the `Lose`
    of `EntryStore`), and the torn block is then neither free nor usable until
    the device is initialized again.

*Mass storage* (`Spared` in `StorageSystem`)

16. `"race"`: `emmc_user_schedule` tests and assigns `g_emmc_user` with interrupts
    enabled (`commands.c:283`). A USB interrupt in between starts the database
    itself, the main loop starts mass storage as well, and the second completion
    meets `assert(0)` (`commands.c:254`).
17. `"zero"`: READ or WRITE of length 0 starts a transfer that never ends.
    `"range"`: the range check adds in 32 bits and compares with the capacity the
    last READ CAPACITY of either volume left. `"abort"`: a command refused by
    `MSC_BOT_Abort` never gets its status, since nothing calls
    `MSC_BOT_CplClrFeature`. `"reset"`: BOT_RESET in a transfer leaves the eMMC
    with mass storage for good.
18. The data of a refused WRITE is taken for the next commands.

*Firmware update*

19. STARTUP or DISCONNECT during an erase lets the host go on to WRITE_FLASH while
    the flash is busy, and so does a FIDO2 message that modifies the root block
    after its turn has ended (2): `flash_write` asserts (`flash.c:179`). A length that is not a multiple of four
    asserts as well. After a reset the host must repeat UPDATE_FIRMWARE before
    SWITCH_BOOT_MODE. `upgrade_state` of the root block is reported and never set.

*INITIALIZE and WIPE*

20. When random words run out, `ctap_reset` is called a second time without
    `crypto_random_init` (`commands.c:613-634`; compare `main.c:549-550`): it finds
    fewer words served than requested, returns 0, and the old FIDO2 state stays
    although it counts as updated (`"retried"`).
21. `cmd_init` sets `g_root_page_valid` always (9), so INITIALIZE of an
    uninitialized device keeps the FIDO2 state (`"kept"`). WIPE leaves `root_page`
    in RAM, and a later FIDO2 message writes the old page back (`"fido"`).
22. A FIDO2 message inside INITIALIZE (10) completes a write that is counted as one
    of INITIALIZE's: it can end before the new page is in flash, two of them fail
    an assertion. Completing the page before the blocks makes two block writes
    share one buffer (`"torn"` blocks); with mass storage holding the eMMC the
    assertion of `emmc_user_queue` (`commands.c:315`) fails.
23. When the pools fill before the page is made up and nobody polls, nothing calls
    `finalize_root_page_check` again (`Starved`). The progress reported for random
    words may go backwards. DISCONNECT or power loss after the page is written
    leaves the new key with old blocks.

*Packets and typing*

24. `"shared"`: with an event in the endpoint when an answer begins, packet 0 waits
    in `tx_report`; one `DataIn` starts it and makes up packet 1 in the same buffer
    while the endpoint reads it. The host may get packet 1 twice.
25. `"raced"`: `DataIn` between the main loop's `usb_send_bytes` and
    `raw_hid_tx_seq++`, or between its test of `usb_tx_pending` and what follows,
    skips a packet, leaves one waiting for ever or fails an assertion
    (`usbd_hid.c:310`). `DataIn` of a character before `char_pos_to_type = -1`
    (`usb_keyboard.c:45-48`): typing never ends.
26. `"restart"`: after DISCONNECT an answer in flight is taken by the next program
    for its own. `"early"`: READ_ALL_UIDS behind an event that waits after an
    answer goes on before its first block is read.
27. `"busy"`: TYPE while an earlier program's text is being typed is dropped, and
    answered OKAY when that ends; the text itself is overwritten by the next command's
    `cmd_data`. `"long"`: `n_chars` is a `u8`; 256 characters are
    answered OKAY and none is typed.

## 8. What is not modelled

- Mass storage: VERIFY(10), START STOP UNIT, the sense list, a USB bus reset and
  a new configuration, the test user of the eMMC and the card's standby. After a
  BOT_RESET in the middle of a command the model's host sends no further command.
- Commands: CHANGE_MASTER_PASSWORD (except as a modification of the root block),
  backup and restore (except as raw writes), clear-text passwords, and the
  rejection of commands by device state. STARTUP in `Initialize` comes only when
  nothing is under way.
- The handlers of `Db` are atomic; DISCONNECT and CANCEL_BUTTON_PRESS inside a
  completion are not there. What the database does after a completion has been
  taken for an update's is not followed: the model ends (7.5).
- Completions of the eMMC in `FirmwareUpdate`: a write of the database that a
  DISCONNECT left waiting for mass storage could be taken for WRITE_FLASH's as
  well, after a new login and a long press.
- Reception over raw HID: commands arrive whole.
- CTAPHID reassembly: messages over channels with their transmit ring are one action
  (`CtapMessage`, `ctaphid_handle_packet`). The timeouts of channels in the code
  are never called (`ctaphid_check_timeouts`).
- The host library's queue of messages and the loss of the device; the legacy
  firmware, which is a second system with its own database.
- CTAP2/U2F command processing, AES, checksums, USB enumeration: sequential
  computation or adapted library code.
- Failures of the eMMC (the code stops in an assertion), wear, and clock drift.

About 100 000 of the lines under `src/firmware-hc` are the STM32 HAL and CMSIS
headers, which are third-party and appear as completions that come once for each
operation, or not at all. The models cover a small share of all lines for that
reason, and most of the stateful code that is Signet's own.

## 9. Plan

Done: the modules of section 3, in the order BufferFifo, RootBlock,
DeviceArbiter, RandPool, Db, StorageSystem, FirmwareUpdate, Initialize, UsbHid,
with proofs of every safety property their runs check.

Left to model: the queue of the host library with the loss of the device; CTAPHID
channels; backup and restore as commands of `Db`; the composition of RootBlock
and DeviceArbiter, in which the overlap of 7.1 is a consequence of the release
of 7.2.

Left to prove: no safety property that a run checks. The liveness properties stay
with TLC.
