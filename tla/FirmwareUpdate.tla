---------------------------- MODULE FirmwareUpdate ----------------------------
(* The update of the firmware: the program that runs erases and writes the      *)
(* other one, sector by sector, and the device changes to it when its checksum  *)
(* is right. The flash has one writer, which the root block uses as well, and   *)
(* its completions go to the command that is active by then; the device is      *)
(* shared with FIDO2 (see DeviceArbiter); power may fail at any step.           *)
EXTENDS Naturals

CONSTANTS Versions,   \* the programs the host may send, each for both areas
          N           \* sectors of a program (3 in the device)

ASSUME FirmwareUpdateAssumption ==
    /\ Versions \cap {"erased", "garbage", "none", "root"} = {}
    /\ N \in Nat \ {0}

VARIABLES
    bootMode,     \* the option bytes: which program runs after a reset
    content,      \* what the sectors of the two programs hold
    phase,        \* "running", "switching" (waiting for the reset), "stopped"
                  \* (an assertion has failed)
    state,        \* g_device_state
    activeCmd,    \* active_cmd
    longWait,     \* waiting_for_long_button_press
    index,        \* cmd_data.erase_flash_pages.index, while erasing
    check,        \* g_progress_check, while GET_PROGRESS waits
    info,         \* g_update_firmware: of which program it has the checksum
    write,        \* cmd_data.write_flash, while WRITE_FLASH waits: where and what
                  \* (when the sector was erased: else the host expects nothing)
    flash,        \* the flash writer: flash_state, its sector, what the sector
                  \* will hold, and how many rounds of the main loop are left
    root,         \* g_root_block_sync_state
    owner,        \* s_device_system_owner: "NONE", "SIGNET", "CTAP" (FIDO2)
    asked,        \* s_subsystem_release_requested
    ctap,         \* a message of FIDO2 that was given the device is under way
    waits,        \* s_signet_subsystem_waiting: the packet of activeCmd waits
    call,         \* a handler calls another, and nothing comes between: a release
                  \* has to restart the packet that waited, in "release_request"
                  \* or in "complete" (flash_write_complete), of which the "rest"
                  \* follows
    promised,     \* one of the writes the host was told are done when they were
                  \* complete, any one
    disturbed     \* "overlap": STARTUP or DISCONNECT while the flash is written,
                  \* or FIDO2 modifies the root block out of its turn;
                  \* "foreign": a completion was taken for another's

nvm  == <<bootMode, content>>
ram  == <<state, activeCmd, longWait, index, check, info, write, flash, root>>
arbiter == <<owner, asked, ctap, waits, call>>
vars == <<nvm, ram, arbiter, phase, promised, disturbed>>

(* BOOT_AREA_A holds the bootloader, BOOT_AREA_B the application. Sectors 0 and  *)
(* 1 hold the root block.                                                       *)
AreaSectors(mode) == IF mode = "BOOTLOADER" THEN 2 .. N + 1 ELSE N + 2 .. 2 * N + 1
Other(mode) == IF mode = "BOOTLOADER" THEN "APPLICATION" ELSE "BOOTLOADER"
Sectors == 2 .. 2 * N + 1

Idle == [state |-> "IDLE", sector |-> 0, result |-> "none", left |-> 0]
NoWrite == [sector |-> 0, data |-> "none"]
NotAt(sectors) == IF promised.sector \in sectors THEN NoWrite ELSE promised

(* The checksum of a program is that of version v when all its sectors are.     *)
Holds(c, mode, v) == \A s \in AreaSectors(mode) : c[s] = v

InitRam ==
    /\ state = "DISCONNECTED" /\ activeCmd = "none" /\ longWait = FALSE
    /\ index = 0 /\ check = 0 /\ info = "none" /\ write = NoWrite
    /\ flash = Idle /\ root = "SYNCED"
    /\ owner = "NONE" /\ asked = TRUE /\ ctap = FALSE
    /\ waits = FALSE /\ call = "none"

Init ==
    /\ bootMode \in {"BOOTLOADER", "APPLICATION"}
    /\ \E v \in Versions : content = [s \in Sectors |-> v]
    /\ InitRam
    /\ phase = "running"
    /\ promised = NoWrite
    /\ disturbed = {}

------------------------------------------------------------------------------
(* The flash writer.                                                            *)

(* flash_write_page and flash_write assert that the flash, found at f, is idle. *)
StartFlash(f, op) ==
    IF f.state = "IDLE" THEN flash' = op /\ phase' = phase
    ELSE phase' = "stopped" /\ flash' = f

Erase(s) == [state |-> "ERASING", sector |-> s, result |-> "erased", left |-> 1]
RootPage == [state |-> "ERASING", sector |-> 0, result |-> "root", left |-> 2]

(* Programming clears bits: what was not erased is spoilt.                      *)
Program(s, v) ==
    [state |-> "WRITING", sector |-> s, left |-> 2,
     result |-> IF content[s] \in {"erased", v} THEN v ELSE "garbage"]

Become(s, x) == content' = IF s = 0 THEN content ELSE [content EXCEPT ![s] = x]

Running == phase = "running"
Free == Running /\ call = "none"
Flashing == flash.state # "IDLE"

(* subsystem_idle_check, where o owns the device and a release was asked for or *)
(* not: Signet gives it back between commands; when the root block is in flash. *)
subsystem_idle_check(o, a) ==
    LET idle == o = "SIGNET" /\ activeCmd' = "none" /\ state' # "ERASING_PAGES"
    IN /\ owner' = IF idle /\ root' = "SYNCED" THEN "NONE" ELSE o
       /\ asked' = (a \/ (idle /\ root' # "SYNCED"))

(* What is not a command packet leaves the device to its owner, but may answer. *)
Aside == UNCHANGED <<ctap, waits, call>> /\ subsystem_idle_check(owner, asked)

FirstSector == IF bootMode = "BOOTLOADER" THEN N + 2 ELSE 2     \* min_page
LastSector == FirstSector + N - 1                               \* max_page

(* firmware_update_write_block_complete in DS_ERASING_PAGES.                    *)
ErasingNext(f) ==
    IF index + 1 > LastSector
      THEN index' = 0 /\ state' = "FIRMWARE_UPDATE" /\ flash' = f /\ phase' = phase
      ELSE index' = index + 1 /\ state' = state /\ StartFlash(f, Erase(index + 1))

(* get_progress_check: GET_PROGRESS is answered when the progress is more than  *)
(* the host knew, or the state has changed.                                     *)
ProgressAnswered ==
    activeCmd = "GET_PROGRESS" /\ (index' - FirstSector > check \/ state' # state)

(* The rest of write_block_complete, after the state of the root block, and     *)
(* firmware_update_write_block_complete. They go by active_cmd and              *)
(* g_device_state, whoever's the write was that is complete, and whether or not *)
(* the active command has begun. (STARTUP begins its scan, or begins it again.) *)
(* f is the flash writer as they find it.                                       *)
WriteFinished(f, own) ==
    /\ IF state = "ERASING_PAGES" THEN ErasingNext(f)
       ELSE flash' = f /\ UNCHANGED <<state, index, phase>>
    /\ IF activeCmd = "WRITE_FLASH" \/ ProgressAnswered
         THEN activeCmd' = "none" /\ check' = 0 /\ write' = NoWrite
         ELSE UNCHANGED <<activeCmd, check, write>>
    /\ promised' \in {promised} \cup
           (IF own /\ activeCmd = "WRITE_FLASH" THEN {write} ELSE {})
    /\ disturbed' = disturbed \cup
           IF ~own /\ (state = "ERASING_PAGES" \/ activeCmd \in {"WRITE_FLASH", "STARTUP"})
             THEN {"foreign"} ELSE {}

(* Mutant: the completion forgets the release that was put off. *)
MutantComplete ==
    /\ root' = IF root = "WRITING" THEN "SYNCED" ELSE root
    /\ WriteFinished(Idle, flash.sector # 0 /\ ~waits)
    /\ Aside

(* flash_write_complete: write_block_complete turns the root block from being   *)
(* written to synced, and carries out a release that was put off. With a packet *)
(* waiting, that restarts it before the completion goes on.                     *)
flash_write_complete ==
    LET releases == root = "WRITING" /\ asked
    IN /\ UNCHANGED ctap
       /\ root' = IF root = "WRITING" THEN "SYNCED" ELSE root
       /\ IF releases /\ waits
            THEN /\ owner' = "SIGNET" /\ asked' = FALSE
                 /\ waits' = FALSE /\ call' = "complete"
                 /\ flash' = Idle
                 /\ UNCHANGED <<phase, state, activeCmd, index, check, write,
                                promised, disturbed>>
            ELSE /\ WriteFinished(Idle, flash.sector # 0 /\ ~waits)
                 /\ UNCHANGED <<waits, call>>
                 /\ subsystem_idle_check(IF releases THEN "NONE" ELSE owner,
                                         asked /\ ~releases)

(* The rest of flash_write_complete, after the restart.                         *)
CompletionGoesOn ==
    /\ Running /\ call = "rest" /\ call' = "none"
    /\ UNCHANGED <<nvm, longWait, info, root, ctap, waits>>
    /\ WriteFinished(flash, FALSE)
    /\ subsystem_idle_check(owner, asked)

FlashOnly == UNCHANGED <<bootMode, longWait, info>>

NotDone == UNCHANGED <<state, activeCmd, index, check, write, root, arbiter, phase,
                       promised, disturbed>>

(* flash_idle, FLASH_ERASING: HAL_FLASHEx_Erase. *)
FlashErase ==
    /\ Free /\ flash.state = "ERASING"
    /\ Become(flash.sector, "erased")
    /\ IF flash.left > 1
         THEN flash' = [flash EXCEPT !.state = "WRITING"] /\ NotDone
         ELSE flash_write_complete
    /\ FlashOnly

(* Mutant: complete with the first words. *)
MutantProgram ==
    /\ Free /\ flash.state = "WRITING"
    /\ Become(flash.sector, IF flash.left > 1 THEN "garbage" ELSE flash.result)
    /\ flash_write_complete
    /\ FlashOnly

(* flash_idle, FLASH_WRITING: 16 words in every round of the main loop.         *)
FlashProgram ==
    /\ Free /\ flash.state = "WRITING"
    /\ IF flash.left > 1
         THEN /\ flash' = [flash EXCEPT !.left = @ - 1]
              /\ Become(flash.sector,
                        IF flash.sector # 0 /\ content[flash.sector] = flash.result
                          THEN flash.result ELSE "garbage")
              /\ NotDone
         ELSE /\ Become(flash.sector, flash.result)
              /\ flash_write_complete
    /\ FlashOnly

(* The main loop writes the root block when the flash is idle.                  *)
sync_root_block_immediate ==
    /\ Free /\ root = "MODIFIED" /\ flash.state = "IDLE"
    /\ root' = "WRITING" /\ flash' = RootPage
    /\ UNCHANGED <<nvm, arbiter, phase, state, activeCmd, longWait, index, check, info,
                   write, promised, disturbed>>

------------------------------------------------------------------------------
(* FIDO2, in the application only.                                              *)

CtapOnly == UNCHANGED <<nvm, phase, promised, state, activeCmd, longWait, index, check,
                        info, write, flash>>

(* request_device, for a message. *)
CtapTakes ==
    /\ Free /\ bootMode = "APPLICATION"
    /\ ~ctap /\ owner # "SIGNET"
    /\ ctap' = TRUE /\ owner' = "CTAP"
    /\ UNCHANGED <<asked, waits, call, root, disturbed>> /\ CtapOnly

(* A message modifies the root block, normally in its turn; a release put off   *)
(* from an earlier command may have ended it (DeviceArbiter). Bound: not        *)
(* while the root block is written in its turn.                                 *)
sync_root_block ==
    /\ Free /\ ctap
    /\ root = "WRITING" => owner # "CTAP"
    /\ root' = "MODIFIED"
    /\ disturbed' = disturbed \cup IF owner = "CTAP" THEN {} ELSE {"overlap"}
    /\ UNCHANGED arbiter /\ CtapOnly

(* release_device_request at the end of the message.                            *)
CtapReleases ==
    /\ Free /\ ctap /\ ctap' = FALSE
    /\ IF owner # "CTAP" THEN UNCHANGED <<owner, asked, waits, call>>
       ELSE IF root # "SYNCED" THEN asked' = TRUE /\ UNCHANGED <<owner, waits, call>>
       ELSE /\ owner' = IF waits THEN "SIGNET" ELSE "NONE"
            /\ call' = IF waits THEN "release_request" ELSE "none"
            /\ waits' = FALSE /\ UNCHANGED asked
    /\ UNCHANGED <<root, disturbed>> /\ CtapOnly

------------------------------------------------------------------------------
(* Commands. The host sends a command when the last is answered, STARTUP and    *)
(* DISCONNECT at any time. While FIDO2 has the device the packet waits: it is   *)
(* the active command already, its content is looked at when it is restarted    *)
(* and is chosen then, and no other packet is received meanwhile.               *)

Accepted ==
    CASE state = "LOGGED_OUT"      -> {"LOGIN"}
      [] state = "LOGGED_IN"       -> {"UPDATE_FIRMWARE"}
      [] state = "BOOTLOADER"      -> {"UPDATE_FIRMWARE", "SWITCH_BOOT_MODE"}
      [] state = "FIRMWARE_UPDATE" -> {"ERASE_FLASH_PAGES", "WRITE_FLASH",
                                       "SWITCH_BOOT_MODE", "RESET_DEVICE"}
      [] state = "ERASING_PAGES"   -> {"GET_PROGRESS"}
      [] OTHER                     -> {}

Sends(name) == Free /\ ~waits /\ (activeCmd = "none" \/ name = "STARTUP")

(* cmd_packet_recv without the device. GET_PROGRESS finds the progress that     *)
(* the last one left.                                                           *)
PacketWaits ==
    /\ owner = "CTAP" /\ waits' = TRUE
    /\ \E name \in Accepted \cup {"STARTUP"} :
          /\ Sends(name)
          /\ activeCmd' = name
          /\ check' \in IF name = "GET_PROGRESS" THEN 0 .. N ELSE {0}
    /\ write' = NoWrite
    /\ UNCHANGED <<nvm, phase, promised, disturbed, owner, asked, ctap, call, state,
                   longWait, index, info, flash, root>>

(* restart_signet_command with the device, for a packet just received or one    *)
(* that has waited.                                                             *)
Turn(name) ==
    \/ owner # "CTAP" /\ Sends(name)
    \/ Running /\ call \in {"release_request", "complete"} /\ activeCmd = name

TurnEnds ==
    /\ call' = IF call = "complete" THEN "rest" ELSE "none"
    /\ UNCHANGED <<ctap, waits>>
    /\ subsystem_idle_check("SIGNET", asked)

(* A command that is refused, or answered at once, changes nothing else. (Of a  *)
(* packet that was answered while it waited, none is left.)                     *)
AnsweredAtOnce ==
    /\ activeCmd # "STARTUP" /\ Turn(activeCmd)
    /\ activeCmd' = "none" /\ check' = 0
    /\ UNCHANGED <<nvm, phase, promised, disturbed, state, longWait, index, info, write,
                   flash, root>>
    /\ TurnEnds

Restarted == disturbed' = IF Flashing THEN disturbed \cup {"overlap"} ELSE disturbed

(* STARTUP: the bootloader answers at once, the application reads the database. *)
startup_cmd ==
    /\ Turn("STARTUP")
    /\ longWait' = (longWait /\ state = "DISCONNECTED")
    /\ IF bootMode = "BOOTLOADER"
         THEN state' = "BOOTLOADER" /\ activeCmd' = "none"
         ELSE activeCmd' = "STARTUP" /\ UNCHANGED state
    /\ Restarted
    /\ check' = 0 /\ write' = NoWrite
    /\ UNCHANGED <<nvm, phase, promised, index, info, flash, root>>
    /\ TurnEnds

(* db3_startup_scan_resume, at the last block. (A scan that a completion of     *)
(* another began may end while STARTUP waits.)                                  *)
ScanEnds ==
    /\ Free /\ activeCmd = "STARTUP" /\ (waits => "foreign" \in disturbed)
    /\ state' = "LOGGED_OUT" /\ activeCmd' = "none" /\ index' = 0
    /\ UNCHANGED <<nvm, phase, promised, disturbed, longWait, check, info, write, flash,
                   root>>
    /\ Aside

cmd_disconnect ==
    /\ Free /\ ~waits
    /\ state' = "DISCONNECTED" /\ activeCmd' = "none" /\ longWait' = FALSE
    /\ Restarted
    /\ index' = 0 /\ check' = 0 /\ write' = NoWrite
    /\ UNCHANGED <<nvm, phase, promised, info, flash, root>>
    /\ Aside

StateOnly == UNCHANGED <<nvm, phase, promised, disturbed, index, check, write, flash, root>>

login_cmd ==
    /\ Turn("LOGIN") /\ state = "LOGGED_OUT" /\ state' = "LOGGED_IN"
    /\ activeCmd' = "none"
    /\ UNCHANGED <<longWait, info>> /\ StateOnly
    /\ TurnEnds

(* UPDATE_FIRMWARE: the bootloader goes on at once, the application asks for a  *)
(* long press.                                                                  *)
update_firmware_cmd ==
    /\ Turn("UPDATE_FIRMWARE") /\ state \in {"BOOTLOADER", "LOGGED_IN"}
    /\ info' \in Versions
    /\ IF state = "BOOTLOADER"
         THEN state' = "FIRMWARE_UPDATE" /\ activeCmd' = "none" /\ UNCHANGED longWait
         ELSE activeCmd' = "UPDATE_FIRMWARE" /\ longWait' = TRUE /\ UNCHANGED state
    /\ StateOnly
    /\ TurnEnds

long_button_press ==
    /\ Free /\ longWait
    /\ longWait' = FALSE
    /\ IF activeCmd = "UPDATE_FIRMWARE"
         THEN activeCmd' = "none" /\ state' = "FIRMWARE_UPDATE"
         ELSE UNCHANGED <<activeCmd, state>>
    /\ UNCHANGED info /\ StateOnly
    /\ Aside

(* blink_timeout; the timer runs as long as the command does. *)
blink_timeout ==
    /\ Free /\ longWait /\ activeCmd = "UPDATE_FIRMWARE" /\ ~waits
    /\ longWait' = FALSE /\ activeCmd' = "none"
    /\ UNCHANGED <<state, info>> /\ StateOnly
    /\ Aside

(* CANCEL_BUTTON_PRESS ends the wait for a short press only.                    *)
cancel_button_press ==
    /\ Free /\ longWait /\ activeCmd = "UPDATE_FIRMWARE" /\ ~waits
    /\ activeCmd' = "none"
    /\ UNCHANGED <<longWait, state, info>> /\ StateOnly
    /\ Aside

(* ERASE_FLASH_PAGES is answered before the first sector is erased.             *)
erase_flash_pages_cmd ==
    /\ Turn("ERASE_FLASH_PAGES") /\ state = "FIRMWARE_UPDATE"
    /\ state' = "ERASING_PAGES" /\ check' = 0
    /\ activeCmd' = "none"
    /\ index' = FirstSector
    /\ StartFlash(flash, Erase(FirstSector))
    /\ promised' = NotAt(AreaSectors(Other(bootMode)))
    /\ UNCHANGED <<nvm, disturbed, longWait, info, write, root>>
    /\ TurnEnds

(* Mutant: the areas are mixed up. *)
MutantWriteFlash ==
    /\ Turn("WRITE_FLASH") /\ state = "FIRMWARE_UPDATE"
    /\ \E s \in AreaSectors(bootMode), v \in Versions :
          /\ write' = IF content[s] = "erased" THEN [sector |-> s, data |-> v] ELSE NoWrite
          /\ StartFlash(flash, Program(s, v))
          /\ promised' = NotAt({s})
    /\ activeCmd' = "WRITE_FLASH"
    /\ UNCHANGED <<nvm, disturbed, state, longWait, index, check, info, root>>
    /\ TurnEnds

(* WRITE_FLASH of one sector of the other program; beyond it is refused.        *)
write_flash_cmd ==
    /\ Turn("WRITE_FLASH") /\ state = "FIRMWARE_UPDATE"
    /\ \E s \in AreaSectors(Other(bootMode)), v \in Versions :
          /\ write' = IF content[s] = "erased" THEN [sector |-> s, data |-> v] ELSE NoWrite
          /\ StartFlash(flash, Program(s, v))
          /\ promised' = NotAt({s})
    /\ activeCmd' = "WRITE_FLASH"
    /\ UNCHANGED <<nvm, disturbed, state, longWait, index, check, info, root>>
    /\ TurnEnds

(* GET_PROGRESS while erasing; n is the progress the host has seen.             *)
get_progress_cmd ==
    /\ Turn("GET_PROGRESS") /\ state = "ERASING_PAGES"
    /\ \E n \in 0 .. N :
          IF index - FirstSector > n THEN activeCmd' = "none" /\ check' = 0
          ELSE activeCmd' = "GET_PROGRESS" /\ check' = n
    /\ UNCHANGED <<nvm, phase, promised, disturbed, state, longWait, index, info,
                   write, flash, root>>
    /\ TurnEnds

(* SWITCH_BOOT_MODE of a program whose checksum is the one UPDATE_FIRMWARE      *)
(* announced. Interrupts and the main loop wait for the reset.                  *)
switch_boot_mode_cmd ==
    /\ Turn("SWITCH_BOOT_MODE") /\ state \in {"FIRMWARE_UPDATE", "BOOTLOADER"}
    /\ Holds(content, Other(bootMode), info)
    /\ bootMode' = Other(bootMode)
    /\ phase' = "switching"
    /\ UNCHANGED <<content, ram, arbiter, promised, disturbed>>

------------------------------------------------------------------------------
(* Resets.                                                                      *)

Boot ==
    /\ state' = "DISCONNECTED" /\ activeCmd' = "none" /\ longWait' = FALSE
    /\ index' = 0 /\ check' = 0 /\ info' = "none" /\ write' = NoWrite
    /\ flash' = Idle /\ root' = "SYNCED"
    /\ owner' = "NONE" /\ asked' = TRUE /\ ctap' = FALSE
    /\ waits' = FALSE /\ call' = "none"
    /\ phase' = "running" /\ disturbed' = {}
    /\ UNCHANGED <<bootMode, promised>>

(* The sector that is being erased or written may be spoilt.                    *)
Interrupted ==
    \/ UNCHANGED content
    \/ Running /\ Flashing /\ Become(flash.sector, "garbage")

HAL_NVIC_SystemReset == phase = "switching" /\ UNCHANGED content /\ Boot

reset_device_cmd ==
    Turn("RESET_DEVICE") /\ state = "FIRMWARE_UPDATE" /\ Interrupted /\ Boot

PowerFails == Interrupted /\ Boot

------------------------------------------------------------------------------
MainLoop == FlashErase \/ FlashProgram \/ sync_root_block_immediate

Command ==
    \/ startup_cmd \/ login_cmd \/ update_firmware_cmd
    \/ erase_flash_pages_cmd \/ write_flash_cmd \/ get_progress_cmd
    \/ switch_boot_mode_cmd \/ reset_device_cmd \/ AnsweredAtOnce

(* What has been called runs to its end. *)
CalledRuns == call # "none" /\ (Command \/ CompletionGoesOn)

Next ==
    \/ MainLoop \/ CompletionGoesOn
    \/ Command \/ PacketWaits \/ cmd_disconnect \/ ScanEnds
    \/ long_button_press \/ blink_timeout \/ cancel_button_press
    \/ CtapTakes \/ sync_root_block \/ CtapReleases
    \/ HAL_NVIC_SystemReset \/ PowerFails

(* The main loop goes round, the scan comes to its end, the timer runs out,     *)
(* messages of FIDO2 end, the reset comes.                                      *)
Fairness ==
    /\ WF_vars(MainLoop) /\ WF_vars(CalledRuns)
    /\ WF_vars(ScanEnds) /\ WF_vars(blink_timeout) /\ WF_vars(CtapReleases)
    /\ WF_vars(HAL_NVIC_SystemReset)

Spec == Init /\ [][Next]_vars /\ Fairness

------------------------------------------------------------------------------
(* Whatever is sent and whenever power fails, the program the boot mode selects *)
(* is whole: all its sectors are of one version (switch_boot_mode_cmd,          *)
(* erase_flash_pages_cmd, write_flash_cmd).                                     *)
BootsWhole == \E v \in Versions : Holds(content, bootMode, v)

(* What WRITE_FLASH has confirmed when its own write was complete stays in the  *)
(* flash, over resets and losses of power, until the host has the sector erased *)
(* or written again, whatever is confirmed or stopped too early meanwhile       *)
(* (flash_write_complete, write_flash_cmd_complete). The answer that a          *)
(* completion of FIDO2's root page gives ("foreign") confirms nothing.          *)
ConfirmedIsWritten ==
    promised # NoWrite => content[promised.sector] = promised.data

(* Every command is answered, if it has to wait for FIDO2 and for its root page *)
(* as well. Excepted: the host program started again while the flash was        *)
(* written, FIDO2 modified the root block out of its turn, or a completion was  *)
(* taken for another's. Then the assertion of flash.c (179 and 195, "assert(0)") *)
(* may stop the device: the completion of FIDO2's root page restarts a waiting  *)
(* WRITE_FLASH and answers it in the same call, and the host sends the next; or *)
(* it restarts a waiting ERASE_FLASH_PAGES and goes on with its next sector.    *)
Answered == activeCmd # "none" ~> activeCmd = "none" \/ disturbed # {}
==============================================================================
