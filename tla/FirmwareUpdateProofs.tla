------------------------- MODULE FirmwareUpdateProofs -------------------------
(* Proofs about FirmwareUpdate, for programs of any number of sectors and any   *)
(* set of versions.                                                             *)
EXTENDS FirmwareUpdate, TLAPS

Modes == {"BOOTLOADER", "APPLICATION"}
Written == Versions \cup {"erased", "garbage"}
Target == AreaSectors(Other(bootMode))

(* The types the proofs need. *)
TypeInv ==
    /\ bootMode \in Modes
    /\ content \in [Sectors -> Written]
    /\ info \in Versions \cup {"none"}
    /\ flash \in [state : {"IDLE", "ERASING", "WRITING"}, sector : {0} \cup Sectors,
                  result : Written \cup {"none", "root"}, left : Nat]
    /\ flash.sector # 0 => flash.result \in Written
    /\ write \in [sector : {0} \cup Sectors, data : Versions \cup {"none"}]
    /\ promised \in [sector : {0} \cup Sectors, data : Versions \cup {"none"}]
    /\ index \in Nat
    /\ waits \in BOOLEAN

(* The flash writer works on the program that does not run. *)
WriterInv ==
    /\ Running /\ Flashing => flash.sector \in {0} \cup Target
    /\ state = "ERASING_PAGES" => index \in Target

(* WRITE_FLASH has been begun: it does not wait for FIDO2, and need not be      *)
(* restarted.                                                                   *)
Begun == activeCmd = "WRITE_FLASH" /\ ~waits /\ call \in {"none", "rest"}

(* The write that was begun and is waited for is the one under way, and no      *)
(* promise is about a sector that is being written or yet to be erased.         *)
PromiseInv ==
    /\ Begun => state = "FIRMWARE_UPDATE"
    /\ Running /\ Begun => flash.state = "WRITING" /\ flash.sector # 0
    /\ Running /\ Begun /\ write # NoWrite =>
          flash.sector = write.sector /\ flash.result = write.data
    /\ call # "none" => ~waits
    /\ promised # NoWrite => promised.sector \in Sectors
    /\ Running /\ Flashing /\ promised # NoWrite => promised.sector # flash.sector
    /\ state = "ERASING_PAGES" /\ promised # NoWrite => promised.sector \notin Target
    /\ write # NoWrite => write.sector \in Sectors

Inv == TypeInv /\ WriterInv /\ PromiseInv /\ BootsWhole /\ ConfirmedIsWritten

------------------------------------------------------------------------------
(* The two areas. *)

LEMMA Areas ==
    ASSUME NEW mode \in Modes
    PROVE  /\ Other(mode) \in Modes /\ Other(Other(mode)) = mode
           /\ AreaSectors(mode) \subseteq Sectors /\ AreaSectors(mode) # {}
           /\ AreaSectors(mode) \cap AreaSectors(Other(mode)) = {}
           /\ 0 \notin Sectors
  <1> USE FirmwareUpdateAssumption DEF Modes, Other, AreaSectors, Sectors
  <1>1. 2 \in AreaSectors("BOOTLOADER") /\ N + 2 \in AreaSectors("APPLICATION")
    OBVIOUS
  <1>2. CASE mode = "BOOTLOADER" BY <1>1, <1>2
  <1>3. CASE mode = "APPLICATION" BY <1>1, <1>3
  <1> QED BY <1>2, <1>3

(* min_page and max_page are the first and the last sector of the other area.   *)
LEMMA EraseRange ==
    ASSUME bootMode \in Modes
    PROVE  /\ Target = FirstSector .. LastSector
           /\ FirstSector \in Target /\ FirstSector \in Nat /\ LastSector \in Nat
  <1> USE FirmwareUpdateAssumption
  <1> QED BY DEF Modes, Other, AreaSectors, Target, FirstSector, LastSector

LEMMA BecomeDoes ==
    ASSUME TypeInv, NEW s \in {0} \cup Sectors, NEW x, Become(s, x),
           s # 0 => x \in Written
    PROVE  /\ content' \in [Sectors -> Written]
           /\ \A t \in Sectors : t # s => content'[t] = content[t]
           /\ s # 0 => content'[s] = x
  <1> QED BY DEF TypeInv, Become

(* What is not a sector of the running program may change. *)
LEMMA StaysWhole ==
    ASSUME TypeInv, BootsWhole, bootMode' = bootMode,
           \A t \in AreaSectors(bootMode) : content'[t] = content[t]
    PROVE  BootsWhole'
  <1>1. PICK v \in Versions : Holds(content, bootMode, v) BY DEF BootsWhole
  <1>2. Holds(content, bootMode, v)' BY <1>1 DEF Holds, AreaSectors
  <1> QED BY <1>2 DEF BootsWhole

------------------------------------------------------------------------------
(* What leaves the flash, its writer and what was promised alone.               *)

LEMMA Quiet ==
    ASSUME Inv,
           UNCHANGED <<bootMode, content, flash, phase, promised>>,
           info' \in Versions \cup {"none"}, waits' \in BOOLEAN,
           call' # "none" => ~waits',
           index' \in {index, 0},
           write' \in {write, NoWrite},
           state' = "ERASING_PAGES" => state = "ERASING_PAGES" /\ index' = index,
           Begun' => Begun /\ state' = state /\ write' = write
    PROVE  Inv'
  <1>1. TypeInv' BY DEF Inv, TypeInv, NoWrite
  <1>2. Target' = Target BY DEF Target, AreaSectors, Other
  <1>3. WriterInv' BY <1>2 DEF Inv, WriterInv, Running, Flashing
  <1>4. PromiseInv'
    BY <1>2 DEF Inv, PromiseInv, Running, Flashing, NoWrite
  <1>5. BootsWhole' BY DEF Inv, BootsWhole, Holds, AreaSectors
  <1>6. ConfirmedIsWritten' BY DEF Inv, ConfirmedIsWritten, NoWrite
  <1> QED BY <1>1, <1>3, <1>4, <1>5, <1>6 DEF Inv

(* Where a packet has its turn, none waits.                                     *)
LEMMA NoneWaits ==
    ASSUME Inv, NEW name, Turn(name)
    PROVE  waits = FALSE /\ Running
  <1> QED BY DEF Inv, TypeInv, PromiseInv, Turn, Sends, Free

(* Commands that do not start the flash writer. *)
LEMMA CommandsKeep ==
    ASSUME Inv,
           \/ startup_cmd \/ login_cmd \/ update_firmware_cmd \/ get_progress_cmd
           \/ AnsweredAtOnce
    PROVE  Inv'
  <1>1. /\ UNCHANGED <<bootMode, content, flash, phase, promised, index>>
        /\ write' \in {write, NoWrite}
        /\ activeCmd' # "WRITE_FLASH"
        /\ waits' = waits
        /\ state' # "ERASING_PAGES" \/ state' = state
    BY DEF startup_cmd, login_cmd, update_firmware_cmd, get_progress_cmd, AnsweredAtOnce,
           StateOnly, TurnEnds, nvm
  <1>2. info' \in Versions \cup {"none"}
    BY DEF startup_cmd, login_cmd, update_firmware_cmd, get_progress_cmd, AnsweredAtOnce,
           Inv, TypeInv
  <1>3. waits = FALSE
    BY NoneWaits DEF startup_cmd, login_cmd, update_firmware_cmd, get_progress_cmd,
                     AnsweredAtOnce
  <1>4. ~Begun' BY <1>1 DEF Begun
  <1> QED BY <1>1, <1>2, <1>3, <1>4, Quiet

(* What happens beside the commands. *)
LEMMA BesideKeeps ==
    ASSUME Inv,
           \/ CtapTakes \/ sync_root_block \/ CtapReleases \/ PacketWaits
           \/ ScanEnds \/ cmd_disconnect \/ long_button_press \/ blink_timeout
           \/ cancel_button_press
    PROVE  Inv'
  <1>0. info \in Versions \cup {"none"} /\ waits \in BOOLEAN BY DEF Inv, TypeInv
  <1>1. CASE CtapTakes \/ sync_root_block
    <2>1. UNCHANGED <<bootMode, content, flash, phase, promised, info, index, write,
                      state, activeCmd, waits, call>>
      BY <1>1 DEF CtapTakes, sync_root_block, CtapOnly, nvm, arbiter
    <2>2. call = "none" BY <1>1 DEF CtapTakes, sync_root_block, Free
    <2>3. Begun' => Begun BY <2>1 DEF Begun
    <2> QED BY <1>0, <2>1, <2>2, <2>3, Quiet
  <1>2. CASE CtapReleases
    <2>1. UNCHANGED <<bootMode, content, flash, phase, promised, info, index, write,
                      state, activeCmd>>
      BY <1>2 DEF CtapReleases, CtapOnly, nvm
    <2>2. /\ call = "none"
          /\ \/ UNCHANGED <<waits, call>>
             \/ waits' = FALSE /\ waits /\ call' = "release_request"
             \/ waits' = FALSE /\ ~waits /\ call' = "none"
      BY <1>2 DEF CtapReleases, Free
    <2>3. Begun' => Begun BY <2>1, <2>2 DEF Begun
    <2>4. waits' \in BOOLEAN /\ (call' # "none" => ~waits') BY <1>0, <2>2
    <2> QED BY <1>0, <2>1, <2>3, <2>4, Quiet
  <1>3. CASE PacketWaits
    <2>1. /\ UNCHANGED <<bootMode, content, flash, phase, promised, info, index, state,
                          call>>
          /\ write' = NoWrite /\ waits' = TRUE
      BY <1>3 DEF PacketWaits, nvm
    <2>2. call = "none" BY <1>3 DEF PacketWaits, Sends, Free
    <2>3. ~Begun' BY <2>1 DEF Begun
    <2> QED BY <1>0, <2>1, <2>2, <2>3, Quiet
  <1>4. CASE \/ ScanEnds \/ cmd_disconnect \/ long_button_press \/ blink_timeout
             \/ cancel_button_press
    <2>1. /\ UNCHANGED <<bootMode, content, flash, phase, promised, info, waits, call>>
          /\ write' \in {write, NoWrite} /\ index' \in {index, 0}
          /\ call = "none"
      BY <1>4 DEF ScanEnds, cmd_disconnect, long_button_press, blink_timeout,
                  cancel_button_press, StateOnly, Aside, nvm, Free
    <2>2. state' = "ERASING_PAGES" => state = "ERASING_PAGES" /\ index' = index
      BY <1>4 DEF ScanEnds, cmd_disconnect, long_button_press, blink_timeout,
                  cancel_button_press, StateOnly
    <2>3. \/ activeCmd' = "none"
          \/ UNCHANGED <<activeCmd, state, write>>
      BY <1>4 DEF ScanEnds, cmd_disconnect, long_button_press, blink_timeout,
                  cancel_button_press, StateOnly
    <2>4. Begun' => Begun /\ state' = state /\ write' = write BY <2>1, <2>3 DEF Begun
    <2> QED BY <1>0, <2>1, <2>2, <2>4, Quiet
  <1> QED BY <1>1, <1>2, <1>3, <1>4

------------------------------------------------------------------------------
(* The flash writer. *)

(* A round of the main loop touches the sector of the flash writer only, which  *)
(* is neither of the running program nor promised.                              *)
LEMMA RoundTouches ==
    ASSUME Inv, Running, Flashing, bootMode' = bootMode, NEW x,
           Become(flash.sector, x), flash.sector # 0 => x \in Written
    PROVE  /\ content' \in [Sectors -> Written]
           /\ flash.sector # 0 => content'[flash.sector] = x
           /\ BootsWhole'
           /\ promised # NoWrite => content'[promised.sector] = promised.data
           /\ Target' = Target
  <1> USE DEF Inv
  <1>1. flash.sector \in {0} \cup Sectors BY DEF TypeInv
  <1>2. bootMode \in Modes BY DEF TypeInv
  <1>3. /\ content' \in [Sectors -> Written]
        /\ \A t \in Sectors : t # flash.sector => content'[t] = content[t]
        /\ flash.sector # 0 => content'[flash.sector] = x
    BY <1>1, BecomeDoes
  <1>4. \A t \in AreaSectors(bootMode) : content'[t] = content[t]
    <2>1. flash.sector \in {0} \cup Target BY DEF WriterInv
    <2>2. flash.sector \notin AreaSectors(bootMode) BY <1>2, <2>1, Areas DEF Target
    <2> QED BY <1>2, <1>3, <2>2, Areas
  <1>5. BootsWhole' BY <1>4, StaysWhole
  <1>6. promised # NoWrite => content'[promised.sector] = promised.data
    BY <1>3 DEF PromiseInv, ConfirmedIsWritten
  <1>7. Target' = Target BY DEF Target, AreaSectors, Other
  <1> QED BY <1>3, <1>5, <1>6, <1>7

(* The writer goes on with the same sector. *)
LEMMA GoesOn ==
    ASSUME Inv, Running, Flashing, FlashOnly,
           NEW x, Become(flash.sector, x), flash.sector # 0 => x \in Written,
           flash' \in [state : {"WRITING"}, sector : {flash.sector},
                       result : {flash.result}, left : Nat],
           NotDone
    PROVE  Inv'
  <1>1. UNCHANGED <<bootMode, phase, info, state, activeCmd, index, write, promised,
                    waits, call>>
    BY DEF FlashOnly, NotDone, arbiter
  <1>2. /\ content' \in [Sectors -> Written]
        /\ BootsWhole'
        /\ promised # NoWrite => content'[promised.sector] = promised.data
        /\ Target' = Target
    BY <1>1, RoundTouches
  <1>3. TypeInv' BY <1>1, <1>2 DEF Inv, TypeInv
  <1>4. WriterInv' BY <1>1, <1>2 DEF Inv, WriterInv, Running, Flashing
  <1>5. PromiseInv'
    BY <1>1, <1>2 DEF Inv, PromiseInv, Begun, Running, Flashing, NoWrite
  <1>6. ConfirmedIsWritten' BY <1>1, <1>2 DEF ConfirmedIsWritten, NoWrite
  <1> QED BY <1>2, <1>3, <1>4, <1>5, <1>6 DEF Inv

(* The completion goes to the command that is active, and to the erase, which   *)
(* goes on with the next sector; f is the flash writer as it finds it. Only the *)
(* completion of its own write makes a promise.                                 *)
LEMMA Finishes ==
    ASSUME Inv, Running, NEW f \in {Idle, flash}, NEW own \in BOOLEAN,
           WriteFinished(f, own),
           UNCHANGED <<bootMode, info, waits>>, call' = "none",
           content' \in [Sectors -> Written], BootsWhole',
           promised # NoWrite => content'[promised.sector] = promised.data,
           own /\ activeCmd = "WRITE_FLASH" /\ write # NoWrite =>
               content'[write.sector] = write.data,
           own /\ activeCmd = "WRITE_FLASH" => f = Idle /\ state # "ERASING_PAGES"
    PROVE  Inv'
  <1> USE DEF Inv
  <1>1. bootMode \in Modes /\ Target' = Target
    BY DEF TypeInv, Target, AreaSectors, Other
  <1>2. /\ activeCmd' # "WRITE_FLASH"
        /\ write' \in {write, NoWrite}
        /\ \/ promised' = promised
           \/ own /\ activeCmd = "WRITE_FLASH" /\ promised' = write
    BY DEF WriteFinished
  <1>3. ~Begun' BY <1>2 DEF Begun
  <1>4. ConfirmedIsWritten' BY <1>2 DEF ConfirmedIsWritten
  <1>5. /\ promised' \in [sector : {0} \cup Sectors, data : Versions \cup {"none"}]
        /\ write' \in [sector : {0} \cup Sectors, data : Versions \cup {"none"}]
        /\ promised' # NoWrite => promised'.sector \in Sectors
        /\ write' # NoWrite => write'.sector \in Sectors
    BY <1>2 DEF TypeInv, PromiseInv, NoWrite
  <1>6. CASE state # "ERASING_PAGES"
    <2>1. flash' = f /\ UNCHANGED <<state, index, phase>>
      BY <1>6 DEF WriteFinished
    <2>2. TypeInv' BY <1>5, <2>1 DEF TypeInv, Idle
    <2>3. WriterInv' BY <1>1, <1>6, <2>1 DEF WriterInv, Running, Flashing, Idle
    <2>4. Running /\ Flashing' /\ promised' # NoWrite => promised'.sector # flash'.sector
      BY <1>2, <2>1 DEF PromiseInv, Flashing, Idle
    <2>5. PromiseInv' BY <1>3, <1>5, <1>6, <2>1, <2>4 DEF PromiseInv, Running
    <2> QED BY <1>4, <2>2, <2>3, <2>5
  <1>7. CASE state = "ERASING_PAGES"
    <2>1. ErasingNext(f) /\ promised' = promised
      BY <1>2, <1>7 DEF WriteFinished
    <2>2. index \in Target /\ Target = FirstSector .. LastSector
      BY <1>1, <1>7, EraseRange DEF WriterInv
    <2>3. Target \subseteq Sectors /\ 0 \notin Sectors BY <1>1, Areas DEF Target
    <2>4. promised # NoWrite => promised.sector \notin Target
      BY <1>7 DEF PromiseInv
    <2>5. CASE index + 1 > LastSector
      <3>1. index' = 0 /\ state' = "FIRMWARE_UPDATE" /\ flash' = f /\ phase' = phase
        BY <2>1, <2>5 DEF ErasingNext
      <3>2. TypeInv' BY <1>5, <3>1 DEF TypeInv, Idle
      <3>3. WriterInv' BY <1>1, <3>1 DEF WriterInv, Running, Flashing, Idle
      <3>4. Running /\ Flashing' /\ promised' # NoWrite => promised'.sector # flash'.sector
        BY <2>1, <3>1 DEF PromiseInv, Flashing, Idle
      <3>5. PromiseInv' BY <1>3, <1>5, <3>1, <3>4 DEF PromiseInv, Running
      <3> QED BY <1>4, <3>2, <3>3, <3>5
    <2>6. CASE ~(index + 1 > LastSector)
      <3>1. /\ index' = index + 1 /\ state' = state
            /\ \/ flash' = Erase(index + 1) /\ phase' = phase
               \/ flash' = f /\ phase' = "stopped"
        BY <2>1, <2>6 DEF ErasingNext, StartFlash
      <3>2. index + 1 \in Target /\ index + 1 \in Sectors
        BY <1>1, <2>2, <2>3, <2>6, EraseRange
      <3>3. TypeInv'
        BY <1>5, <2>3, <3>1, <3>2 DEF TypeInv, Idle, Erase, Written
      <3>4. WriterInv' BY <1>1, <3>1, <3>2 DEF WriterInv, Running, Erase
      <3>5. PromiseInv'
        BY <1>1, <1>3, <1>5, <2>1, <2>4, <3>1, <3>2 DEF PromiseInv, Running, Erase
      <3> QED BY <1>4, <3>3, <3>4, <3>5
    <2> QED BY <2>5, <2>6
  <1> QED BY <1>6, <1>7

(* The writer has done with its sector. *)
LEMMA Completes ==
    ASSUME Inv, Free, Flashing, FlashOnly, flash_write_complete,
           NEW x, Become(flash.sector, x), flash.sector # 0 => x \in Written,
           Begun => x = flash.result
    PROVE  Inv'
  <1> USE DEF Inv
  <1>1. UNCHANGED <<bootMode, info>> /\ bootMode \in Modes /\ Running /\ call = "none"
    BY DEF FlashOnly, TypeInv, Free
  <1>2. /\ content' \in [Sectors -> Written]
        /\ flash.sector # 0 => content'[flash.sector] = x
        /\ BootsWhole'
        /\ promised # NoWrite => content'[promised.sector] = promised.data
        /\ Target' = Target
    BY <1>1, RoundTouches
  <1>3. CASE root = "WRITING" /\ asked /\ waits
    <2>1. /\ flash' = Idle /\ waits' = FALSE /\ call' = "complete"
          /\ UNCHANGED <<phase, state, activeCmd, index, write, promised>>
      BY <1>3 DEF flash_write_complete
    <2>2. TypeInv' BY <1>1, <1>2, <2>1 DEF TypeInv, Idle
    <2>3. WriterInv' BY <1>2, <2>1 DEF WriterInv, Flashing, Idle
    <2>4. ~Begun' BY <2>1 DEF Begun
    <2>5. PromiseInv' BY <1>2, <2>1, <2>4 DEF PromiseInv, Flashing, Idle, NoWrite
    <2>6. ConfirmedIsWritten' BY <1>2, <2>1 DEF ConfirmedIsWritten, NoWrite
    <2> QED BY <1>2, <2>2, <2>3, <2>5, <2>6
  <1>4. CASE ~(root = "WRITING" /\ asked /\ waits)
    <2> DEFINE own == flash.sector # 0 /\ ~waits
    <2>1. WriteFinished(Idle, own) /\ UNCHANGED <<waits, call>>
      BY <1>4 DEF flash_write_complete
    <2>2. own /\ activeCmd = "WRITE_FLASH" => Begun BY <1>1 DEF Begun
    <2>3. own /\ activeCmd = "WRITE_FLASH" => state # "ERASING_PAGES"
      BY <2>2 DEF PromiseInv
    <2>4. own /\ activeCmd = "WRITE_FLASH" /\ write # NoWrite =>
              content'[write.sector] = write.data
      BY <1>1, <1>2, <2>2 DEF PromiseInv
    <2>5. own \in BOOLEAN OBVIOUS
    <2> HIDE DEF own
    <2> QED BY <1>1, <1>2, <2>1, <2>3, <2>4, <2>5, Finishes
  <1> QED BY <1>3, <1>4

(* The rest of the completion, after the restart of a packet that waited. *)
LEMMA RestKeeps ==
    ASSUME Inv, CompletionGoesOn
    PROVE  Inv'
  <1>1. /\ UNCHANGED <<bootMode, content, info, waits>>
        /\ WriteFinished(flash, FALSE) /\ call' = "none" /\ Running
    BY DEF CompletionGoesOn, nvm
  <1>2. content' \in [Sectors -> Written] BY <1>1 DEF Inv, TypeInv
  <1>3. BootsWhole' BY <1>1 DEF Inv, BootsWhole, Holds, AreaSectors
  <1>4. promised # NoWrite => content'[promised.sector] = promised.data
    BY <1>1 DEF Inv, ConfirmedIsWritten
  <1> QED BY <1>1, <1>2, <1>3, <1>4, Finishes

LEMMA FlashKeeps ==
    ASSUME Inv, FlashErase \/ FlashProgram
    PROVE  Inv'
  <1>1. flash.sector # 0 => flash.result \in Written BY DEF Inv, TypeInv
  <1>2. flash \in [state : {"IDLE", "ERASING", "WRITING"}, sector : {0} \cup Sectors,
                   result : Written \cup {"none", "root"}, left : Nat]
    BY DEF Inv, TypeInv
  <1>3. CASE FlashErase
    <2>1. /\ Free /\ Running /\ Flashing /\ FlashOnly
          /\ Become(flash.sector, "erased")
      BY <1>3 DEF FlashErase, Flashing, Free
    <2>2. "erased" \in Written BY DEF Written
    <2>3. ~Begun BY <1>3, <2>1 DEF FlashErase, Inv, PromiseInv
    <2>4. CASE flash.left > 1
      <3>1. flash' = [flash EXCEPT !.state = "WRITING"] /\ NotDone
        BY <1>3, <2>4 DEF FlashErase
      <3>2. flash' \in [state : {"WRITING"}, sector : {flash.sector},
                        result : {flash.result}, left : Nat]
        BY <1>2, <3>1
      <3> QED BY <2>1, <2>2, <3>1, <3>2, GoesOn
    <2>5. CASE ~(flash.left > 1)
      <3>1. flash_write_complete BY <1>3, <2>5 DEF FlashErase
      <3> QED BY <2>1, <2>2, <2>3, <3>1, Completes
    <2> QED BY <2>4, <2>5
  <1>4. CASE FlashProgram
    <2>1. Free /\ Running /\ Flashing /\ FlashOnly
      BY <1>4 DEF FlashProgram, Flashing, Free
    <2>2. CASE flash.left > 1
      <3>1. PICK x \in {flash.result, "garbage"} :
                (flash.sector # 0 => x \in Written) /\ Become(flash.sector, x)
        BY <1>1, <1>4, <2>2 DEF FlashProgram, Written
      <3>2. flash' = [flash EXCEPT !.left = @ - 1] /\ NotDone
        BY <1>4, <2>2 DEF FlashProgram
      <3>3. flash' \in [state : {"WRITING"}, sector : {flash.sector},
                        result : {flash.result}, left : Nat]
        BY <1>2, <1>4, <2>2, <3>2 DEF FlashProgram
      <3> QED BY <2>1, <3>1, <3>2, <3>3, GoesOn
    <2>3. CASE ~(flash.left > 1)
      <3>1. flash_write_complete /\ Become(flash.sector, flash.result)
        BY <1>4, <2>3 DEF FlashProgram
      <3> QED BY <1>1, <2>1, <3>1, Completes
    <2> QED BY <2>2, <2>3
  <1> QED BY <1>3, <1>4

LEMMA SyncKeeps ==
    ASSUME Inv, sync_root_block_immediate
    PROVE  Inv'
  <1> USE DEF Inv
  <1>1. /\ UNCHANGED <<bootMode, content, info, write, promised, index, state,
                        activeCmd, phase, waits, call>>
        /\ flash' = RootPage /\ Running /\ flash.state = "IDLE"
    BY DEF sync_root_block_immediate, nvm, arbiter, Free
  <1>2. Target' = Target /\ 0 \notin Sectors
    BY <1>1, Areas DEF Target, AreaSectors, Other, TypeInv
  <1>3. TypeInv' BY <1>1 DEF TypeInv, RootPage
  <1>4. WriterInv' BY <1>1, <1>2 DEF WriterInv, RootPage
  <1>5. PromiseInv' BY <1>1, <1>2 DEF PromiseInv, Begun, RootPage, NoWrite
  <1>6. BootsWhole' BY <1>1 DEF BootsWhole, Holds, AreaSectors
  <1>7. ConfirmedIsWritten' BY <1>1 DEF ConfirmedIsWritten, NoWrite
  <1> QED BY <1>3, <1>4, <1>5, <1>6, <1>7

------------------------------------------------------------------------------
(* The commands that start the flash writer. *)

LEMMA EraseKeeps ==
    ASSUME Inv, erase_flash_pages_cmd
    PROVE  Inv'
  <1> USE DEF Inv
  <1>0. waits = FALSE /\ Running BY NoneWaits DEF erase_flash_pages_cmd
  <1>1. /\ UNCHANGED <<bootMode, content, info, write, waits>>
        /\ activeCmd' = "none" /\ state' = "ERASING_PAGES" /\ index' = FirstSector
        /\ promised' = NotAt(Target)
        /\ \/ flash' = Erase(FirstSector) /\ phase' = phase
           \/ flash' = flash /\ phase' = "stopped"
    BY DEF erase_flash_pages_cmd, nvm, TurnEnds, StartFlash, Target
  <1>2. bootMode \in Modes BY DEF TypeInv
  <1>3. /\ Target' = Target /\ 0 \notin Sectors /\ Target \subseteq Sectors
        /\ FirstSector \in Target /\ FirstSector \in Nat
    BY <1>1, <1>2, Areas, EraseRange DEF Target, AreaSectors, Other
  <1>4. promised' \in {promised, NoWrite} /\ promised'.sector \notin Target
    <2>1. NoWrite.sector = 0 BY DEF NoWrite
    <2> QED BY <1>1, <1>3, <2>1 DEF NotAt
  <1>5. TypeInv'
    BY <1>1, <1>2, <1>3, <1>4 DEF TypeInv, Erase, Written, NoWrite
  <1>6. WriterInv' BY <1>1, <1>3 DEF WriterInv, Running, Flashing, Erase
  <1>7. PromiseInv'
    BY <1>0, <1>1, <1>3, <1>4 DEF PromiseInv, Begun, Running, Flashing, Erase, NoWrite
  <1>8. BootsWhole' BY <1>1 DEF BootsWhole, Holds, AreaSectors
  <1>9. ConfirmedIsWritten' BY <1>1, <1>4 DEF ConfirmedIsWritten, NoWrite
  <1> QED BY <1>5, <1>6, <1>7, <1>8, <1>9

LEMMA WriteKeeps ==
    ASSUME Inv, write_flash_cmd
    PROVE  Inv'
  <1> USE DEF Inv
  <1>1. PICK s \in Target, v \in Versions :
          /\ write' = IF content[s] = "erased" THEN [sector |-> s, data |-> v] ELSE NoWrite
          /\ StartFlash(flash, Program(s, v))
          /\ promised' = NotAt({s})
    BY DEF write_flash_cmd, Target
  <1>0. waits = FALSE /\ Running BY NoneWaits DEF write_flash_cmd
  <1>2. /\ UNCHANGED <<bootMode, content, info, index, state, waits>>
        /\ activeCmd' = "WRITE_FLASH"
        /\ state = "FIRMWARE_UPDATE"
        /\ \/ flash' = Program(s, v) /\ phase' = phase
           \/ flash' = flash /\ phase' = "stopped"
    BY <1>1 DEF write_flash_cmd, nvm, TurnEnds, StartFlash
  <1>3. bootMode \in Modes BY DEF TypeInv
  <1>4. /\ Target' = Target /\ 0 \notin Sectors /\ Target \subseteq Sectors
        /\ s \in Sectors /\ s # 0
    BY <1>2, <1>3, Areas DEF Target, AreaSectors, Other
  <1>5. promised' \in {promised, NoWrite} /\ promised'.sector # s
    <2>1. NoWrite.sector = 0 BY DEF NoWrite
    <2> QED BY <1>1, <1>4, <2>1 DEF NotAt
  <1>6. /\ Program(s, v).state = "WRITING" /\ Program(s, v).sector = s
        /\ Program(s, v).left = 2
        /\ Program(s, v).result \in Written
        /\ content[s] = "erased" => Program(s, v).result = v
        /\ Program(s, v) \in [state : {"IDLE", "ERASING", "WRITING"},
                               sector : {0} \cup Sectors,
                               result : Written \cup {"none", "root"}, left : Nat]
    BY <1>4 DEF Program, Written
  <1>7. TypeInv'
    BY <1>1, <1>2, <1>4, <1>5, <1>6 DEF TypeInv, NoWrite
  <1>8. WriterInv' BY <1>2, <1>4, <1>6 DEF WriterInv, Running, Flashing
  <1>9. PromiseInv'
    BY <1>0, <1>1, <1>2, <1>4, <1>5, <1>6
       DEF PromiseInv, Begun, Running, Flashing, NoWrite
  <1>10. BootsWhole' BY <1>2 DEF BootsWhole, Holds, AreaSectors
  <1>11. ConfirmedIsWritten' BY <1>2, <1>5 DEF ConfirmedIsWritten, NoWrite
  <1> QED BY <1>7, <1>8, <1>9, <1>10, <1>11

------------------------------------------------------------------------------
(* Switching and resets. *)

(* The checksum the host announced is that of a version, since every sector of  *)
(* the other program has it.                                                    *)
LEMMA SwitchKeeps ==
    ASSUME Inv, switch_boot_mode_cmd
    PROVE  Inv'
  <1> USE DEF Inv
  <1>0. waits = FALSE BY NoneWaits DEF switch_boot_mode_cmd
  <1>1. /\ UNCHANGED <<content, info, write, promised, index, flash, state, activeCmd,
                        waits, call>>
        /\ state # "ERASING_PAGES"
        /\ Holds(content, Other(bootMode), info)
        /\ bootMode' = Other(bootMode) /\ phase' = "switching"
    BY DEF switch_boot_mode_cmd, ram, arbiter
  <1>2. bootMode \in Modes BY DEF TypeInv
  <1>3. info \in Versions
    <2>1. PICK s \in Target : s \in Sectors
      BY <1>2, Areas DEF Target
    <2>2. content[s] = info /\ content[s] \in Written
      BY <1>1, <2>1 DEF Holds, Target, TypeInv
    <2> QED BY <2>2, FirmwareUpdateAssumption DEF TypeInv, Written
  <1>4. BootsWhole' BY <1>1, <1>3 DEF BootsWhole, Holds, AreaSectors
  <1>5. TypeInv' BY <1>1, <1>2, Areas DEF TypeInv
  <1>6. WriterInv' BY <1>1 DEF WriterInv, Running
  <1>7. PromiseInv' BY <1>0, <1>1 DEF PromiseInv, Begun, Running, NoWrite
  <1>8. ConfirmedIsWritten' BY <1>1 DEF ConfirmedIsWritten, NoWrite
  <1> QED BY <1>4, <1>5, <1>6, <1>7, <1>8

LEMMA BootKeeps ==
    ASSUME Inv, Interrupted, Boot
    PROVE  Inv'
  <1> USE DEF Inv
  <1>1. /\ UNCHANGED <<bootMode, promised>> /\ flash' = Idle /\ write' = NoWrite
        /\ info' = "none" /\ index' = 0 /\ state' = "DISCONNECTED"
        /\ activeCmd' = "none" /\ phase' = "running"
        /\ waits' = FALSE /\ call' = "none"
    BY DEF Boot
  <1>2. /\ content' \in [Sectors -> Written]
        /\ BootsWhole'
        /\ promised # NoWrite => content'[promised.sector] = promised.data
    <2>1. CASE UNCHANGED content
      BY <1>1, <2>1 DEF TypeInv, BootsWhole, Holds, AreaSectors, ConfirmedIsWritten
    <2>2. CASE Running /\ Flashing /\ Become(flash.sector, "garbage")
      BY <1>1, <2>2, RoundTouches DEF Written
    <2> QED BY <2>1, <2>2 DEF Interrupted
  <1>3. TypeInv' BY <1>1, <1>2 DEF TypeInv, Idle, NoWrite
  <1>4. WriterInv' BY <1>1 DEF WriterInv, Flashing, Idle
  <1>5. PromiseInv' BY <1>1 DEF PromiseInv, Begun, Flashing, Idle, NoWrite
  <1>6. ConfirmedIsWritten' BY <1>1, <1>2 DEF ConfirmedIsWritten, NoWrite
  <1> QED BY <1>2, <1>3, <1>4, <1>5, <1>6

------------------------------------------------------------------------------
LEMMA InvInit ==
    ASSUME Init
    PROVE  Inv
  <1>1. /\ bootMode \in Modes /\ flash = Idle /\ write = NoWrite /\ info = "none"
        /\ index = 0 /\ state = "DISCONNECTED" /\ activeCmd = "none"
        /\ promised = NoWrite /\ waits = FALSE /\ call = "none"
    BY DEF Init, InitRam, Modes
  <1>2. PICK v \in Versions : content = [s \in Sectors |-> v] BY DEF Init
  <1>3. BootsWhole
    <2>1. Holds(content, bootMode, v) BY <1>1, <1>2, Areas DEF Holds
    <2> QED BY <2>1 DEF BootsWhole
  <1>4. TypeInv BY <1>1, <1>2 DEF TypeInv, Idle, NoWrite, Written
  <1>5. WriterInv /\ PromiseInv
    BY <1>1 DEF WriterInv, PromiseInv, Begun, Flashing, Idle, NoWrite
  <1>6. ConfirmedIsWritten BY <1>1 DEF ConfirmedIsWritten
  <1> QED BY <1>3, <1>4, <1>5, <1>6 DEF Inv

LEMMA InvNext ==
    ASSUME Inv, [Next]_vars
    PROVE  Inv'
  <1>1. CASE MainLoop BY <1>1, FlashKeeps, SyncKeeps DEF MainLoop
  <1>2. CASE CompletionGoesOn BY <1>2, RestKeeps
  <1>3. CASE Command
    <2>1. CASE \/ startup_cmd \/ login_cmd \/ update_firmware_cmd \/ get_progress_cmd
               \/ AnsweredAtOnce
      BY <2>1, CommandsKeep
    <2>2. CASE erase_flash_pages_cmd BY <2>2, EraseKeeps
    <2>3. CASE write_flash_cmd BY <2>3, WriteKeeps
    <2>4. CASE switch_boot_mode_cmd BY <2>4, SwitchKeeps
    <2>5. CASE reset_device_cmd BY <2>5, BootKeeps DEF reset_device_cmd
    <2> QED BY <1>3, <2>1, <2>2, <2>3, <2>4, <2>5 DEF Command
  <1>4. CASE \/ CtapTakes \/ sync_root_block \/ CtapReleases \/ PacketWaits
             \/ ScanEnds \/ cmd_disconnect \/ long_button_press \/ blink_timeout
             \/ cancel_button_press
    BY <1>4, BesideKeeps
  <1>5. CASE HAL_NVIC_SystemReset
    BY <1>5, BootKeeps DEF HAL_NVIC_SystemReset, Interrupted
  <1>6. CASE PowerFails BY <1>6, BootKeeps DEF PowerFails
  <1>7. CASE UNCHANGED vars
    <2>1. UNCHANGED <<bootMode, content, flash, phase, write, promised, index, info,
                      state, activeCmd, waits, call>>
      BY <1>7 DEF vars, nvm, ram, arbiter
    <2>2. /\ info \in Versions \cup {"none"} /\ waits \in BOOLEAN
          /\ call # "none" => ~waits
      BY DEF Inv, TypeInv, PromiseInv
    <2>3. Begun' => Begun BY <2>1 DEF Begun
    <2> QED BY <2>1, <2>2, <2>3, Quiet
  <1> QED BY <1>1, <1>2, <1>3, <1>4, <1>5, <1>6, <1>7 DEF Next

(* The invariant holds in every state of every behaviour. *)
THEOREM Inductive == Spec => []Inv
  <1>1. Init => Inv BY InvInit
  <1>2. Inv /\ [Next]_vars => Inv' BY InvNext
  <1> QED BY <1>1, <1>2, PTL DEF Spec

(* The program the boot mode selects is always whole, for programs of any       *)
(* number of sectors, any number of versions, and power failing at any step.    *)
THEOREM AlwaysBoots == Spec => []BootsWhole
  <1>1. Inv => BootsWhole BY DEF Inv
  <1> QED BY <1>1, Inductive, PTL

(* A write that WRITE_FLASH confirmed when it was complete is in the flash until *)
(* the host has the sector erased or written again. Packets that wait for FIDO2 *)
(* are restarted, and completions of its root page taken for theirs, in between: *)
(* what they confirm too early makes no promise, and breaks none.               *)
THEOREM Confirmed == Spec => []ConfirmedIsWritten
  <1>1. Inv => ConfirmedIsWritten BY DEF Inv
  <1> QED BY <1>1, Inductive, PTL
==============================================================================
