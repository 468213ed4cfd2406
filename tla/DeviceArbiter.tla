---------------------------- MODULE DeviceArbiter ----------------------------
(* Who may use the device. Signet commands (commands.c), FIDO2 messages         *)
(* (ctaphid.c) and the FIDO2 start-up of the main loop take turns through       *)
(* request_device and release_device. A release is put off until the root block *)
(* is in flash; the completion of the write then hands the device on.           *)
EXTENDS Naturals, FiniteSets

CONSTANTS Work,         \* what commands do: "progress" (INITIALIZE and WIPE go
                        \* on after the answer), "modify" (the root block)
          MaxCommands,  \* bound: commands sent by either host program
          MaxModify     \* bound: modifications of the root block

ASSUME ArbiterAssumption ==
    /\ Work \subseteq {"progress", "modify"}
    /\ MaxCommands \in Nat
    /\ MaxModify \in Nat

Subsystems == {"SIGNET", "CTAP", "CTAP_STARTUP"}

VARIABLES
    owner,           \* s_device_system_owner
    ctapWaiting,     \* s_ctap_subsystem_waiting
    signetWaiting,   \* s_signet_subsystem_waiting
    releaseRequested,\* s_subsystem_release_requested
    sync,            \* g_root_block_sync_state
    ctapInitialized, \* g_ctap_initialized
    activeCmd,       \* active_cmd # -1
    progressing,     \* n_progress_components # 0
    ctapProcessing,  \* ctaphid_processing_packet
    sent, modified   \* counters for the bounds

arbiter == <<owner, ctapWaiting, signetWaiting, releaseRequested>>
signet  == <<activeCmd, progressing>>
ctap    == <<ctapProcessing, ctapInitialized>>
vars    == <<arbiter, signet, ctap, sync, sent, modified>>

Init ==
    /\ owner = "NO_SUBSYSTEM"
    /\ ctapWaiting = FALSE /\ signetWaiting = FALSE
    /\ releaseRequested = TRUE
    /\ sync = "SYNCED"
    /\ ctapInitialized \in BOOLEAN   \* ctap_init_finish may lack random data
    /\ activeCmd = FALSE /\ progressing = FALSE
    /\ ctapProcessing = FALSE
    /\ sent = 0 /\ modified = 0

------------------------------------------------------------------------------
(* request_device, release_device and release_device_request. *)

Granted(system) ==
    \/ owner = system
    \/ owner = "NO_SUBSYSTEM" /\ (system = "CTAP" => ctapInitialized)

request_device(system) ==
    /\ owner' = IF Granted(system) THEN system ELSE owner
    /\ ctapWaiting' = (ctapWaiting \/ (system = "CTAP" /\ ~Granted(system)))
    /\ signetWaiting' = (signetWaiting \/ (system = "SIGNET" /\ ~Granted(system)))
    /\ UNCHANGED releaseRequested

(* Mutant: release_device without the else: both sides are woken. *)
MutantReleaseBoth(system, initialized) ==
    /\ owner' = IF ctapWaiting /\ initialized THEN "CTAP"
                ELSE IF signetWaiting THEN "SIGNET" ELSE "NO_SUBSYSTEM"
    /\ ctapWaiting' = FALSE /\ signetWaiting' = FALSE

(* Mutant: release_device built without ENABLE_FIDO2. *)
MutantReleaseToSignet(system, initialized) ==
    LET toSignet == signetWaiting /\ system # "SIGNET"
    IN /\ owner' = IF toSignet THEN "SIGNET" ELSE "NO_SUBSYSTEM"
       /\ signetWaiting' = (signetWaiting /\ ~toSignet)
       /\ UNCHANGED ctapWaiting

(* The device goes to the other side if it waits, FIDO2 first.                  *)
release_device(system, initialized) ==
    LET toCtap   == ctapWaiting /\ system # "CTAP" /\ initialized
        toSignet == ~toCtap /\ signetWaiting /\ system # "SIGNET"
    IN /\ owner' = IF toCtap THEN "CTAP"
                   ELSE IF toSignet THEN "SIGNET" ELSE "NO_SUBSYSTEM"
       /\ ctapWaiting' = (ctapWaiting /\ ~toCtap)
       /\ signetWaiting' = (signetWaiting /\ ~toSignet)

release_device_request(system, state, initialized) ==
    IF system # owner
      THEN UNCHANGED arbiter
    ELSE IF state # "SYNCED"
      THEN /\ releaseRequested' = TRUE
           /\ UNCHANGED <<owner, ctapWaiting, signetWaiting>>
      ELSE release_device(system, initialized) /\ UNCHANGED releaseRequested

------------------------------------------------------------------------------
(* A handler may modify the root block: sync_root_block. *)
MayModify ==
    \/ UNCHANGED <<sync, modified>>
    \/ /\ "modify" \in Work /\ modified < MaxModify
       /\ modified' = modified + 1
       /\ sync' = "MODIFIED"

(* A command packet. While a command waits for the device, no further packet is *)
(* received.                                                                    *)
cmd_packet_recv ==
    /\ sent < MaxCommands /\ sent' = sent + 1
    /\ ~activeCmd /\ ~signetWaiting
    /\ activeCmd' = TRUE
    /\ request_device("SIGNET")
    /\ UNCHANGED <<progressing, ctap, sync, modified>>

SignetRunning == activeCmd /\ ~signetWaiting

(* finish_command, and subsystem_idle_check. *)
finish_command ==
    /\ SignetRunning
    /\ activeCmd' = FALSE
    /\ IF progressing
         THEN UNCHANGED arbiter
         ELSE release_device_request("SIGNET", sync, ctapInitialized)
    /\ UNCHANGED <<progressing, ctap, sync, sent, modified>>

(* INITIALIZE and WIPE: the answer comes first, then the progressing state.     *)
FinishAndProgress ==
    /\ "progress" \in Work
    /\ SignetRunning /\ ~progressing
    /\ activeCmd' = FALSE
    /\ release_device_request("SIGNET", sync, ctapInitialized)
    /\ progressing' = TRUE
    /\ UNCHANGED <<ctap, sync, sent, modified>>

(* enter_state at the end of the progress, or a DISCONNECT. *)
enter_state ==
    /\ progressing /\ progressing' = FALSE
    /\ IF activeCmd THEN UNCHANGED arbiter
       ELSE release_device_request("SIGNET", sync, ctapInitialized)
    /\ UNCHANGED <<activeCmd, ctap, sync, sent, modified>>

cmd_disconnect ==
    /\ ~signetWaiting
    /\ activeCmd' = FALSE /\ progressing' = FALSE
    /\ release_device_request("SIGNET", sync, ctapInitialized)
    /\ UNCHANGED <<ctap, sync, sent, modified>>

(* CHANGE_MASTER_PASSWORD, finalize_root_page_check. *)
SignetModify ==
    /\ SignetRunning \/ progressing
    /\ MayModify
    /\ sync' # sync
    /\ UNCHANGED <<arbiter, signet, ctap, sent>>

(* A complete FIDO2 message; the next one is received when it is answered.      *)
ctaphid_handle_packet ==
    /\ sent < MaxCommands /\ sent' = sent + 1
    /\ ~ctapProcessing
    /\ ctapProcessing' = TRUE
    /\ request_device("CTAP")
    /\ UNCHANGED <<signet, ctapInitialized, sync, modified>>

CtapRunning == ctapProcessing /\ ~ctapWaiting

(* restart_command carries the message through: at once, after a button press,  *)
(* its timeout, or when enough random numbers have been gathered.               *)
restart_command ==
    /\ CtapRunning
    /\ ctapProcessing' = FALSE
    /\ MayModify
    /\ release_device_request("CTAP", sync', ctapInitialized)
    /\ UNCHANGED <<signet, ctapInitialized, sent>>

(* The main loop takes the free device for the FIDO2 initialization, which it   *)
(* completes while packets go on arriving in interrupts.                        *)
CtapStartup ==
    /\ ~ctapInitialized /\ owner = "NO_SUBSYSTEM"
    /\ request_device("CTAP_STARTUP")
    /\ UNCHANGED <<signet, ctap, sync, sent, modified>>

ctap_init_finish ==
    /\ ~ctapInitialized /\ owner = "CTAP_STARTUP"
    /\ ctapInitialized' = TRUE
    /\ MayModify
    /\ release_device_request("CTAP_STARTUP", sync', TRUE)
    /\ UNCHANGED <<signet, ctapProcessing, sent>>

(* The main loop starts the write of a modified root block. *)
sync_root_block_immediate ==
    /\ sync = "MODIFIED"
    /\ sync' = "WRITING"
    /\ UNCHANGED <<arbiter, signet, ctap, sent, modified>>

(* Mutant: the completion of the write forgets who asked for a release. *)
MutantWriteComplete ==
    /\ sync = "WRITING"
    /\ sync' = "SYNCED"
    /\ UNCHANGED <<arbiter, signet, ctap, sent, modified>>

(* write_block_complete: the page is in flash, and a release that was put off   *)
(* is carried out, for whoever owns the device now.                             *)
write_block_complete ==
    /\ sync = "WRITING"
    /\ sync' = "SYNCED"
    /\ releaseRequested' = FALSE
    /\ IF releaseRequested
         THEN release_device(owner, ctapInitialized)
         ELSE UNCHANGED <<owner, ctapWaiting, signetWaiting>>
    /\ UNCHANGED <<signet, ctap, sent, modified>>

Next ==
    \/ cmd_packet_recv \/ finish_command \/ FinishAndProgress \/ enter_state
    \/ cmd_disconnect \/ SignetModify
    \/ ctaphid_handle_packet \/ restart_command \/ CtapStartup \/ ctap_init_finish
    \/ sync_root_block_immediate \/ write_block_complete

(* Commands end, if only by the ten second timeout of a button press; the main  *)
(* loop goes round.                                                             *)
Fairness ==
    /\ WF_vars(finish_command) /\ WF_vars(enter_state)
    /\ WF_vars(restart_command)
    /\ WF_vars(CtapStartup) /\ WF_vars(ctap_init_finish)
    /\ WF_vars(sync_root_block_immediate) /\ WF_vars(write_block_complete)

Spec == Init /\ [][Next]_vars /\ Fairness

------------------------------------------------------------------------------
(* The types of the arbiter's variables and of what they depend on, and the     *)
(* bounds on commands and modifications.                                        *)
TypeOK ==
    /\ owner \in Subsystems \cup {"NO_SUBSYSTEM"}
    /\ ctapWaiting \in BOOLEAN /\ signetWaiting \in BOOLEAN
    /\ releaseRequested \in BOOLEAN
    /\ sync \in {"SYNCED", "MODIFIED", "WRITING"}
    /\ ctapInitialized \in BOOLEAN
    /\ activeCmd \in BOOLEAN /\ progressing \in BOOLEAN
    /\ ctapProcessing \in BOOLEAN
    /\ sent \in 0 .. MaxCommands /\ modified \in 0 .. MaxModify

SignetWorking == SignetRunning \/ progressing

(* No Signet command and FIDO2 message are carried through at the same time.    *)
(* ctaphid.c: "we can't process overlapping commands safely".                   *)
OneAtATime == ~(SignetWorking /\ CtapRunning)

(* As long as nothing has modified the root block and no command is going on    *)
(* after its answer, the device arbiter keeps the two sides apart, whatever the *)
(* order of packets, answers and FIDO2 start-up.                                *)
TurnsRespected == modified = 0 /\ ~progressing => OneAtATime

(* Nobody holds the device without a command at work on it, except while the    *)
(* root block is on its way to flash: release_device_request and the completion *)
(* of the write miss no release.                                                *)
HeldOnlyInUse ==
    sync = "SYNCED" =>
        /\ owner = "SIGNET" => SignetWorking
        /\ owner = "CTAP" => CtapRunning
        /\ owner = "CTAP_STARTUP" => ~ctapInitialized

(* A subsystem that request_device told to wait waits only for one that will    *)
(* release the device: never for itself, nor, once FIDO2 is initialized, while  *)
(* the device is free.                                                          *)
NobodyForgotten ==
    /\ ctapWaiting => owner # "CTAP" /\ (owner = "NO_SUBSYSTEM" => ~ctapInitialized)
    /\ signetWaiting => owner \in {"CTAP", "CTAP_STARTUP"}

(* Every Signet command that waits for the device gets it: release_device       *)
(* prefers FIDO2, but a message that waits in its turn waits for the command.   *)
SignetServed == signetWaiting ~> ~signetWaiting

(* Every FIDO2 message that waits for the device, or for FIDO2 to be            *)
(* initialized, gets it.                                                        *)
CtapServed == ctapWaiting ~> ~ctapWaiting
==============================================================================
